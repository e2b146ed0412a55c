--------------------------- MODULE MemoryTracker ----------------------------
(***************************************************************************)
(* The collector's lock-free memory accounting (memory.rs).  One atomic    *)
(* counter, `used_bytes', is moved by compare-and-swap loops that run on   *)
(* the connection readers' threads (try_reserve) and on the thread of      *)
(* whichever task drops a MemoryGuard (release).  Every load and every     *)
(* compare_exchange_weak is one step; a weak exchange may fail although    *)
(* the counter still has the expected value.                               *)
(***************************************************************************)
EXTENDS ByteSums

CONSTANTS
    Slots,    \* the concurrent users of the tracker
    Bytes,    \* Bytes[s]: what slot s asks for (frame.len() + 8)
    MaxBytes, \* the largest request (max_frame_size + 8)
    Limit     \* live_memory_bytes

ASSUME SlotsAssumption == IsFiniteSet(Slots)
ASSUME BytesAssumption == /\ MaxBytes \in Nat
                          /\ Bytes \in [Slots -> 1..MaxBytes]
ASSUME LimitAssumption == Limit \in Nat

VARIABLES
    used_bytes,  \* the shared atomic
    pc,          \* pc[s]: where slot s is
    current      \* current[s]: the local `current' of the loop s runs

vars == <<used_bytes, pc, current>>

Init == /\ used_bytes = 0
        /\ pc = [s \in Slots |-> "idle"]
        /\ current = [s \in Slots |-> 0]

Goto(s, to) == pc' = [pc EXCEPT ![s] = to]

\* A reader calls try_reserve.
Call(s) == /\ pc[s] = "idle"
           /\ Goto(s, "load")
           /\ UNCHANGED <<used_bytes, current>>

\* `let mut current = self.used_bytes.load(..)', of try_reserve or release.
Load(s) == /\ pc[s] \in {"load", "releaseLoad"}
           /\ current' = [current EXCEPT ![s] = used_bytes]
           /\ Goto(s, IF pc[s] = "load" THEN "reserve" ELSE "release")
           /\ UNCHANGED used_bytes

\* Mutant: a request that exactly fills the budget is refused too.
RefusesExactFit(s) == /\ pc[s] = "reserve"
                      /\ current[s] + Bytes[s] >= Limit
                      /\ Goto(s, "idle")
                      /\ current' = [current EXCEPT ![s] = 0]
                      /\ UNCHANGED used_bytes

\* `if next > limit { return None; }'.  checked_add cannot overflow when the
\* sum is at most Limit, and returns None as well when it does.
ReturnNone(s) == /\ pc[s] = "reserve"
                 /\ current[s] + Bytes[s] > Limit
                 /\ Goto(s, "idle")
                 /\ current' = [current EXCEPT ![s] = 0]
                 /\ UNCHANGED used_bytes

\* The exchange of try_reserve succeeds: the caller owns a guard.
ReserveCas(s) == /\ pc[s] = "reserve"
                 /\ current[s] + Bytes[s] <= Limit
                 /\ used_bytes = current[s]
                 /\ used_bytes' = current[s] + Bytes[s]
                 /\ Goto(s, "held")
                 /\ current' = [current EXCEPT ![s] = 0]

\* The guard goes out of scope: Drop calls release.
DropGuard(s) == /\ pc[s] = "held"
                /\ Goto(s, "releaseLoad")
                /\ UNCHANGED <<used_bytes, current>>

\* `release_bytes', clamped to the counter on an underflow.
ReleaseBytes(s) == IF Bytes[s] > current[s] THEN current[s] ELSE Bytes[s]

\* The exchange of release succeeds.
ReleaseCas(s) == /\ pc[s] = "release"
                 /\ used_bytes = current[s]
                 /\ used_bytes' = current[s] - ReleaseBytes(s)
                 /\ Goto(s, "idle")
                 /\ current' = [current EXCEPT ![s] = 0]

\* Either exchange fails, because another thread moved the counter or
\* spuriously, and the loop goes on with the value it saw (`actual').
CasFails(s) == /\ \/ pc[s] = "reserve" /\ current[s] + Bytes[s] <= Limit
                  \/ pc[s] = "release"
               /\ current' = [current EXCEPT ![s] = used_bytes]
               /\ UNCHANGED <<used_bytes, pc>>

Next == \E s \in Slots :
          \/ Call(s) \/ Load(s) \/ ReturnNone(s) \/ ReserveCas(s)
          \/ DropGuard(s) \/ ReleaseCas(s) \/ CasFails(s)

Spec == Init /\ [][Next]_vars

-----------------------------------------------------------------------------
\* The slots whose guard's bytes are in the counter.
Holding == {s \in Slots : pc[s] \in {"held", "releaseLoad", "release"}}

TypeOK == /\ used_bytes \in Nat
          /\ pc \in [Slots -> {"idle", "load", "reserve", "held",
                               "releaseLoad", "release"}]
          /\ current \in [Slots -> Nat]

\* The counter is at every instant the sum of the live guards' bytes: no
\* interleaving of the loops of try_reserve and release loses or repeats an
\* update, and the clamp of release (memory.rs:42-52) is never what keeps the
\* counter from wrapping.
CounterIsExact == used_bytes = ByteSum(Holding, Bytes)

\* Guards never add up to more than the limit, although each reservation was
\* compared with a value of the counter that may be old.
WithinLimit == ByteSum(Holding, Bytes) <= Limit

-----------------------------------------------------------------------------
\* The abstract status of a slot.  A call is refused at the step at which it
\* reads a counter value that leaves no room, not when it returns.
Status(s) ==
    CASE pc[s] = "idle" -> "out"
      [] pc[s] = "load" -> "asking"
      [] pc[s] = "reserve" /\ current[s] + Bytes[s] <= Limit -> "asking"
      [] pc[s] = "reserve" /\ current[s] + Bytes[s] > Limit -> "refused"
      [] OTHER -> "held"

Budget == INSTANCE MemoryBudget WITH status <- [s \in Slots |-> Status(s)]

\* The lock-free tracker implements the atomic budget: in particular a frame
\* is refused only if, at some instant of its call, it really did not fit.
ImplementsBudget == Budget!Spec
=============================================================================
