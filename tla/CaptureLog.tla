----------------------------- MODULE CaptureLog -----------------------------
(***************************************************************************)
(* What the collector promises about every frame, whatever its tasks do:   *)
(* a received frame is either kept or dropped, never both; kept frames     *)
(* become records, and dropped ones counts, of exactly one immutable part  *)
(* of their own cohort; and a frame is lost only with the part or with the *)
(* process that carried it.                                                *)
(***************************************************************************)
CONSTANTS Frames, CohortOf

VARIABLE fate   \* fate[f]: what has become of frame f

Fates == {"unread", "received", "kept", "dropped", "stored", "counted",
          "unstored", "uncounted", "gone"}

Init == fate = [f \in Frames |-> "unread"]

Move(f, from, to) == fate[f] = from /\ fate' = [fate EXCEPT ![f] = to]

\* The frames of S move together, each along one of the given pairs.
MoveAll(S, pairs) ==
    /\ \A f \in S : \E p \in pairs : fate[f] = p[1] /\ fate'[f] = p[2]
    /\ \A f \in Frames \ S : fate'[f] = fate[f]
    /\ DOMAIN fate' = Frames

Receive(f) == Move(f, "unread", "received")
Keep(f)    == Move(f, "received", "kept")
Drop(f)    == Move(f, "received", "dropped")

OneCohort(S) == S # {} /\ \A f, g \in S : CohortOf[f] = CohortOf[g]

\* A part is written: its frames are published in one atomic PUT.
Publish(S) == OneCohort(S) /\ MoveAll(S, {<<"kept", "stored">>, <<"dropped", "counted">>})

\* A part is given up, together with what its writer held if that dies too.
GiveUp(S, T) ==
    /\ S # {} => OneCohort(S)
    /\ S \cap T = {}
    /\ \A f \in S : \/ fate[f] = "kept" /\ fate'[f] = "unstored"
                    \/ fate[f] = "dropped" /\ fate'[f] = "uncounted"
    /\ \A f \in T : fate[f] \in {"received", "kept", "dropped"} /\ fate'[f] = "gone"
    /\ \A f \in Frames \ (S \cup T) : fate'[f] = fate[f]
    /\ DOMAIN fate' = Frames

\* A part that was given up turns out to have been written.
Land(S) == OneCohort(S) /\ MoveAll(S, {<<"unstored", "stored">>, <<"uncounted", "counted">>})

Next == \/ \E f \in Frames : Receive(f) \/ Keep(f) \/ Drop(f)
        \/ \E S \in SUBSET Frames : Publish(S) \/ Land(S)
        \/ \E S, T \in SUBSET Frames : GiveUp(S, T)

Spec == Init /\ [][Next]_fate
=============================================================================
