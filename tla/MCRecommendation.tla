-------------------------- MODULE MCRecommendation --------------------------
(***************************************************************************)
(* The readers of latest.json, side by side over the same published        *)
(* artifacts: `active' picks the server or the threads of one client for a *)
(* behaviour.  The client does not see the server but its promise, which   *)
(* the server's behaviours are checked against.                            *)
(***************************************************************************)
EXTENDS RecommendationServer, MCRecommendationClient

\* The one artifact there is may be published or withdrawn.
MCPresence == {Absent, Valid(40)}

VARIABLE active

all == <<server, client, world, active>>

RecommendationInit == Init /\ ClientInit /\ active \in {"server", "client"}

RecommendationNext ==
    \/ active = "server" /\ Next /\ UNCHANGED <<client, active>>
    \/ active = "client" /\ ClientNext /\ UNCHANGED <<server, active>>

RecommendationSpec ==
    /\ RecommendationInit /\ [][RecommendationNext]_all
    /\ active = "server" => Fairness
=============================================================================
