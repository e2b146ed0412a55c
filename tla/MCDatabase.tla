----------------------------- MODULE MCDatabase -----------------------------
(***************************************************************************)
(* The tuner's database work as the operator of the database sees it: one  *)
(* (server, database), whatever connections the tuner makes to it.  The    *)
(* operator's ledger of idle time is a history variable of its own, since  *)
(* no new connection writes it off.                                        *)
(***************************************************************************)
EXTENDS TunerDatabase

CONSTANT MaxBacklog  \* bound: idle ticks the ledger can hold

VARIABLE backlog     \* history: idle ticks owed to the database

ShareInit == DaemonInit /\ backlog = 0

Accrued == IF backlog + Rest < MaxBacklog THEN backlog + Rest ELSE MaxBacklog

(* A backend is busy while the tuner awaits it, and an abandoned one until its
   statement ends. *)
ShareTick ==
    /\ TimePasses
    /\ backlog' = IF at \in InFlight \/ orphan > 0 THEN Accrued ELSE Less(backlog)

ShareNext ==
    \/ ShareTick
    \/ (Daemon \/ Server \/ Cancel \/ Stopped) /\ UNCHANGED backlog

ShareSpec == ShareInit /\ [][ShareNext]_<<daemon, backlog>>

(* docs/tuner-spec.md:919: "One backend per `(server, database)`, busy at most
   `db_share` of wall-clock time": no transaction begins before the database
   has rested for the earlier ones. *)
BackendWithinShare == at = "begin" /\ elapsed = 0 => backlog = 0
=============================================================================
