---------------------------- MODULE TunerDatabase ---------------------------
(***************************************************************************)
(* The tuner's daemon and its database work: rounds on a fixed grid of     *)
(* ticks, one connection with a duty-cycle pacer, one paced transaction    *)
(* per sample, reconnects at the start of a round, and cancellation.       *)
(*                                                                         *)
(* Time passes in ticks and every clock is relative to now.  A statement   *)
(* is in flight until the server answers, the connection breaks or the     *)
(* client's deadline passes; the daemon's own steps take no time.  What a  *)
(* round reads and publishes is in TunerRound.                             *)
(*                                                                         *)
(* The two ends of a connection are told apart: a client that abandons a   *)
(* connection closes its socket and tells the server nothing else, so the  *)
(* backend goes on with the statement it has until the statement ends,     *)
(* which is when PostgreSQL finds that nobody listens.                     *)
(***************************************************************************)
EXTENDS Integers

CONSTANTS
    Interval,       \* calibration.interval
    ClientTimeout,  \* deadline of one operation of the client
    StatementTimeout, \* SET LOCAL statement_timeout, the server's own deadline
    CloseTimeout,   \* DATABASE_SHUTDOWN_TIMEOUT
    Rest,           \* (1 - db_share) / db_share: idle ticks per busy tick
    CohortsPerRound, \* cohorts of a round, all of this data source
    SamplesPerCohort, \* samples to measure of each cohort
    Statements      \* statements between BEGIN and COMMIT, SET LOCAL first

ASSUME DatabaseAssumption ==
    /\ Interval \in Nat \ {0} /\ ClientTimeout \in Nat \ {0}
    /\ CloseTimeout \in Nat \ {0} /\ Rest \in Nat
    /\ StatementTimeout \in Nat \ {0}
    /\ CohortsPerRound \in Nat /\ SamplesPerCohort \in Nat \ {0}
    /\ Statements \in Nat \ {0, 1}

VARIABLES
    at,         \* where the daemon is
    cancelled,  \* the cancellation token
    connected,  \* the runtime is Connected, not Unavailable
    live,       \* its socket is open: not is_closed()
    session,    \* its backend: idle, open (in a transaction), or capped (and
                \* the transaction has its statement_timeout)
    orphan,     \* ticks an abandoned backend may go on with its statement
    cool,       \* ticks until the pacer's next_allowed
    timer,      \* ticks left of the operation in flight
    elapsed,    \* ticks the unit of work has taken
    stmt,       \* statement of the transaction, or its cohort's failure
    cohort, sample,
    untilTick,  \* ticks until scheduled_tick
    sinceTick,  \* ticks since scheduled_tick, while its round runs
    grid,       \* history: ticks since the first round, modulo Interval
    debt,       \* history: idle ticks owed for work on this connection
    late        \* history: transactions begun after cancellation

schedule == <<untilTick, sinceTick>>
round == <<cohort, sample>>
link == <<connected, live, session, orphan>>
history == <<debt, late>>
daemon == <<at, cancelled, link, cool, timer, elapsed, stmt, round, schedule,
            grid, history>>

DaemonInit ==
    /\ at = "wait" /\ cancelled = FALSE
    /\ connected \in BOOLEAN /\ live = connected /\ session = "idle"
    /\ orphan = 0
    /\ cool = 0 /\ timer = 0 /\ elapsed = 0 /\ stmt = 0
    /\ cohort = 0 /\ sample = 0
    /\ untilTick = 0 /\ sinceTick = 0 /\ grid = 0
    /\ debt = 0 /\ late = 0

-----------------------------------------------------------------------------
(* The round loop.                                                         *)

(* The loop leaves for shutdown. *)
Leave ==
    /\ at' = "closing"
    /\ timer' = CloseTimeout
    /\ sinceTick' = 0
    /\ UNCHANGED <<cancelled, link, cool, elapsed, stmt, round, untilTick, grid,
                   history>>

CancelledWaiting == at = "wait" /\ cancelled /\ Leave

(* A tick: run_round first reconnects a data source that is not usable. *)
StartRound ==
    /\ at = "wait" /\ untilTick = 0 /\ ~cancelled
    /\ IF connected /\ live
       THEN /\ at' = "next" /\ cohort' = 1 /\ sample' = 1
            /\ UNCHANGED <<timer, connected, live>>
       ELSE /\ at' = "connect" /\ timer' = ClientTimeout
            /\ connected' = FALSE /\ live' = FALSE
            /\ UNCHANGED round
    /\ UNCHANGED <<cancelled, session, orphan, cool, elapsed, stmt, schedule,
                   grid, history>>

Begun ==
    /\ at' = "next" /\ cohort' = 1 /\ sample' = 1 /\ timer' = 0
    /\ UNCHANGED <<cancelled, elapsed, stmt, schedule, grid>>

(* A new connection has a new pacer, which owes nothing. *)
Connects ==
    /\ at = "connect"
    /\ connected' = TRUE /\ live' = TRUE /\ session' = "idle"
    /\ cool' = 0 /\ debt' = 0
    /\ Begun
    /\ UNCHANGED <<orphan, late>>

ConnectFails ==
    /\ at = "connect"
    /\ Begun
    /\ UNCHANGED <<link, cool, history>>

ConnectTimesOut == timer = 0 /\ ConnectFails

\* Mutant: the next tick is an interval after the round's end.
NextTickFromNow(since) == Interval

NextTick(since) ==
    IF since < Interval THEN Interval - since
    ELSE Interval - ((since - Interval) % Interval)

EndRound ==
    /\ at = "next" /\ ~cancelled /\ cohort > CohortsPerRound
    /\ at' = "wait"
    /\ untilTick' = NextTick(sinceTick)
    /\ sinceTick' = 0
    /\ cohort' = 0 /\ sample' = 0
    /\ UNCHANGED <<cancelled, link, cool, timer, elapsed, stmt, grid, history>>

RoundCancelled == at = "next" /\ cancelled /\ Leave

-----------------------------------------------------------------------------
(* One sample.                                                             *)

(* Measuring is asked of a runtime that is Unavailable: the cohort's round
   is given up, and so is every later one's. *)
Unavailable ==
    /\ at = "next" /\ ~cancelled /\ cohort <= CohortsPerRound /\ ~connected
    /\ cohort' = cohort + 1 /\ sample' = 1
    /\ UNCHANGED <<at, cancelled, link, cool, timer, elapsed, stmt, schedule,
                   grid, history>>

MeasureSample ==
    /\ at = "next" /\ ~cancelled /\ cohort <= CohortsPerRound /\ connected
    /\ at' = "cooldown"
    /\ UNCHANGED <<cancelled, link, cool, timer, elapsed, stmt, round, schedule,
                   grid, history>>

(* The pacer's select: cancellation may win even when the cooldown is over,
   and the cooldown even when cancellation has come. *)
CancelledBeforeStart == at = "cooldown" /\ cancelled /\ Leave

Send(l) == at' = l /\ timer' = ClientTimeout

\* Mutant: the pacer does not wait.
BeginTransactionAtOnce ==
    /\ at = "cooldown"
    /\ Send("begin") /\ elapsed' = 0 /\ stmt' = 0
    /\ late' = IF cancelled THEN late + 1 ELSE late
    /\ UNCHANGED <<cancelled, link, cool, round, schedule, grid, debt>>

BeginTransaction ==
    /\ at = "cooldown" /\ cool = 0
    /\ Send("begin") /\ elapsed' = 0 /\ stmt' = 0
    /\ late' = IF cancelled THEN late + 1 ELSE late
    /\ UNCHANGED <<cancelled, link, cool, round, schedule, grid, debt>>

(* run_ready charges the unit, however it ended. *)
Charge == cool' = elapsed * Rest /\ elapsed' = 0 /\ timer' = 0 /\ at' = "next"

(* The next sample of the cohort, or the next cohort. *)
NextSample ==
    IF sample < SamplesPerCohort THEN sample' = sample + 1 /\ cohort' = cohort
                        ELSE sample' = 1 /\ cohort' = cohort + 1
NextCohort == sample' = 1 /\ cohort' = cohort + 1

(* What an abandoned backend may still run: a query, for what is left of its
   statement_timeout, or without an end if none was set (NoCap stands for
   any length).  The other statements and COMMIT are over at once. *)
NoCap == StatementTimeout + 1
Ran == ClientTimeout - timer
LeftOver ==
    CASE session = "capped" /\ at = "stmt" /\ stmt > 1
            -> IF Ran < StatementTimeout THEN 0 .. StatementTimeout - Ran ELSE {0}
      [] session = "open" /\ at = "stmt" /\ stmt > 1 -> 0 .. NoCap
      [] OTHER -> {0}

(* The whole runtime is replaced by Unavailable, the client dropped and the
   driver aborted, which closes the socket.  Nothing is sent to the server. *)
ConnectionLost ==
    /\ \E n \in LeftOver : orphan' = IF n > orphan THEN n ELSE orphan
    /\ Charge /\ NextCohort
    /\ connected' = FALSE /\ live' = FALSE /\ session' = "idle"
    /\ stmt' = 0
    /\ UNCHANGED <<cancelled, schedule, grid, history>>

InFlight == {"begin", "stmt", "commit", "rollback"}

\* Mutant: an operation waits for its answer or the end of the socket.
OperationAwaitsServer ==
    /\ at \in InFlight /\ ~live
    /\ ConnectionLost

(* The socket breaks under an operation, or the client's deadline passes. *)
OperationLost ==
    /\ at \in InFlight
    /\ ~live \/ timer = 0
    /\ ConnectionLost

(* COMMIT or ROLLBACK fails: whatever the reason, the connection is gone. *)
FinishFails == at \in {"commit", "rollback"} /\ live /\ ConnectionLost

BeginFails ==
    /\ at = "begin" /\ live
    /\ Charge /\ NextSample
    /\ UNCHANGED <<cancelled, link, stmt, schedule, grid, history>>

BeginSucceeds ==
    /\ at = "begin" /\ live
    /\ session' = "open"
    /\ Send("stmt") /\ stmt' = 1
    /\ UNCHANGED <<cancelled, connected, live, orphan, cool, elapsed, round,
                   schedule, grid, history>>

(* The first statement of the transaction sets its statement_timeout. *)
StatementSucceeds ==
    /\ at = "stmt" /\ live
    /\ session' = "capped"
    /\ IF stmt < Statements THEN Send("stmt") /\ stmt' = stmt + 1
                            ELSE Send("commit") /\ stmt' = stmt
    /\ UNCHANGED <<cancelled, connected, live, orphan, cool, elapsed, round,
                   schedule, grid, history>>

(* The server refuses or cancels a statement: the sample has failed. *)
StatementFails ==
    /\ at = "stmt" /\ live
    /\ Send("rollback") /\ stmt' = 0
    /\ UNCHANGED <<cancelled, link, cool, elapsed, round, schedule, grid, history>>

(* The ground-truth query returns fewer than k rows: the cohort's Phase A is
   over. *)
TableSmallerThanK ==
    /\ at = "stmt" /\ stmt = 2 /\ live
    /\ Send("rollback") /\ stmt' = 1
    /\ UNCHANGED <<cancelled, link, cool, elapsed, round, schedule, grid, history>>

Committed ==
    /\ at = "commit" /\ live
    /\ session' = "idle"
    /\ Charge /\ NextSample
    /\ stmt' = 0
    /\ UNCHANGED <<cancelled, connected, live, orphan, schedule, grid, history>>

RolledBack ==
    /\ at = "rollback" /\ live
    /\ session' = "idle"
    /\ Charge
    /\ IF stmt = 1 THEN NextCohort ELSE NextSample
    /\ stmt' = 0
    /\ UNCHANGED <<cancelled, connected, live, orphan, schedule, grid, history>>

-----------------------------------------------------------------------------
(* Shutdown, failures and time.                                            *)

(* Every client is dropped and every driver awaited, or aborted when the
   deadline has passed. *)
Close ==
    /\ at = "closing"
    /\ ~live \/ timer = 0
    /\ at' = "stopped"
    /\ connected' = FALSE /\ live' = FALSE /\ session' = "idle"
    /\ timer' = 0
    /\ UNCHANGED <<cancelled, orphan, cool, elapsed, stmt, round, schedule, grid,
                   history>>

Cancel ==
    /\ ~cancelled /\ at # "stopped"
    /\ cancelled' = TRUE
    /\ UNCHANGED <<at, link, cool, timer, elapsed, stmt, round, schedule, grid,
                   history>>

(* The socket is closed under the client: the backend has ended, or only the
   way to it has. *)
SocketCloses ==
    /\ live /\ at # "stopped"
    /\ live' = FALSE /\ session' \in {session, "idle"}
    /\ UNCHANGED <<at, cancelled, connected, orphan, cool, timer, elapsed, stmt,
                   round, schedule, grid, history>>

Less(n) == IF n = 0 THEN 0 ELSE n - 1
Timed == InFlight \cup {"connect", "closing"}

(* A tick waits for what is due: a step of the daemon's own, a deadline, the
   end of a cooldown or of the wait for the next round. *)
Due ==
    \/ at = "next" \/ at = "stopped"
    \/ at = "wait" /\ (untilTick = 0 \/ cancelled)
    \/ at = "cooldown" /\ (cool = 0 \/ cancelled)
    \/ at \in Timed /\ timer = 0
    \/ at \in InFlight \cup {"closing"} /\ ~live

TimePasses ==
    /\ ~Due
    /\ timer' = IF at \in Timed THEN timer - 1 ELSE 0
    /\ cool' = Less(cool)
    /\ elapsed' = IF at \in InFlight THEN elapsed + 1 ELSE elapsed
    /\ untilTick' = Less(untilTick)
    /\ sinceTick' = IF at \in {"wait", "closing"} THEN 0 ELSE sinceTick + 1
    /\ grid' = (grid + 1) % Interval
    /\ debt' = IF at \in InFlight THEN debt + Rest ELSE Less(debt)
    /\ orphan' = Less(orphan)
    /\ UNCHANGED <<at, cancelled, connected, live, session, stmt, round, late>>

Daemon ==
    \/ CancelledWaiting \/ StartRound \/ ConnectTimesOut \/ EndRound
    \/ RoundCancelled \/ Unavailable \/ MeasureSample \/ CancelledBeforeStart
    \/ BeginTransaction \/ OperationLost \/ Close

Server ==
    \/ Connects \/ ConnectFails \/ FinishFails \/ BeginFails \/ BeginSucceeds
    \/ StatementSucceeds \/ StatementFails \/ TableSmallerThanK \/ Committed
    \/ RolledBack \/ SocketCloses

Stopped == at = "stopped" /\ UNCHANGED daemon

DaemonNext == Daemon \/ Server \/ Cancel \/ TimePasses \/ Stopped

DaemonSpec == DaemonInit /\ [][DaemonNext]_daemon

(* Timers fire and the daemon's task is polled.  The server owes nothing. *)
DaemonFairness == WF_daemon(Daemon) /\ WF_daemon(TimePasses)

FairDaemonSpec == DaemonSpec /\ DaemonFairness

-----------------------------------------------------------------------------
(* Rounds start on the grid the first one set, however long a round took: a
   round that overran skips ticks, and never more than its own length. *)
RoundsOnGrid == at = "wait" => (grid + untilTick) % Interval = 0

(* Between two units of work, during a cooldown and between rounds the
   connection in use has no open transaction, so no later sample runs in the
   transaction, or reads the answers, of one that failed. *)
NoOpenTransaction ==
    at \in {"wait", "next", "cooldown", "stopped"} => session = "idle"

(* A transaction begins only when the connection has rested for its earlier
   ones, failed ones too. *)
ConnectionWithinShare == at = "begin" /\ elapsed = 0 => debt = 0

(* A backend the tuner has abandoned stops by itself: its query has a
   statement_timeout, which is set before every query of a transaction. *)
AbandonedIsCapped == orphan <= StatementTimeout

(* After cancellation at most one more transaction begins: the one whose
   cooldown ended as the signal came. *)
CancelStartsAtMostOne == late <= 1

(* What the tuner may do to the database it shares.  Of each connection it
   uses no more than its share, it leaves no transaction open on it while it
   rests, what it abandons ends by the server's own deadline, and after
   cancellation it begins no more than the transaction that was already due.
   That the share holds for the database, whatever its connections, is in
   MCDatabase, and does not hold; nor has the tuner one backend there, for as
   long as an abandoned one runs. *)
DatabaseSpared ==
    /\ NoOpenTransaction /\ ConnectionWithinShare
    /\ AbandonedIsCapped /\ CancelStartsAtMostOne

(* The daemon stops once it is told to. *)
DaemonStops == cancelled ~> at = "stopped"

(* Rounds go on for as long as the daemon is not told to stop. *)
RoundsRecur == []<>(at = "wait" \/ cancelled) /\ []<>(at = "next" \/ cancelled)

(* The daemon makes progress though the server may never answer: rounds end
   and begin, and a shutdown is obeyed wherever it comes. *)
DaemonProgresses == RoundsRecur /\ DaemonStops

=============================================================================
