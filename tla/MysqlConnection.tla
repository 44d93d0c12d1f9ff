-------------------------- MODULE MysqlConnection ---------------------------
(***************************************************************************)
(* MysqlConnection: one connection to MySQL, shared by the threads of a    *)
(* process under a lock (src/common/mysql_connection.cpp).  A statement is *)
(* prepared, executed and its rows fetched; if any of these finds the      *)
(* connection lost, the connection is replaced and the statement repeated, *)
(* once.  There is no ping before a statement: that the server was away is *)
(* only noticed when the next statement fails.                             *)
(*                                                                         *)
(* The server goes away and comes back, and single connections are closed, *)
(* at any moment, MaxOutages times in all.  A statement that reaches the   *)
(* server may take effect although the connection is lost before its       *)
(* answer.                                                                 *)
(***************************************************************************)
EXTENDS Naturals, Sequences, FiniteSets

CONSTANTS
    Thread,
    NoThread,
    RowCount,        \* rows of the result of a statement
    MaxOutages       \* bound: losses of the server or of a connection

ASSUME MysqlAssumption ==
    /\ NoThread \notin Thread
    /\ RowCount \in Nat /\ MaxOutages \in Nat

VARIABLES
    up,              \* the server accepts connections
    connection,      \* connection_: "none", "open", or "dead" and not noticed
    mutex,           \* mutex_: its holder, or NoThread
    call,            \* [Thread -> call of Query or Ping]
    outages

vars == <<up, connection, mutex, call, outages>>

\* attempt: the number of the current QueryOnce; rows: out_rows, as the
\* attempts its rows come from; executed: how often the server executed the
\* statement; lost: a lost connection was noticed; calm: when the call got the
\* lock the server was up, and no further outage has happened since.
Idle == [pc |-> "idle", attempt |-> 1, rows |-> <<>>, executed |-> 0,
         lost |-> FALSE, calm |-> FALSE]

Init ==
    /\ up = TRUE /\ connection = "none" /\ mutex = NoThread
    /\ call = [t \in Thread |-> Idle]
    /\ outages = 0

Goto(t, c) == call' = [call EXCEPT ![t] = c]

-----------------------------------------------------------------------------
(* The server and the network.                                             *)

NoLongerCalm == [t \in Thread |-> [call[t] EXCEPT !.calm = FALSE]]

ServerStops ==
    /\ up /\ outages < MaxOutages
    /\ up' = FALSE
    /\ connection' = IF connection = "open" THEN "dead" ELSE connection
    /\ call' = NoLongerCalm
    /\ outages' = outages + 1
    /\ UNCHANGED mutex

ServerStarts ==
    /\ ~up
    /\ up' = TRUE
    /\ UNCHANGED <<connection, mutex, call, outages>>

\* An idle timeout of the server, or the network in between.
ConnectionDrops ==
    /\ connection = "open" /\ outages < MaxOutages
    /\ connection' = "dead"
    /\ call' = NoLongerCalm
    /\ outages' = outages + 1
    /\ UNCHANGED <<up, mutex>>

-----------------------------------------------------------------------------
(* Query and Ping.                                                         *)

Begin(t) ==
    /\ call[t].pc = "idle"
    /\ Goto(t, [Idle EXCEPT !.pc = "lock"])
    /\ UNCHANGED <<up, connection, mutex, outages>>

Query(t) == Begin(t)

\* SELECT 1, along the same path.
Ping(t) == Begin(t)

Lock(t) ==
    /\ call[t].pc = "lock"
    /\ mutex = NoThread
    /\ mutex' = t
    /\ Goto(t, [call[t] EXCEPT !.pc = "params", !.calm = up])
    /\ UNCHANGED <<up, connection, outages>>

\* Mutant: an early return leaves the lock taken.
ReturnLocked(t, c) ==
    /\ Goto(t, c)
    /\ mutex' = IF c.pc = "refused" THEN t ELSE NoThread

Return(t, c) ==
    /\ Goto(t, c)
    /\ mutex' = NoThread

Succeed(t) == Return(t, [call[t] EXCEPT !.pc = "succeeded"])

\* The number of parameters is checked before anything is done.
CheckParams(t) ==
    /\ call[t].pc = "params"
    /\ \/ /\ Goto(t, [call[t] EXCEPT !.pc = "connect"])
          /\ UNCHANGED mutex
       \/ Return(t, [call[t] EXCEPT !.pc = "refused"])
    /\ UNCHANGED <<up, connection, outages>>

\* Mutant: the rows of an attempt that failed stay in out_rows.
FailedAttemptKeepsRows(c) == c

\* QueryOnce clears out_rows when it fails.
FailedAttempt(c) == [c EXCEPT !.rows = <<>>]

\* Mutant: every failure is repeated.
RetriesAlways(c, error) == c.attempt = 1

\* Mutant: nothing is repeated.
RetriesNever(c, error) == FALSE

\* IsConnectionLostError, and only once.
Retries(c, error) == error = "lost" /\ c.attempt = 1

\* QueryLocked after a failed QueryOnce: if the connection was lost, drop it
\* and try again; if the second attempt loses it too, leave it as it is.
Fail(t, error, c) ==
    LET failed == [FailedAttempt(c) EXCEPT !.lost = @ \/ error = "lost"]
    IN  IF Retries(c, error)
        THEN /\ connection' = "none"
             /\ Goto(t, [failed EXCEPT !.pc = "connect", !.attempt = 2])
             /\ UNCHANGED mutex
        ELSE /\ connection' = IF error = "lost" THEN "dead" ELSE connection
             /\ Return(t, [failed EXCEPT !.pc =
                             IF error = "rejected" THEN "refused" ELSE "failed"])

\* A failure to connect is not repeated.
EnsureConnected(t) ==
    /\ call[t].pc = "connect"
    /\ IF connection # "none" \/ up
       THEN /\ connection' = IF connection = "none" THEN "open" ELSE connection
            /\ Goto(t, [call[t] EXCEPT !.pc = "prepare"])
            /\ UNCHANGED mutex
       ELSE Fail(t, "unreachable", call[t])
    /\ UNCHANGED <<up, outages>>

\* Syntax, a missing table, parameters that cannot be bound: "rejected".
Prepare(t) ==
    /\ call[t].pc = "prepare"
    /\ \/ /\ connection = "open"
          /\ Goto(t, [call[t] EXCEPT !.pc = "execute"])
          /\ UNCHANGED <<connection, mutex>>
       \/ connection = "open" /\ Fail(t, "rejected", call[t])
       \/ connection # "open" /\ Fail(t, "lost", call[t])
    /\ UNCHANGED <<up, outages>>

\* The server does what the statement says, and answers or goes away.
Executed(t) == [call[t] EXCEPT !.pc = "fetch", !.executed = @ + 1]

Execute(t) ==
    /\ call[t].pc = "execute"
    /\ \/ /\ connection = "open"
          /\ Goto(t, Executed(t))
          /\ UNCHANGED <<connection, mutex, outages>>
       \/ /\ connection = "open" /\ outages < MaxOutages
          /\ outages' = outages + 1
          /\ Fail(t, "lost", [Executed(t) EXCEPT !.calm = FALSE])
       \/ /\ connection = "open"
          /\ Fail(t, "rejected", call[t])
          /\ UNCHANGED outages
       \/ /\ connection # "open"
          /\ Fail(t, "lost", call[t])
          /\ UNCHANGED outages
    /\ UNCHANGED up

\* The rows the current attempt has fetched.
Fetched(c) == Cardinality({i \in DOMAIN c.rows : c.rows[i] = c.attempt})

\* One row after the other; a value too long for its buffer is an error.
Fetch(t) ==
    /\ call[t].pc = "fetch"
    /\ \/ /\ connection = "open" /\ Fetched(call[t]) < RowCount
          /\ Goto(t, [call[t] EXCEPT !.rows = Append(@, call[t].attempt)])
          /\ UNCHANGED <<connection, mutex>>
       \/ /\ connection = "open" /\ Fetched(call[t]) = RowCount
          /\ Succeed(t)
          /\ UNCHANGED connection
       \/ connection = "open" /\ Fail(t, "rejected", call[t])
       \/ connection # "open" /\ Fail(t, "lost", call[t])
    /\ UNCHANGED <<up, outages>>

\* The caller has the answer.
Done(t) ==
    /\ call[t].pc \in {"succeeded", "failed", "refused"}
    /\ Goto(t, Idle)
    /\ UNCHANGED <<up, connection, mutex, outages>>

Step(t) ==
    \/ Lock(t) \/ CheckParams(t) \/ EnsureConnected(t)
    \/ Prepare(t) \/ Execute(t) \/ Fetch(t) \/ Done(t)

Next ==
    \/ \E t \in Thread : Query(t) \/ Ping(t) \/ Step(t)
    \/ ServerStops \/ ServerStarts \/ ConnectionDrops

\* Threads run, the services keep querying (Room saves snapshots all the time),
\* the server is brought back, and std::mutex lets a waiting thread in in the end.
Fairness ==
    /\ \A t \in Thread : WF_vars(Query(t)) /\ WF_vars(Step(t)) /\ SF_vars(Lock(t))
    /\ WF_vars(ServerStarts)

Spec == Init /\ [][Next]_vars /\ Fairness

-----------------------------------------------------------------------------
\* Type invariant.
TypeOK ==
    /\ up \in BOOLEAN /\ connection \in {"none", "open", "dead"}
    /\ mutex \in Thread \cup {NoThread}
    /\ outages \in 0..MaxOutages
    /\ \A t \in Thread :
         /\ call[t].pc \in {"idle", "lock", "params", "connect", "prepare",
                           "execute", "fetch", "succeeded", "failed", "refused"}
         /\ call[t].attempt \in 1..2 /\ call[t].executed \in 0..2
         /\ call[t].rows \in Seq(1..2) /\ Len(call[t].rows) <= RowCount
         /\ call[t].lost \in BOOLEAN /\ call[t].calm \in BOOLEAN

\* Out of a statement comes one result: all rows of a single execution if it
\* succeeded, also when the connection was lost half way through the rows of
\* the first attempt, and none if it failed (QueryOnce clears out_rows).
RowsAreOneResult ==
    \A t \in Thread :
        /\ call[t].pc = "succeeded" =>
             /\ Len(call[t].rows) = RowCount
             /\ \A i \in DOMAIN call[t].rows : call[t].rows[i] = call[t].attempt
        /\ call[t].pc \in {"failed", "refused"} => call[t].rows = <<>>

\* After an outage the service works again at once: a call that got the lock
\* when the server was back, and met no further outage, does not fail for want
\* of a connection, however many dead connections earlier calls left behind
\* (mysql_connection.hpp: no restart is needed).
OldOutageIsHealed ==
    \A t \in Thread : call[t].calm => call[t].pc # "failed"

\* Every call returns, although all wait for one lock and the server may be
\* away (Ping must not lock twice; no failure may keep the lock).
CallsReturn ==
    \A t \in Thread : call[t].pc = "lock" ~> call[t].pc = "idle"

\* What the caller knows.
Outcome(c) ==
    CASE c.pc = "idle" -> "idle"
      [] c.pc = "succeeded" -> "succeeded"
      [] c.pc \in {"failed", "refused"} -> "failed"
      [] OTHER -> "asked"

\* The contract its users rely on.
Contract == INSTANCE Statement WITH
    state <- [t \in Thread |-> Outcome(call[t])],
    executions <- [t \in Thread |-> call[t].executed],
    lost <- [t \in Thread |-> call[t].lost]

\* Refinement: Query answers success only for a statement that the server has
\* executed since; it is executed twice at most, and a second time only after
\* the connection was lost, never after the server has rejected it.
KeepsContract == Contract!Spec
=============================================================================
