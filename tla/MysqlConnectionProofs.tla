------------------------ MODULE MysqlConnectionProofs ------------------------
(***************************************************************************)
(* The safety properties of MysqlConnection, and that it implements        *)
(* Statement, for any number of threads, rows and outages.                 *)
(***************************************************************************)
EXTENDS MysqlConnection, FiniteSetTheorems, TLAPS

\* Inside the lock.
Active == {"params", "connect", "prepare", "execute", "fetch"}

Pc == {"idle", "lock", "succeeded", "failed", "refused"} \cup Active
Attempt == 1..2
Rows == Seq(1..2)
Count == 0..2

CallType ==
    [pc : Pc, attempt : Attempt, rows : Rows, executed : Count,
     lost : BOOLEAN, calm : BOOLEAN]

\* rows holds n rows or fewer, all of the current attempt.
OneAttempt(c, n) ==
    /\ Len(c.rows) <= n
    /\ \A i \in DOMAIN c.rows : c.rows[i] = c.attempt

\* How far a call has got: an attempt that did not execute the statement yet
\* has no rows, and there is one execution less than there are attempts.
CallInv(c) ==
    /\ c \in CallType
    /\ c.attempt = 2 => c.lost
    /\ c.pc \in {"idle", "lock", "params"} => c.attempt = 1 /\ ~c.lost
    /\ c.pc \in {"idle", "lock", "params", "connect", "prepare", "execute"} =>
          c.rows = <<>> /\ c.executed < c.attempt
    /\ c.pc = "fetch" => OneAttempt(c, RowCount)
    /\ c.pc \in {"fetch", "succeeded"} => c.executed \in 1..c.attempt
    /\ c.pc = "succeeded" => OneAttempt(c, RowCount) /\ Len(c.rows) = RowCount
    /\ c.pc \in {"failed", "refused"} => c.rows = <<>>

\* The connection of the second attempt of a calm call is a new one, and alive.
CalmInv(c, isUp, conn) ==
    c.calm =>
        /\ c.pc # "failed"
        /\ c.pc \in Active => isUp
        /\ c.attempt = 2 /\ c.pc = "connect" => conn = "none"
        /\ c.attempt = 2 /\ c.pc \in {"prepare", "execute", "fetch"} =>
              conn = "open"

Inv ==
    /\ up \in BOOLEAN /\ connection \in {"none", "open", "dead"}
    /\ outages \in 0..MaxOutages
    /\ mutex \in Thread \cup {NoThread}
    /\ call \in [Thread -> CallType]
    /\ \A t \in Thread : CallInv(call[t])
    /\ \A t \in Thread : call[t].pc \in Active <=> mutex = t
    /\ \A t \in Thread : CalmInv(call[t], up, connection)

\* What the fields of a call may be.
LEMMA Ranges ==
    /\ Active \subseteq Pc
    /\ {"idle", "lock", "succeeded", "failed", "refused"} \subseteq Pc
    /\ 1 \in Attempt /\ 2 \in Attempt /\ <<>> \in Rows
    /\ 0 \in Count /\ 1 \in Count /\ 2 \in Count
BY DEF Pc, Attempt, Rows, Count

\* In the first state no call is under way.
LEMMA InitInv == Init => Inv
<1> SUFFICES ASSUME Init
             PROVE  Inv
  OBVIOUS
<1>1. Idle \in CallType
  BY Ranges DEF Idle, CallType
<1>2. CallInv(Idle) /\ CalmInv(Idle, up, connection)
  BY <1>1 DEF Idle, CallInv, CalmInv, OneAttempt
<1>3. Idle.pc = "idle"
  BY DEF Idle
<1>4. call \in [Thread -> CallType] /\ \A t \in Thread : call[t] = Idle
  BY <1>1 DEF Init
<1>5. \A t \in Thread : CallInv(call[t]) /\ CalmInv(call[t], up, connection)
  BY <1>2, <1>4
<1>6. \A t \in Thread : call[t].pc \in Active <=> mutex = t
  BY <1>3, <1>4, MysqlAssumption DEF Init, Active
<1>7. outages \in 0..MaxOutages
  BY MysqlAssumption DEF Init
<1> QED
  BY <1>4, <1>5, <1>6, <1>7 DEF Init, Inv

\* A step of the thread that holds the lock, to which nothing but its own call,
\* the connection and the lock matter.
LEMMA OwnStep ==
    ASSUME Inv, NEW t \in Thread, mutex = t,
           NEW c \in CallType, Goto(t, c), CallInv(c),
           CalmInv(c, up', connection'),
           connection' \in {"none", "open", "dead"},
           mutex' = IF c.pc \in Active THEN t ELSE NoThread,
           up' = up, outages' \in 0..MaxOutages
    PROVE  Inv'
<1>1. call' \in [Thread -> CallType] /\ call'[t] = c
      /\ \A s \in Thread \ {t} : call'[s] = call[s]
  BY DEF Inv, Goto
<1>2. \A s \in Thread \ {t} : call[s].pc \notin Active
  BY DEF Inv
<1>3. \A s \in Thread : CallInv(call'[s])
  BY <1>1 DEF Inv
<1>4. \A s \in Thread : CalmInv(call'[s], up', connection')
  <2> SUFFICES ASSUME NEW s \in Thread \ {t}
               PROVE  CalmInv(call'[s], up', connection')
    BY <1>1 DEF CalmInv
  <2>1. /\ call'[s] = call[s] /\ CalmInv(call[s], up, connection)
        /\ call[s].pc \notin Active
    BY <1>1, <1>2 DEF Inv
  <2> QED BY <2>1 DEF CalmInv, Active
<1>5. \A s \in Thread : call'[s].pc \in Active <=> mutex' = s
  BY <1>1, <1>2, MysqlAssumption
<1>6. \A s \in Thread : CallInv(call'[s])
  BY <1>3 DEF CallInv, OneAttempt
<1> QED BY <1>1, <1>4, <1>5, <1>6, MysqlAssumption DEF Inv

\* Whatever goes wrong, the call tries again or returns as CallInv and CalmInv
\* want it; a calm call only meets a dead connection in its first attempt.
LEMMA FailInv ==
    ASSUME Inv, NEW t \in Thread, mutex = t, call[t].pc # "params",
           NEW error \in {"lost", "unreachable", "rejected"},
           NEW c \in CallType, Fail(t, error, c),
           c.executed <= c.attempt, c.attempt = 2 => c.lost,
           c.calm /\ error = "lost" => c.attempt = 1 /\ up,
           c.calm => error # "unreachable",
           up' = up, outages' \in 0..MaxOutages
    PROVE  Inv'
<1> DEFINE failed == [FailedAttempt(c) EXCEPT !.lost = @ \/ error = "lost"]
<1>1. /\ failed \in CallType /\ failed.rows = <<>>
      /\ failed.executed = c.executed /\ failed.calm = c.calm
      /\ failed.attempt = c.attempt
      /\ c.lost \/ error = "lost" => failed.lost
  BY Ranges DEF FailedAttempt, CallType
<1>2. Retries(c, error) =>
        /\ connection' = "none" /\ mutex' = mutex
        /\ Goto(t, [failed EXCEPT !.pc = "connect", !.attempt = 2])
  BY DEF Fail
<1>3. ~Retries(c, error) =>
        /\ connection' = IF error = "lost" THEN "dead" ELSE connection
        /\ mutex' = NoThread
        /\ Goto(t, [failed EXCEPT !.pc =
                       IF error = "rejected" THEN "refused" ELSE "failed"])
  BY DEF Fail, Return
<1> HIDE DEF failed
<1>4. CASE Retries(c, error)
  <2> DEFINE d == [failed EXCEPT !.pc = "connect", !.attempt = 2]
  <2>1. /\ d \in CallType /\ d.pc = "connect" /\ d.attempt = 2 /\ d.rows = <<>>
        /\ d.executed = c.executed /\ d.calm = c.calm /\ d.lost = failed.lost
    BY <1>1, Ranges DEF CallType, Active
  <2> HIDE DEF d
  <2>2. CallInv(d)
    BY <1>1, <1>4, <2>1 DEF CallInv, Retries, CallType, Count, Attempt
  <2>3. CalmInv(d, up', connection')
    BY <1>2, <1>4, <2>1 DEF CalmInv, Retries
  <2> QED BY <1>2, <1>4, <2>1, <2>2, <2>3, OwnStep DEF Active, d
<1>5. CASE ~Retries(c, error)
  <2> DEFINE d == [failed EXCEPT !.pc =
                      IF error = "rejected" THEN "refused" ELSE "failed"]
  <2>1. /\ d \in CallType /\ d.pc \in {"failed", "refused"} /\ d.rows = <<>>
        /\ d.calm => d.pc # "failed"
        /\ d.attempt = c.attempt /\ (d.attempt = 2 => d.lost)
    BY <1>1, <1>5, Ranges DEF CallType, Retries
  <2>2. CallInv(d)
    BY <2>1 DEF CallInv
  <2>3. CalmInv(d, up', connection')
    BY <2>1 DEF CalmInv, Active
  <2>4. connection' \in {"none", "open", "dead"}
    BY <1>3, <1>5 DEF Inv
  <2>5. Goto(t, d) /\ mutex' = NoThread
    BY <1>3, <1>5
  <2> HIDE DEF d
  <2> QED BY <2>1, <2>2, <2>3, <2>4, <2>5, OwnStep DEF Active
<1> QED BY <1>4, <1>5

\* An outage leaves every call as it is, but calm no more.
LEMMA OutageInv ==
    ASSUME Inv, call' = NoLongerCalm, mutex' = mutex,
           up' \in BOOLEAN, connection' \in {"none", "open", "dead"},
           outages' \in 0..MaxOutages
    PROVE  Inv'
<1>1. ASSUME NEW t \in Thread
      PROVE  /\ call'[t] \in CallType /\ CallInv(call'[t])
             /\ call'[t].pc = call[t].pc /\ ~call'[t].calm
  <2>1. call[t] \in CallType /\ CallInv(call[t])
    BY DEF Inv
  <2>2. /\ call'[t] \in CallType /\ ~call'[t].calm
        /\ call'[t].pc = call[t].pc /\ call'[t].attempt = call[t].attempt
        /\ call'[t].rows = call[t].rows /\ call'[t].lost = call[t].lost
        /\ call'[t].executed = call[t].executed
    BY <2>1 DEF NoLongerCalm, CallType
  <2> QED BY <2>1, <2>2 DEF CallInv, OneAttempt
<1>2. call' \in [Thread -> CallType]
  BY <1>1 DEF NoLongerCalm
<1>3. \A t \in Thread :
           CallInv(call'[t]) /\ CalmInv(call'[t], up', connection')
  BY <1>1 DEF CallInv, CalmInv, OneAttempt
<1> QED BY <1>1, <1>2, <1>3 DEF Inv

\* A step that leaves the lock and the connection alone, of a thread outside.
LEMMA OutsideStep ==
    ASSUME Inv, NEW t \in Thread, call[t].pc \notin Active,
           NEW c \in CallType, Goto(t, c), CallInv(c),
           CalmInv(c, up, connection),
           c.pc \notin Active,
           UNCHANGED <<up, connection, mutex, outages>>
    PROVE  Inv'
<1>1. call' \in [Thread -> CallType] /\ call'[t] = c
      /\ \A s \in Thread \ {t} : call'[s] = call[s]
  BY DEF Inv, Goto
<1>2. \A s \in Thread : CallInv(call'[s]) /\ CalmInv(call'[s], up, connection)
  BY <1>1 DEF Inv
<1>3. \A s \in Thread : CallInv(call'[s]) /\ CalmInv(call'[s], up', connection')
  BY <1>2 DEF CallInv, CalmInv, OneAttempt
<1>4. \A s \in Thread : call'[s].pc \in Active <=> mutex' = s
  BY <1>1 DEF Inv
<1> QED BY <1>1, <1>3, <1>4 DEF Inv

\* The rows fetched so far are counted right when all are of one attempt.
LEMMA FetchedRows ==
    ASSUME NEW c \in CallType, OneAttempt(c, RowCount)
    PROVE  Fetched(c) = Len(c.rows)
<1>1. c.rows \in Seq(1..2)
  BY DEF CallType, Rows
<1>2. {i \in DOMAIN c.rows : c.rows[i] = c.attempt} = 1..Len(c.rows)
  BY <1>1 DEF OneAttempt
<1>3. Cardinality(1..Len(c.rows)) = Len(c.rows)
  BY <1>1, FS_Interval
<1> QED BY <1>2, <1>3 DEF Fetched

\* What the holder of the lock may assume of its own call.
LEMMA HolderFacts ==
    ASSUME Inv, NEW t \in Thread, call[t].pc \in Active
    PROVE  /\ mutex = t /\ call[t] \in CallType
           /\ CallInv(call[t]) /\ CalmInv(call[t], up, connection)
           /\ outages \in 0..MaxOutages
           /\ connection \in {"none", "open", "dead"}
BY DEF Inv

\* Every action keeps the invariant.
LEMMA StepInv == Inv /\ [Next]_vars => Inv'
<1> SUFFICES ASSUME Inv, [Next]_vars
             PROVE  Inv'
  OBVIOUS
<1>1. ASSUME NEW t \in Thread, Query(t) \/ Ping(t)
      PROVE  Inv'
  <2> DEFINE c == [Idle EXCEPT !.pc = "lock"]
  <2>1. /\ c \in CallType /\ c.pc = "lock" /\ c.attempt = 1 /\ c.rows = <<>>
        /\ c.executed = 0 /\ ~c.lost /\ ~c.calm
    BY Ranges DEF Idle, CallType
  <2>2. /\ Goto(t, c) /\ call[t].pc = "idle"
        /\ UNCHANGED <<up, connection, mutex, outages>>
    BY <1>1 DEF Query, Ping, Begin
  <2> HIDE DEF c
  <2>3. CallInv(c) /\ CalmInv(c, up, connection)
    BY <2>1 DEF CallInv, CalmInv
  <2> QED BY <2>1, <2>2, <2>3, OutsideStep DEF Active
<1>2. ASSUME NEW t \in Thread, Lock(t)
      PROVE  Inv'
  <2> DEFINE c == [call[t] EXCEPT !.pc = "params", !.calm = up]
  <2>1. call[t] \in CallType /\ CallInv(call[t]) /\ call[t].pc = "lock"
        /\ up \in BOOLEAN
    BY <1>2 DEF Lock, Inv
  <2>2. /\ c \in CallType /\ c.pc = "params" /\ c.attempt = call[t].attempt
        /\ c.rows = call[t].rows /\ c.executed = call[t].executed
        /\ c.lost = call[t].lost /\ c.calm = up
    BY <2>1, Ranges DEF CallType, Active
  <2> HIDE DEF c
  <2>3. CallInv(c)
    BY <2>1, <2>2 DEF CallInv
  <2>4. /\ call' = [call EXCEPT ![t] = c] /\ mutex = NoThread /\ mutex' = t
        /\ UNCHANGED <<up, connection, outages>>
    BY <1>2 DEF Lock, Goto, c
  <2>5. CalmInv(c, up', connection')
    BY <2>1, <2>2, <2>3, <2>4 DEF CalmInv, CallInv
  <2>6. call' \in [Thread -> CallType] /\ call'[t] = c
        /\ \A s \in Thread \ {t} : call'[s] = call[s]
    BY <2>2, <2>4 DEF Inv
  <2>7. \A s \in Thread : CallInv(call'[s])
    BY <2>3, <2>6 DEF Inv, CallInv, OneAttempt
  <2>8. \A s \in Thread : CalmInv(call'[s], up', connection')
    <3> SUFFICES ASSUME NEW s \in Thread \ {t}
                 PROVE  CalmInv(call'[s], up', connection')
      BY <2>5, <2>6 DEF CalmInv
    <3> QED BY <2>4, <2>6 DEF Inv, CalmInv
  <2>9. \A s \in Thread : call'[s].pc \in Active <=> mutex' = s
    BY <2>2, <2>4, <2>6, MysqlAssumption DEF Inv, Active
  <2> QED BY <2>4, <2>6, <2>7, <2>8, <2>9 DEF Inv
<1>3. ASSUME NEW t \in Thread, CheckParams(t)
      PROVE  Inv'
  <2>1. call[t].pc = "params"
    BY <1>3 DEF CheckParams
  <2>2. PICK pc \in {"connect", "refused"} :
          /\ Goto(t, [call[t] EXCEPT !.pc = pc])
          /\ mutex' = IF pc = "connect" THEN mutex ELSE NoThread
    BY <1>3 DEF CheckParams, Return
  <2> DEFINE c == [call[t] EXCEPT !.pc = pc]
  <2>3. /\ call[t] \in CallType /\ CallInv(call[t])
        /\ CalmInv(call[t], up, connection) /\ mutex = t
        /\ outages \in 0..MaxOutages
    BY <2>1, HolderFacts DEF Active
  <2>4. /\ c \in CallType /\ c.pc = pc /\ c.attempt = call[t].attempt
        /\ c.rows = call[t].rows /\ c.executed = call[t].executed
        /\ c.lost = call[t].lost /\ c.calm = call[t].calm
    BY <2>3, Ranges DEF CallType, Active
  <2> HIDE DEF c
  <2>5. CallInv(c)
    BY <2>1, <2>3, <2>4 DEF CallInv
  <2>6. UNCHANGED <<up, connection, outages>>
    BY <1>3 DEF CheckParams
  <2>7. CalmInv(c, up', connection')
    BY <2>1, <2>3, <2>4, <2>6 DEF CalmInv, CallInv, Active
  <2> QED BY <2>2, <2>3, <2>4, <2>5, <2>6, <2>7, OwnStep DEF Active, Inv, c
<1>4. ASSUME NEW t \in Thread, EnsureConnected(t)
      PROVE  Inv'
  <2>1. call[t].pc = "connect" /\ UNCHANGED <<up, outages>>
    BY <1>4 DEF EnsureConnected
  <2>2. /\ call[t] \in CallType /\ CallInv(call[t])
        /\ CalmInv(call[t], up, connection)
        /\ mutex = t /\ outages \in 0..MaxOutages
        /\ connection \in {"none", "open", "dead"}
    BY <2>1, HolderFacts DEF Active
  <2>3. CASE connection # "none" \/ up
    <3> DEFINE c == [call[t] EXCEPT !.pc = "prepare"]
    <3>1. /\ c \in CallType /\ c.pc = "prepare" /\ c.attempt = call[t].attempt
          /\ c.rows = call[t].rows /\ c.executed = call[t].executed
          /\ c.lost = call[t].lost /\ c.calm = call[t].calm
      BY <2>2, Ranges DEF CallType, Active
    <3>2. /\ connection' = IF connection = "none" THEN "open" ELSE connection
          /\ Goto(t, c) /\ UNCHANGED mutex
      BY <1>4, <2>3 DEF EnsureConnected
    <3> HIDE DEF c
    <3>3. CallInv(c)
      BY <2>1, <2>2, <3>1 DEF CallInv
    <3>4. CalmInv(c, up', connection')
      BY <2>1, <2>2, <3>1, <3>2 DEF CalmInv, Active
    <3> QED BY <2>1, <2>2, <3>1, <3>2, <3>3, <3>4, OwnStep DEF Active
  <2>4. CASE ~(connection # "none" \/ up)
    <3>1. Fail(t, "unreachable", call[t])
      BY <1>4, <2>4 DEF EnsureConnected
    <3>2. ~call[t].calm
      BY <2>1, <2>2, <2>4 DEF CalmInv, Active
    <3> QED
      BY <2>1, <2>2, <3>1, <3>2, FailInv DEF CallInv, CallType, Count, Attempt
  <2> QED BY <2>3, <2>4
<1>5. ASSUME NEW t \in Thread, Prepare(t)
      PROVE  Inv'
  <2>1. call[t].pc = "prepare" /\ UNCHANGED <<up, outages>>
    BY <1>5 DEF Prepare
  <2>2. /\ call[t] \in CallType /\ CallInv(call[t])
        /\ CalmInv(call[t], up, connection)
        /\ mutex = t /\ outages \in 0..MaxOutages
        /\ connection \in {"none", "open", "dead"}
    BY <2>1, HolderFacts DEF Active
  <2>3. CASE \/ Fail(t, "rejected", call[t])
             \/ connection # "open" /\ Fail(t, "lost", call[t])
    <3>1. connection # "open" /\ call[t].calm => call[t].attempt = 1 /\ up
      BY <2>1, <2>2 DEF CalmInv, Active, CallType, Attempt
    <3>2. call[t].executed <= call[t].attempt
      BY <2>1, <2>2 DEF CallInv, CallType, Count, Attempt
    <3> QED BY <2>1, <2>2, <2>3, <3>1, <3>2, FailInv DEF CallInv
  <2>4. CASE /\ connection = "open" /\ UNCHANGED <<connection, mutex>>
             /\ Goto(t, [call[t] EXCEPT !.pc = "execute"])
    <3> DEFINE c == [call[t] EXCEPT !.pc = "execute"]
    <3>1. /\ c \in CallType /\ c.pc = "execute" /\ c.attempt = call[t].attempt
          /\ c.rows = call[t].rows /\ c.executed = call[t].executed
          /\ c.lost = call[t].lost /\ c.calm = call[t].calm
      BY <2>2, Ranges DEF CallType, Active
    <3>2. Goto(t, c)
      BY <2>4
    <3> HIDE DEF c
    <3>3. CallInv(c)
      BY <2>1, <2>2, <3>1 DEF CallInv
    <3>4. CalmInv(c, up', connection')
      BY <2>1, <2>2, <2>4, <3>1 DEF CalmInv, Active
    <3> QED BY <2>1, <2>2, <2>4, <3>1, <3>2, <3>3, <3>4, OwnStep DEF Active
  <2> QED BY <1>5, <2>3, <2>4 DEF Prepare
<1>6. ASSUME NEW t \in Thread, Execute(t)
      PROVE  Inv'
  <2>1. call[t].pc = "execute" /\ UNCHANGED up
    BY <1>6 DEF Execute
  <2>2. /\ call[t] \in CallType /\ CallInv(call[t])
        /\ CalmInv(call[t], up, connection)
        /\ mutex = t /\ outages \in 0..MaxOutages
        /\ connection \in {"none", "open", "dead"}
    BY <2>1, HolderFacts DEF Active
  <2>3. call[t].executed < call[t].attempt /\ call[t].rows = <<>>
        /\ call[t].attempt \in 1..2 /\ call[t].executed \in 0..2
        /\ (call[t].attempt = 2 => call[t].lost)
    BY <2>1, <2>2 DEF CallInv, CallType, Count, Attempt
  <2> DEFINE c == Executed(t)
  <2>4. /\ c \in CallType /\ c.pc = "fetch" /\ c.attempt = call[t].attempt
        /\ c.rows = call[t].rows /\ c.executed = call[t].executed + 1
        /\ c.lost = call[t].lost /\ c.calm = call[t].calm
    <3>1. call[t].executed + 1 \in Count
      BY <2>3 DEF Count
    <3> QED BY <2>2, <3>1, Ranges DEF CallType, Active, Executed
  <2>5. CASE /\ connection = "open" /\ Goto(t, c)
             /\ UNCHANGED <<connection, mutex, outages>>
    <3> HIDE DEF c
    <3>1. CallInv(c)
      BY <2>3, <2>4, MysqlAssumption DEF CallInv, OneAttempt
    <3>2. CalmInv(c, up', connection')
      BY <2>1, <2>2, <2>4, <2>5 DEF CalmInv, Active
    <3> QED BY <2>1, <2>2, <2>4, <2>5, <3>1, <3>2, OwnStep DEF Active
  <2>6. CASE /\ outages < MaxOutages /\ outages' = outages + 1
             /\ Fail(t, "lost", [c EXCEPT !.calm = FALSE])
    <3> DEFINE d == [c EXCEPT !.calm = FALSE]
    <3> HIDE DEF c
    <3>1. /\ d \in CallType /\ d.attempt = c.attempt /\ ~d.calm
          /\ d.executed = c.executed /\ d.lost = c.lost
      BY <2>4 DEF CallType
    <3>2. Fail(t, "lost", d)
      BY <2>6
    <3> HIDE DEF d
    <3>3. outages' \in 0..MaxOutages
      BY <2>2, <2>6, MysqlAssumption
    <3>4. d.executed <= d.attempt
      BY <2>3, <2>4, <3>1
    <3> QED BY <2>1, <2>2, <2>3, <2>4, <3>1, <3>2, <3>3, <3>4, FailInv
  <2>7. CASE /\ UNCHANGED outages
             /\ \/ Fail(t, "rejected", call[t])
                \/ connection # "open" /\ Fail(t, "lost", call[t])
    <3>1. connection # "open" /\ call[t].calm => call[t].attempt = 1 /\ up
      BY <2>1, <2>2, <2>3 DEF CalmInv, Active
    <3>2. call[t].executed <= call[t].attempt
      BY <2>3
    <3> QED BY <2>1, <2>2, <2>3, <2>7, <3>1, <3>2, FailInv
  <2> QED BY <1>6, <2>5, <2>6, <2>7 DEF Execute
<1>7. ASSUME NEW t \in Thread, Fetch(t)
      PROVE  Inv'
  <2>1. call[t].pc = "fetch" /\ UNCHANGED <<up, outages>>
    BY <1>7 DEF Fetch
  <2>2. /\ call[t] \in CallType /\ CallInv(call[t])
        /\ CalmInv(call[t], up, connection)
        /\ mutex = t /\ outages \in 0..MaxOutages
        /\ connection \in {"none", "open", "dead"}
    BY <2>1, HolderFacts DEF Active
  <2>3. OneAttempt(call[t], RowCount) /\ call[t].executed \in 1..call[t].attempt
        /\ call[t].attempt \in 1..2 /\ call[t].rows \in Seq(1..2)
        /\ (call[t].attempt = 2 => call[t].lost)
    BY <2>1, <2>2 DEF CallInv, CallType, Attempt, Rows
  <2>4. Fetched(call[t]) = Len(call[t].rows)
    BY <2>2, <2>3, FetchedRows
  <2>5. CASE \/ Fail(t, "rejected", call[t])
             \/ connection # "open" /\ Fail(t, "lost", call[t])
    <3>1. connection # "open" /\ call[t].calm => call[t].attempt = 1 /\ up
      BY <2>1, <2>2, <2>3 DEF CalmInv, Active
    <3>2. call[t].executed <= call[t].attempt
      BY <2>3
    <3> QED BY <2>1, <2>2, <2>3, <2>5, <3>1, <3>2, FailInv
  <2>6. CASE /\ connection = "open" /\ Fetched(call[t]) < RowCount
             /\ Goto(t, [call[t] EXCEPT !.rows = Append(@, call[t].attempt)])
             /\ UNCHANGED <<connection, mutex>>
    <3> DEFINE rows == Append(call[t].rows, call[t].attempt)
               c == [call[t] EXCEPT !.rows = rows]
    <3>1. rows \in Seq(1..2) /\ Len(rows) <= RowCount
          /\ \A i \in DOMAIN rows : rows[i] = call[t].attempt
      BY <2>3, <2>4, <2>6, MysqlAssumption DEF OneAttempt
    <3> HIDE DEF rows
    <3>2. /\ c \in CallType /\ c.pc = "fetch" /\ c.attempt = call[t].attempt
          /\ c.rows = rows /\ c.executed = call[t].executed
          /\ c.lost = call[t].lost /\ c.calm = call[t].calm
      BY <2>1, <2>2, <3>1 DEF CallType, Rows
    <3>3. Goto(t, c)
      BY <2>6 DEF rows
    <3> HIDE DEF c
    <3>4. CallInv(c)
      BY <2>1, <2>2, <3>1, <3>2 DEF CallInv, OneAttempt
    <3>5. CalmInv(c, up', connection')
      BY <2>1, <2>2, <2>6, <3>2 DEF CalmInv, Active
    <3> QED BY <2>1, <2>2, <2>6, <3>2, <3>3, <3>4, <3>5, OwnStep DEF Active
  <2>7. CASE Fetched(call[t]) = RowCount /\ Succeed(t) /\ UNCHANGED connection
    <3> DEFINE c == [call[t] EXCEPT !.pc = "succeeded"]
    <3>1. /\ c \in CallType /\ c.pc = "succeeded" /\ c.attempt = call[t].attempt
          /\ c.rows = call[t].rows /\ c.executed = call[t].executed
          /\ c.lost = call[t].lost /\ c.calm = call[t].calm
      BY <2>2, Ranges DEF CallType
    <3>2. Goto(t, c) /\ mutex' = NoThread
      BY <2>7 DEF Succeed, Return
    <3> HIDE DEF c
    <3>3. CallInv(c)
      BY <2>1, <2>2, <2>4, <2>7, <3>1 DEF CallInv, OneAttempt
    <3>4. CalmInv(c, up', connection')
      BY <3>1 DEF CalmInv, Active
    <3> QED BY <2>1, <2>2, <2>7, <3>1, <3>2, <3>3, <3>4, OwnStep DEF Active
  <2> QED BY <1>7, <2>5, <2>6, <2>7 DEF Fetch
<1>8. ASSUME NEW t \in Thread, Done(t)
      PROVE  Inv'
  <2>1. /\ Idle \in CallType /\ CallInv(Idle)
        /\ CalmInv(Idle, up, connection) /\ Idle.pc \notin Active
    BY Ranges DEF Idle, CallType, CallInv, CalmInv, Active
  <2> QED BY <1>8, <2>1, OutsideStep DEF Done, Active
<1>9. CASE ServerStops \/ ConnectionDrops
  <2>1. outages' \in 0..MaxOutages
    BY <1>9, MysqlAssumption DEF Inv, ServerStops, ConnectionDrops
  <2> QED BY <1>9, <2>1, OutageInv DEF Inv, ServerStops, ConnectionDrops
<1>10. CASE ServerStarts
  <2>1. UNCHANGED <<connection, mutex, call, outages>> /\ up' = TRUE
    BY <1>10 DEF ServerStarts
  <2>2. \A t \in Thread :
           CallInv(call'[t]) /\ CalmInv(call'[t], up', connection')
    BY <2>1 DEF Inv, CallInv, CalmInv, OneAttempt
  <2> QED BY <2>1, <2>2 DEF Inv
<1>11. CASE UNCHANGED vars
  <2>1. \A t \in Thread :
           CallInv(call'[t]) /\ CalmInv(call'[t], up', connection')
    BY <1>11 DEF vars, Inv, CallInv, CalmInv, OneAttempt
  <2> QED BY <1>11, <2>1 DEF vars, Inv
<1> QED
  BY <1>1, <1>2, <1>3, <1>4, <1>5, <1>6, <1>7, <1>8, <1>9, <1>10, <1>11
  DEF Next, Step

-----------------------------------------------------------------------------
\* The invariant holds in every reachable state, fairness aside.
THEOREM ConnectionInvariant == Spec => []Inv
BY InitInv, StepInv, PTL DEF Spec

\* Types, and no call has more than two attempts, two executions or the rows of
\* one result.
THEOREM TypeCorrect == Spec => []TypeOK
<1>1. Inv => TypeOK
  <2> SUFFICES ASSUME Inv, NEW t \in Thread
               PROVE  /\ call[t] \in CallType /\ CallInv(call[t])
                      /\ Len(call[t].rows) <= RowCount
    BY DEF Inv, TypeOK, CallType, Pc, Attempt, Rows, Count, Active
  <2>1. call[t] \in CallType /\ CallInv(call[t])
    BY DEF Inv
  <2>2. call[t].rows = <<>> \/ Len(call[t].rows) <= RowCount
    BY <2>1 DEF CallInv, OneAttempt, CallType, Pc, Active
  <2> QED BY <2>1, <2>2, MysqlAssumption
<1> QED BY <1>1, ConnectionInvariant, PTL

\* A statement yields all rows of one execution, or none.
THEOREM OneResult == Spec => []RowsAreOneResult
<1>1. Inv => RowsAreOneResult
  BY DEF Inv, RowsAreOneResult, CallInv, OneAttempt
<1> QED BY <1>1, ConnectionInvariant, PTL

\* Outages that are over do no harm, whatever connections they left behind.
THEOREM Healing == Spec => []OldOutageIsHealed
<1>1. Inv => OldOutageIsHealed
  BY DEF Inv, OldOutageIsHealed, CalmInv
<1> QED BY <1>1, ConnectionInvariant, PTL

-----------------------------------------------------------------------------
(* The refinement of Statement.                                            *)

StateMap == [t \in Thread |-> Outcome(call[t])]
CountMap == [t \in Thread |-> call[t].executed]
LostMap == [t \in Thread |-> call[t].lost]

\* A step of one call changes only its own outcome, count and loss.
LEMMA MappedStep ==
    ASSUME Inv, NEW t \in Thread, NEW c \in CallType, Goto(t, c)
    PROVE  /\ StateMap' = [StateMap EXCEPT ![t] = Outcome(c)]
           /\ CountMap' = [CountMap EXCEPT ![t] = c.executed]
           /\ LostMap' = [LostMap EXCEPT ![t] = c.lost]
           /\ StateMap[t] = Outcome(call[t])
           /\ CountMap[t] = call[t].executed /\ LostMap[t] = call[t].lost
           /\ Outcome(c) = Outcome(call[t]) => StateMap' = StateMap
           /\ c.executed = call[t].executed => CountMap' = CountMap
           /\ c.lost = call[t].lost => LostMap' = LostMap
<1>1. call \in [Thread -> CallType] /\ call' = [call EXCEPT ![t] = c]
  BY DEF Inv, Goto
<1> QED BY <1>1 DEF StateMap, CountMap, LostMap

\* A call that goes on as before is invisible.
LEMMA Stutter ==
    ASSUME Inv, NEW t \in Thread, NEW c \in CallType, Goto(t, c),
           Outcome(c) = Outcome(call[t]), c.executed = call[t].executed,
           c.lost = call[t].lost
    PROVE  UNCHANGED Contract!vars
<1>1. call \in [Thread -> CallType] /\ call' = [call EXCEPT ![t] = c]
  BY DEF Inv, Goto
<1>2. StateMap' = StateMap /\ CountMap' = CountMap /\ LostMap' = LostMap
  BY <1>1 DEF StateMap, CountMap, LostMap
<1> QED BY <1>2 DEF Contract!vars, StateMap, CountMap, LostMap

\* Every failure is one that the contract allows, and so is every repetition.
LEMMA FailMaps ==
    ASSUME Inv, NEW t \in Thread, NEW c \in CallType, NEW error,
           Fail(t, error, c), Outcome(call[t]) = "asked",
           c.lost = call[t].lost, Outcome(c) = "asked",
           \/ c.executed = call[t].executed
           \/ /\ c.executed = call[t].executed + 1
              /\ call[t].executed = 0 \/ (call[t].executed = 1 /\ call[t].lost)
    PROVE  Contract!Next
<1> DEFINE failed == [FailedAttempt(c) EXCEPT !.lost = @ \/ error = "lost"]
<1>1. /\ failed \in CallType /\ failed.executed = c.executed
      /\ failed.lost = (c.lost \/ error = "lost")
      /\ failed.lost = TRUE \/ failed.lost = c.lost
  BY Ranges DEF FailedAttempt, CallType
<1>2. Retries(c, error) =>
        Goto(t, [failed EXCEPT !.pc = "connect", !.attempt = 2])
  BY DEF Fail
<1>3. ~Retries(c, error) =>
        Goto(t, [failed EXCEPT !.pc =
                       IF error = "rejected" THEN "refused" ELSE "failed"])
  BY DEF Fail, Return
<1>4. Retries(c, error) => failed.lost
  BY <1>1 DEF Retries
<1> HIDE DEF failed
<1>5. CASE Retries(c, error)
  <2> DEFINE d == [failed EXCEPT !.pc = "connect", !.attempt = 2]
  <2>1. /\ d \in CallType /\ d.pc = "connect"
        /\ d.executed = c.executed /\ d.lost = failed.lost
    BY <1>1, Ranges DEF CallType, Active
  <2>2. Goto(t, d)
    BY <1>2, <1>5
  <2> HIDE DEF d
  <2>3. Outcome(d) = "asked"
    BY <2>1 DEF Outcome
  <2>4. d.lost = TRUE
    BY <1>1, <1>4, <1>5, <2>1 DEF CallType
  <2>5. CASE c.executed = call[t].executed
    <3>1. Contract!LoseConnection(t)
      <4>1. /\ StateMap' = StateMap /\ CountMap' = CountMap
            /\ LostMap' = [LostMap EXCEPT ![t] = TRUE] /\ StateMap[t] = "asked"
        BY <2>1, <2>2, <2>3, <2>4, <2>5, MappedStep
      <4> QED BY <4>1 DEF Contract!LoseConnection, StateMap, CountMap, LostMap
    <3> QED BY <3>1 DEF Contract!Next
  <2>6. CASE /\ c.executed = call[t].executed + 1
             /\ call[t].executed = 0 \/ (call[t].executed = 1 /\ call[t].lost)
    <3>1. Contract!Execute(t)
      <4>1. /\ StateMap' = StateMap /\ StateMap[t] = "asked"
            /\ CountMap' = [CountMap EXCEPT ![t] = CountMap[t] + 1]
            /\ LostMap' = [LostMap EXCEPT ![t] = TRUE]
            /\ CountMap[t] = 0 \/ (CountMap[t] = 1 /\ LostMap[t])
        BY <2>1, <2>2, <2>3, <2>4, <2>6, MappedStep
      <4> QED
        BY <4>1 DEF Contract!Execute, Contract!Executable,
                    StateMap, CountMap, LostMap
    <3> QED BY <3>1 DEF Contract!Next
  <2> QED BY <2>5, <2>6
<1>6. CASE ~Retries(c, error)
  <2> DEFINE d == [failed EXCEPT !.pc =
                      IF error = "rejected" THEN "refused" ELSE "failed"]
  <2>1. /\ d \in CallType /\ d.pc \in {"failed", "refused"}
        /\ d.executed = c.executed /\ d.lost = failed.lost
    BY <1>1, Ranges DEF CallType
  <2>2. Goto(t, d)
    BY <1>3, <1>6
  <2> HIDE DEF d
  <2>3. Outcome(d) = "failed"
    BY <2>1 DEF Outcome
  <2>4. Contract!Fail(t)
    <3>1. /\ StateMap' = [StateMap EXCEPT ![t] = "failed"]
          /\ StateMap[t] = "asked"
          /\ CountMap' = [CountMap EXCEPT ![t] = c.executed]
          /\ LostMap' = [LostMap EXCEPT ![t] = failed.lost]
          /\ CountMap[t] = call[t].executed /\ LostMap[t] = call[t].lost
      BY <2>1, <2>2, <2>3, MappedStep
    <3>2. LostMap' \in {LostMap, [LostMap EXCEPT ![t] = TRUE]}
      BY <1>1, <3>1 DEF LostMap
    <3>3. \/ CountMap' = CountMap
          \/ /\ CountMap[t] = 0 \/ (CountMap[t] = 1 /\ LostMap[t])
             /\ CountMap' = [CountMap EXCEPT ![t] = CountMap[t] + 1]
      BY <3>1 DEF CountMap
    <3> QED
      BY <3>1, <3>2, <3>3 DEF Contract!Fail, Contract!Executable,
                              StateMap, CountMap, LostMap
  <2> QED BY <2>4 DEF Contract!Next
<1> QED BY <1>5, <1>6

\* An outage is invisible until it is noticed.
LEMMA OutageStutter ==
    ASSUME Inv, call' = NoLongerCalm
    PROVE  UNCHANGED Contract!vars
<1>1. \A t \in Thread : /\ call'[t].pc = call[t].pc
                        /\ call'[t].executed = call[t].executed
                        /\ call'[t].lost = call[t].lost
  BY DEF NoLongerCalm, Inv, CallType
<1>2. \A t \in Thread : Outcome(call'[t]) = Outcome(call[t])
  BY <1>1 DEF Outcome
<1> QED BY <1>1, <1>2 DEF Contract!vars

\* Every step is a step of the contract, or is not seen by it.
LEMMA StepContract ==
    ASSUME Inv, [Next]_vars
    PROVE  [Contract!Next]_(Contract!vars)
<1>1. ASSUME NEW t \in Thread, Query(t) \/ Ping(t)
      PROVE  Contract!Next
  <2> DEFINE c == [Idle EXCEPT !.pc = "lock"]
  <2>1. c \in CallType /\ c.pc = "lock" /\ c.executed = 0 /\ c.lost = FALSE
    BY Ranges DEF Idle, CallType
  <2>2. Goto(t, c) /\ call[t].pc = "idle"
    BY <1>1 DEF Query, Ping, Begin
  <2> HIDE DEF c
  <2>3. call[t].executed = 0 /\ call[t].lost = FALSE
    <3>1. call[t] \in CallType /\ CallInv(call[t])
      BY DEF Inv
    <3> QED BY <2>2, <3>1 DEF CallInv, CallType, Count
  <2>4. Outcome(c) = "asked" /\ Outcome(call[t]) = "idle"
    BY <2>1, <2>2 DEF Outcome
  <2>5. /\ StateMap' = [StateMap EXCEPT ![t] = "asked"]
        /\ StateMap[t] = "idle" /\ CountMap' = CountMap /\ LostMap' = LostMap
    <3>1. c.executed = call[t].executed /\ c.lost = call[t].lost
      BY <2>1, <2>3
    <3> QED BY <2>1, <2>2, <2>4, <3>1, MappedStep
  <2>6. Contract!Ask(t)
    BY <2>5 DEF Contract!Ask, StateMap, CountMap, LostMap
  <2> QED BY <2>6 DEF Contract!Next
<1>2. ASSUME NEW t \in Thread, Lock(t)
      PROVE  UNCHANGED Contract!vars
  <2> DEFINE c == [call[t] EXCEPT !.pc = "params", !.calm = up]
  <2>1. Goto(t, c) /\ call[t].pc = "lock" /\ call[t] \in CallType
    BY <1>2 DEF Lock, Inv
  <2>2. c \in CallType /\ c.pc = "params" /\ c.executed = call[t].executed
        /\ c.lost = call[t].lost
    BY <2>1, Ranges DEF CallType, Active, Inv
  <2> HIDE DEF c
  <2>3. Outcome(c) = Outcome(call[t])
    BY <2>1, <2>2 DEF Outcome
  <2> QED BY <2>1, <2>2, <2>3, Stutter
<1>3. ASSUME NEW t \in Thread, NEW pc \in {"connect", "prepare", "execute"},
             call[t].pc \in Active, Goto(t, [call[t] EXCEPT !.pc = pc])
      PROVE  UNCHANGED Contract!vars
  <2> DEFINE c == [call[t] EXCEPT !.pc = pc]
  <2>1. Goto(t, c) /\ call[t] \in CallType
    BY <1>3 DEF Inv
  <2>2. c \in CallType /\ c.pc = pc /\ c.executed = call[t].executed
        /\ c.lost = call[t].lost
    BY <2>1, Ranges DEF CallType, Active
  <2> HIDE DEF c
  <2>3. Outcome(c) = Outcome(call[t])
    BY <1>3, <2>2 DEF Outcome, Active
  <2> QED BY <2>1, <2>2, <2>3, Stutter
<1>4. ASSUME NEW t \in Thread, NEW error, call[t].pc \in Active,
             Fail(t, error, call[t])
      PROVE  Contract!Next
  <2>1. call[t] \in CallType /\ Outcome(call[t]) = "asked"
    BY <1>4 DEF Inv, Outcome, Active
  <2> QED BY <1>4, <2>1, FailMaps
<1>5. ASSUME NEW t \in Thread, CheckParams(t)
      PROVE  [Contract!Next]_(Contract!vars)
  <2>1. call[t].pc = "params" /\ call[t] \in CallType
    BY <1>5 DEF CheckParams, Inv
  <2>2. CASE Goto(t, [call[t] EXCEPT !.pc = "connect"])
    BY <1>3, <2>1, <2>2 DEF Active
  <2>3. CASE Goto(t, [call[t] EXCEPT !.pc = "refused"])
    <3> DEFINE c == [call[t] EXCEPT !.pc = "refused"]
    <3>1. c \in CallType /\ c.pc = "refused" /\ c.executed = call[t].executed
          /\ c.lost = call[t].lost
      BY <2>1, Ranges DEF CallType
    <3>2. Goto(t, c)
      BY <2>3
    <3> HIDE DEF c
    <3>3. Outcome(c) = "failed" /\ Outcome(call[t]) = "asked"
      BY <2>1, <3>1 DEF Outcome
    <3>4. /\ StateMap' = [StateMap EXCEPT ![t] = "failed"]
          /\ StateMap[t] = "asked" /\ CountMap' = CountMap /\ LostMap' = LostMap
      BY <3>1, <3>2, <3>3, MappedStep
    <3>5. Contract!Fail(t)
      BY <3>4 DEF Contract!Fail, StateMap, CountMap, LostMap
    <3> QED BY <3>5 DEF Contract!Next
  <2> QED BY <1>5, <2>2, <2>3 DEF CheckParams, Return
<1>6. ASSUME NEW t \in Thread, EnsureConnected(t)
      PROVE  [Contract!Next]_(Contract!vars)
  <2>1. call[t].pc \in Active
    BY <1>6 DEF EnsureConnected, Active
  <2>2. CASE Goto(t, [call[t] EXCEPT !.pc = "prepare"])
    BY <1>3, <2>1, <2>2
  <2>3. CASE Fail(t, "unreachable", call[t])
    <3>1. Contract!Next
      BY <1>4, <2>1, <2>3
    <3> QED BY <3>1
  <2> QED BY <1>6, <2>2, <2>3 DEF EnsureConnected
<1>7. ASSUME NEW t \in Thread, Prepare(t)
      PROVE  [Contract!Next]_(Contract!vars)
  <2>1. call[t].pc \in Active
    BY <1>7 DEF Prepare, Active
  <2>2. CASE Goto(t, [call[t] EXCEPT !.pc = "execute"])
    BY <1>3, <2>1, <2>2
  <2>3. CASE Fail(t, "rejected", call[t]) \/ Fail(t, "lost", call[t])
    <3>1. Contract!Next
      BY <1>4, <2>1, <2>3
    <3> QED BY <3>1
  <2> QED BY <1>7, <2>2, <2>3 DEF Prepare
<1>8. ASSUME NEW t \in Thread, Execute(t)
      PROVE  Contract!Next
  <2>1. /\ call[t].pc = "execute" /\ call[t] \in CallType
        /\ call[t].attempt \in 1..2 /\ call[t].executed < call[t].attempt
        /\ call[t].executed \in 0..2 /\ (call[t].attempt = 2 => call[t].lost)
    BY <1>8 DEF Execute, Inv, CallInv, CallType, Attempt, Count
  <2>2. call[t].executed = 0 \/ (call[t].executed = 1 /\ call[t].lost)
    BY <2>1
  <2> DEFINE c == Executed(t)
  <2>3. /\ c \in CallType /\ c.pc = "fetch"
        /\ c.executed = call[t].executed + 1 /\ c.lost = call[t].lost
    <3>1. call[t].executed + 1 \in Count
      BY <2>1 DEF Count
    <3> QED BY <2>1, <3>1, Ranges DEF CallType, Active, Executed
  <2>4. Outcome(call[t]) = "asked" /\ Outcome(c) = "asked"
    BY <2>1, <2>3 DEF Outcome
  <2>5. CASE Goto(t, c)
    <3> HIDE DEF c
    <3>1. /\ StateMap' = StateMap /\ StateMap[t] = "asked"
          /\ CountMap' = [CountMap EXCEPT ![t] = CountMap[t] + 1]
          /\ LostMap' = LostMap
          /\ CountMap[t] = 0 \/ (CountMap[t] = 1 /\ LostMap[t])
      BY <2>2, <2>3, <2>4, <2>5, MappedStep
    <3>2. Contract!Execute(t)
      BY <3>1 DEF Contract!Execute, Contract!Executable,
                  StateMap, CountMap, LostMap
    <3> QED BY <3>2 DEF Contract!Next
  <2>6. CASE Fail(t, "lost", [c EXCEPT !.calm = FALSE])
    <3> DEFINE d == [c EXCEPT !.calm = FALSE]
    <3> HIDE DEF c
    <3>1. d \in CallType /\ d.pc = c.pc /\ d.executed = c.executed
          /\ d.lost = c.lost
      BY <2>3 DEF CallType
    <3>2. Fail(t, "lost", d)
      BY <2>6
    <3> HIDE DEF d
    <3>3. Outcome(d) = "asked"
      BY <2>3, <3>1 DEF Outcome
    <3> QED BY <2>2, <2>3, <2>4, <3>1, <3>2, <3>3, FailMaps
  <2>7. CASE Fail(t, "rejected", call[t]) \/ Fail(t, "lost", call[t])
    BY <1>4, <2>1, <2>7 DEF Active
  <2> QED BY <1>8, <2>5, <2>6, <2>7 DEF Execute
<1>9. ASSUME NEW t \in Thread, Fetch(t)
      PROVE  [Contract!Next]_(Contract!vars)
  <2>1. /\ call[t].pc = "fetch" /\ call[t] \in CallType /\ call[t].executed > 0
        /\ call[t].attempt \in 1..2 /\ call[t].rows \in Seq(1..2)
    BY <1>9 DEF Fetch, Inv, CallInv, CallType, Attempt, Rows
  <2>2. Outcome(call[t]) = "asked"
    BY <2>1 DEF Outcome
  <2>3. CASE Goto(t, [call[t] EXCEPT !.rows = Append(@, call[t].attempt)])
    <3> DEFINE rows == Append(call[t].rows, call[t].attempt)
               c == [call[t] EXCEPT !.rows = rows]
    <3>1. rows \in Rows
      BY <2>1 DEF Rows
    <3>2. Goto(t, c)
      BY <2>3
    <3> HIDE DEF rows
    <3>3. c \in CallType /\ c.pc = call[t].pc /\ c.executed = call[t].executed
          /\ c.lost = call[t].lost
      BY <2>1, <3>1 DEF CallType
    <3> HIDE DEF c
    <3>4. Outcome(c) = Outcome(call[t])
      BY <3>3 DEF Outcome
    <3> QED BY <3>2, <3>3, <3>4, Stutter
  <2>4. CASE Succeed(t)
    <3> DEFINE c == [call[t] EXCEPT !.pc = "succeeded"]
    <3>1. c \in CallType /\ c.pc = "succeeded" /\ c.executed = call[t].executed
          /\ c.lost = call[t].lost
      BY <2>1, Ranges DEF CallType
    <3>2. Goto(t, c)
      BY <2>4 DEF Succeed, Return
    <3> HIDE DEF c
    <3>3. Outcome(c) = "succeeded"
      BY <3>1 DEF Outcome
    <3>4. /\ StateMap' = [StateMap EXCEPT ![t] = "succeeded"]
          /\ StateMap[t] = "asked" /\ CountMap[t] > 0
          /\ CountMap' = CountMap /\ LostMap' = LostMap
      BY <2>1, <2>2, <3>1, <3>2, <3>3, MappedStep
    <3>5. Contract!Succeed(t)
      BY <3>4 DEF Contract!Succeed, StateMap, CountMap, LostMap
    <3> QED BY <3>5 DEF Contract!Next
  <2>5. CASE Fail(t, "rejected", call[t]) \/ Fail(t, "lost", call[t])
    <3>1. call[t].pc \in Active
      BY <2>1 DEF Active
    <3>2. Contract!Next
      BY <1>4, <2>5, <3>1
    <3> QED BY <3>2
  <2> QED BY <1>9, <2>3, <2>4, <2>5 DEF Fetch
<1>10. ASSUME NEW t \in Thread, Done(t)
       PROVE  Contract!Next
  <2>1. Idle \in CallType /\ Outcome(Idle) = "idle" /\ Idle.executed = 0
        /\ Idle.lost = FALSE
    BY Ranges DEF Idle, CallType, Outcome
  <2>2. Goto(t, Idle) /\ Outcome(call[t]) \in {"succeeded", "failed"}
    BY <1>10 DEF Done, Outcome
  <2>3. /\ StateMap' = [StateMap EXCEPT ![t] = "idle"]
        /\ StateMap[t] \in {"succeeded", "failed"}
        /\ CountMap' = [CountMap EXCEPT ![t] = 0]
        /\ LostMap' = [LostMap EXCEPT ![t] = FALSE]
    BY <2>1, <2>2, MappedStep
  <2>4. Contract!Take(t)
    BY <2>3 DEF Contract!Take, StateMap, CountMap, LostMap
  <2> QED BY <2>4 DEF Contract!Next
<1>11. CASE ServerStops \/ ConnectionDrops
  BY <1>11, OutageStutter DEF ServerStops, ConnectionDrops
<1>12. CASE ServerStarts \/ UNCHANGED vars
  BY <1>12 DEF ServerStarts, vars, Contract!vars
<1> QED
  BY <1>1, <1>2, <1>5, <1>6, <1>7, <1>8, <1>9, <1>10, <1>11, <1>12
  DEF Next, Step

\* MysqlConnection implements Statement, for any number of threads and outages.
THEOREM Refinement == Spec => KeepsContract
<1>1. Init => Contract!Init
  BY DEF Init, Idle, Outcome, Contract!Init
<1>2. Inv /\ [Next]_vars => [Contract!Next]_(Contract!vars)
  BY StepContract
<1> QED
  BY <1>1, <1>2, ConnectionInvariant, PTL DEF Spec, KeepsContract, Contract!Spec
=============================================================================
