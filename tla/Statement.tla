----------------------------- MODULE Statement ------------------------------
(***************************************************************************)
(* What the users of a MySQL connection may rely on, and all they may rely *)
(* on: a statement that is answered with success has been executed since   *)
(* it was asked for; one that is answered with failure may have been       *)
(* executed or not.  It may have been executed twice, but only if its      *)
(* connection was lost: what it does must be idempotent.                   *)
(***************************************************************************)
EXTENDS Naturals

CONSTANT Thread

VARIABLES
    state,        \* [Thread -> idle, asked, succeeded, failed]
    executions,   \* [Thread -> executions since the statement was asked for]
    lost          \* [Thread -> the connection was lost since]

vars == <<state, executions, lost>>

Init ==
    /\ state = [t \in Thread |-> "idle"]
    /\ executions = [t \in Thread |-> 0]
    /\ lost = [t \in Thread |-> FALSE]

Ask(t) ==
    /\ state[t] = "idle"
    /\ state' = [state EXCEPT ![t] = "asked"]
    /\ UNCHANGED <<executions, lost>>

\* Once, or once more if the connection was lost under the first execution.
Executable(t) == executions[t] = 0 \/ (executions[t] = 1 /\ lost[t])

Execute(t) ==
    /\ state[t] = "asked" /\ Executable(t)
    /\ executions' = [executions EXCEPT ![t] = @ + 1]
    /\ lost' \in {lost, [lost EXCEPT ![t] = TRUE]}
    /\ UNCHANGED state

LoseConnection(t) ==
    /\ state[t] = "asked"
    /\ lost' = [lost EXCEPT ![t] = TRUE]
    /\ UNCHANGED <<state, executions>>

Succeed(t) ==
    /\ state[t] = "asked" /\ executions[t] > 0
    /\ state' = [state EXCEPT ![t] = "succeeded"]
    /\ UNCHANGED <<executions, lost>>

\* The failure may be that of an execution, or of its connection.
Fail(t) ==
    /\ state[t] = "asked"
    /\ state' = [state EXCEPT ![t] = "failed"]
    /\ \/ UNCHANGED executions
       \/ Executable(t) /\ executions' = [executions EXCEPT ![t] = @ + 1]
    /\ lost' \in {lost, [lost EXCEPT ![t] = TRUE]}

Take(t) ==
    /\ state[t] \in {"succeeded", "failed"}
    /\ state' = [state EXCEPT ![t] = "idle"]
    /\ executions' = [executions EXCEPT ![t] = 0]
    /\ lost' = [lost EXCEPT ![t] = FALSE]

Next ==
    \E t \in Thread :
        \/ Ask(t) \/ Execute(t) \/ LoseConnection(t)
        \/ Succeed(t) \/ Fail(t) \/ Take(t)

Spec == Init /\ [][Next]_vars
=============================================================================
