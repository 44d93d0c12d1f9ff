---------------------------- MODULE SessionStore ----------------------------
(***************************************************************************)
(* RedisSessionStore: login sessions and the login idempotency mapping in  *)
(* Redis, used by all request threads of Gateway over one connection       *)
(* (src/gateway/redis_session_store.cpp).                                  *)
(*                                                                         *)
(* A store call is a sequence of Redis commands.  Send writes a command to *)
(* the connection and Redis executes it; Receive reads the oldest unread   *)
(* reply of the connection, whosever it is.  A command without a reply     *)
(* (refused connection, timeout) costs the connection; Redis may have      *)
(* executed it, may never see it, or may execute it later, when the next   *)
(* connection is already in use (late).                                    *)
(*                                                                         *)
(* Tokens are numbered in the order of their generation; collisions of     *)
(* random tokens are left out.  The key of a session holds player_id only: *)
(* client_type and created_at are never used again.                        *)
(***************************************************************************)
EXTENDS Naturals, Sequences, FiniteSets

CONSTANTS
    Thread,                  \* request threads
    Player,                  \* accounts
    MaxIds,                  \* bound: request ids per player
    MaxRequests,             \* bound: requests, hence tokens
    MaxFaults,               \* bound: commands without a reply, and crashes
    EmptyId,                 \* the empty request_id
    OkText,                  \* the text of a status reply, read as a token
    NoToken, NoPlayer, NoId, NoThread,
    session_ttl_seconds,
    kIdempotencyTtlSeconds

ASSUME StoreAssumption ==
    /\ MaxIds \in Nat /\ MaxRequests \in Nat /\ MaxFaults \in Nat
    /\ session_ttl_seconds \in Nat \ {0}
    /\ kIdempotencyTtlSeconds \in Nat \ {0}
    /\ NoToken \notin 1..MaxRequests /\ OkText \notin 1..MaxRequests
    /\ NoToken # OkText
    /\ NoPlayer \notin Player /\ NoThread \notin Thread
    /\ EmptyId \notin Player \X (1..MaxIds)
    /\ NoId \notin (Player \X (1..MaxIds)) \cup {EmptyId}

Token == 1..MaxRequests

\* Clients draw their ids at random: those of two players differ.
RequestId == (Player \X (1..MaxIds)) \cup {EmptyId}

VARIABLES
    session,     \* Redis: [Token -> session], NoSession if there is no key
    idem,        \* Redis: [RequestId -> token], NoToken if there is no key
    late,        \* commands of dropped connections Redis has yet to execute
    wire,        \* replies on the connection that nobody has read
    mutex,       \* mutex_: its holder, or NoThread
    op,          \* [Thread -> store call]
    owner,       \* the players of the generated tokens, by token
    left,        \* tokens whose login gave up before it could clean up
    faults

redis == <<session, idem, late>>
storeVars == <<session, idem, late, wire, mutex, op, owner, left, faults>>

NoSession == [player |-> NoPlayer, expires |-> FALSE]

\* pc is the command to be executed next, or how the call ended.
NoCall == [pc |-> "none", sent |-> FALSE, rid |-> NoId, player |-> NoPlayer,
           token |-> NoToken, out |-> NoToken]

Creates == {"get", "hset", "expire", "setnx", "getWinner", "cleanup"}
Writes == {"hset", "expire", "setnx", "cleanup", "del"}
Commands == Creates \cup {"hmget", "exists", "del"}
Results == {"kOk", "kNotFound", "kUnavailable"}

StoreInit ==
    /\ session = [k \in Token |-> NoSession]
    /\ idem = [r \in RequestId |-> NoToken]
    /\ late = {} /\ wire = <<>> /\ mutex = NoThread
    /\ op = [t \in Thread |-> NoCall]
    /\ owner = <<>> /\ left = {} /\ faults = 0

-----------------------------------------------------------------------------
(* Redis: what a command does and what it answers.                         *)

\* Mutant: SET without NX.
SetAlways(c) == [idem EXCEPT ![c.rid] = c.token]

\* SET key token EX ttl NX leaves an existing key alone.
SetNx(c) ==
    IF idem[c.rid] = NoToken THEN [idem EXCEPT ![c.rid] = c.token] ELSE idem

\* EXPIRE of a missing key does nothing.
Execute(c) ==
    /\ session' = CASE c.pc = "hset" ->
                         [session EXCEPT ![c.token] =
                             [player |-> c.player, expires |-> FALSE]]
                    [] c.pc = "expire" ->
                         [session EXCEPT ![c.token].expires =
                             session[c.token] # NoSession]
                    [] c.pc \in {"cleanup", "del"} ->
                         [session EXCEPT ![c.token] = NoSession]
                    [] OTHER -> session
    /\ idem' = IF c.pc = "setnx" THEN SetNx(c) ELSE idem

Reply(c) ==
    LET bare(type) == [type |-> type, token |-> NoToken, player |-> NoPlayer]
    IN  CASE c.pc \in {"get", "getWinner"} ->
               IF idem[c.rid] = NoToken THEN bare("nil")
               ELSE [bare("string") EXCEPT !.token = idem[c.rid]]
          [] c.pc = "setnx" ->
               IF idem[c.rid] = NoToken THEN bare("status") ELSE bare("nil")
          [] c.pc = "hmget" ->
               [bare("array") EXCEPT !.player = session[c.token].player]
          [] c.pc = "exists" ->
               [bare("integer") EXCEPT !.token =
                   IF session[c.token] = NoSession THEN NoToken ELSE c.token]
          [] OTHER -> bare("integer")

\* A key with a TTL expires.  The mapping is written after the session with
\* the smaller of the two TTLs: it outlives its session unless the session's
\* is the longer one.
IdempotencyTtl ==
    IF session_ttl_seconds < kIdempotencyTtlSeconds
    THEN session_ttl_seconds ELSE kIdempotencyTtlSeconds

SessionExpires(k) ==
    /\ session[k].expires
    /\ session' = [session EXCEPT ![k] = NoSession]
    /\ UNCHANGED <<idem, late, wire, mutex, op, owner, left, faults>>

MappingExpires(r) ==
    /\ idem[r] # NoToken
    /\ session[idem[r]] = NoSession \/ IdempotencyTtl < session_ttl_seconds
    /\ idem' = [idem EXCEPT ![r] = NoToken]
    /\ UNCHANGED <<session, late, wire, mutex, op, owner, left, faults>>

\* Redis gets to a command of a connection that is long gone.
LateCommand(c) ==
    /\ c \in late
    /\ Execute(c)
    /\ late' = late \ {c}
    /\ UNCHANGED <<wire, mutex, op, owner, left, faults>>

-----------------------------------------------------------------------------
(* The calls.  A call returns when its pc is a result.                     *)

Call(t, o) == op' = [op EXCEPT ![t] = o]

CreateSession(t, r, p) ==
    Call(t, [NoCall EXCEPT !.pc = "get", !.rid = r, !.player = p])

GetSession(t, k) == Call(t, [NoCall EXCEPT !.pc = "hmget", !.token = k])

DeleteSession(t, k) == Call(t, [NoCall EXCEPT !.pc = "exists", !.token = k])

Return(o, result, k, p) ==
    [NoCall EXCEPT !.pc = result, !.rid = o.rid, !.token = k, !.player = p]

\* Texts and status lines are both taken for strings.
ReplyAsString(r) ==
    CASE r.type = "string" -> r.token
      [] r.type = "status" -> OkText
      [] OTHER -> NoToken

\* Mutant: whoever lost the race keeps his session in Redis.
YieldToKeepsBoth(o, winner) == Return(o, "kOk", winner, o.player)

\* Another login of this request_id was first: out is its token.
YieldTo(o, winner) == [o EXCEPT !.pc = "cleanup", !.out = winner]

\* GET, HSET, EXPIRE, SET NX and, if another login was first, GET and DEL.
AfterCreate(o, r) ==
    LET text == ReplyAsString(r)
    IN  CASE o.pc = "get" ->
               IF text # NoToken THEN Return(o, "kOk", text, o.player)
               ELSE [o EXCEPT !.pc = "hset", !.token = Len(owner) + 1]
          [] o.pc = "hset" -> [o EXCEPT !.pc = "expire"]
          [] o.pc = "expire" -> [o EXCEPT !.pc = "setnx"]
          [] o.pc = "setnx" ->
               IF r.type = "status" THEN Return(o, "kOk", o.token, o.player)
               ELSE [o EXCEPT !.pc = "getWinner"]
          [] o.pc = "getWinner" ->
               IF text # NoToken THEN YieldTo(o, text)
               ELSE Return(o, "kUnavailable", o.token, o.player)
          [] o.pc = "cleanup" -> Return(o, "kOk", o.out, o.player)

\* HMGET; EXISTS and DEL, where out notes that the key existed.
AfterReply(o, r) ==
    CASE o.pc \in Creates -> AfterCreate(o, r)
      [] o.pc = "hmget" ->
           IF r.type # "array" THEN Return(o, "kUnavailable", o.token, NoPlayer)
           ELSE IF r.player = NoPlayer
           THEN Return(o, "kNotFound", o.token, NoPlayer)
           ELSE Return(o, "kOk", o.token, r.player)
      [] o.pc = "exists" -> [o EXCEPT !.pc = "del", !.out = r.token]
      [] o.pc = "del" ->
           Return(o, IF o.out = NoToken THEN "kNotFound" ELSE "kOk",
                  o.token, NoPlayer)

\* Mutant: EXPIRE is fire and forget.
AfterNoReplyGoesOn(o) ==
    IF o.pc = "expire" THEN [o EXCEPT !.pc = "setnx"]
    ELSE IF o.pc = "cleanup" THEN Return(o, "kOk", o.out, o.player)
    ELSE Return(o, "kUnavailable", o.token, NoPlayer)

\* Mutant: a failed command of GetSession is taken for a missing key.
AfterNoReplyNotFound(o) ==
    IF o.pc = "cleanup" THEN Return(o, "kOk", o.out, o.player)
    ELSE Return(o, IF o.pc = "hmget" THEN "kNotFound" ELSE "kUnavailable",
                o.token, NoPlayer)

\* Mutant: a failed DEL does not fail the logout.
AfterNoReplyDeleted(o) ==
    IF o.pc = "cleanup" THEN Return(o, "kOk", o.out, o.player)
    ELSE Return(o, IF o.pc = "del" THEN "kOk" ELSE "kUnavailable",
                o.token, NoPlayer)

\* No reply fails the call; only the clean-up does not matter.
AfterNoReply(o) ==
    IF o.pc = "cleanup" THEN Return(o, "kOk", o.out, o.player)
    ELSE Return(o, "kUnavailable", o.token, NoPlayer)

\* Mutant: commands are sent without the lock.
MayUseAlways(t) == TRUE

\* A call holds mutex_ from its first command to its return.
MayUse(t) == mutex \in {NoThread, t}

\* Mutant: a failed call returns without unlocking.
HolderKept(t, o) == IF o.pc \in {"kOk", "kNotFound"} THEN NoThread ELSE t

Holder(t, o) == IF o.pc \in Results THEN NoThread ELSE t

Send(t) ==
    /\ op[t].pc \in Commands /\ ~op[t].sent
    /\ MayUse(t)
    /\ mutex' = t
    /\ Execute(op[t])
    /\ wire' = Append(wire, Reply(op[t]))
    /\ Call(t, [op[t] EXCEPT !.sent = TRUE])
    /\ UNCHANGED <<late, owner, left, faults>>

\* A fresh token is generated on the way from GET to HSET.
Receive(t) ==
    /\ op[t].pc \in Commands /\ op[t].sent
    /\ wire # <<>>
    /\ wire' = Tail(wire)
    /\ LET o == [AfterReply(op[t], Head(wire)) EXCEPT !.sent = FALSE]
       IN  /\ Call(t, o)
           /\ mutex' = Holder(t, o)
           /\ owner' = IF op[t].pc = "get" /\ o.pc = "hset"
                       THEN Append(owner, o.player) ELSE owner
           /\ left' = IF op[t].pc = "getWinner" /\ o.pc = "kUnavailable"
                      THEN left \cup {op[t].token} ELSE left
    /\ UNCHANGED <<redis, faults>>

\* ExecuteCommand returns nullptr and frees the context: whatever the old
\* connection still had to say is gone with it.
NoReply(t) ==
    /\ op[t].pc \in Commands /\ ~op[t].sent
    /\ MayUse(t)
    /\ faults < MaxFaults
    /\ faults' = faults + 1
    /\ \/ UNCHANGED redis
       \/ Execute(op[t]) /\ UNCHANGED late
       \/ /\ op[t].pc \in Writes
          /\ late' = late \cup {op[t]}
          /\ UNCHANGED <<session, idem>>
    /\ wire' = <<>>
    /\ Call(t, AfterNoReply(op[t]))
    /\ mutex' = Holder(t, AfterNoReply(op[t]))
    /\ left' = IF op[t].pc \in Creates \ {"get"} THEN left \cup {op[t].token}
               ELSE left
    /\ UNCHANGED owner

StoreStep(t) == Send(t) \/ Receive(t) \/ NoReply(t)

\* The process dies, perhaps with a command in its socket.
StoreCrash ==
    /\ faults < MaxFaults
    /\ faults' = faults + 1
    /\ \/ UNCHANGED late
       \/ \E t \in Thread : /\ op[t].pc \in Writes /\ ~op[t].sent /\ MayUse(t)
                            /\ late' = late \cup {op[t]}
    /\ wire' = <<>> /\ mutex' = NoThread
    /\ op' = [t \in Thread |-> NoCall]
    /\ left' = left \cup {op[t].token : t \in {u \in Thread :
                                   op[u].pc \in Creates \ {"get"}}}
    /\ UNCHANGED <<session, idem, owner>>

Expiry ==
    \/ \E k \in Token : SessionExpires(k)
    \/ \E r \in RequestId : MappingExpires(r)
=============================================================================
