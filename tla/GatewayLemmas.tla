---------------------------- MODULE GatewayLemmas ----------------------------
(***************************************************************************)
(* The inductive invariant of Gateway and what it rests on: the lemmas     *)
(* about the commands Redis executes, about the replies a store call may   *)
(* find on its connection, and about what no step can undo.                *)
(***************************************************************************)
EXTENDS Gateway, FiniteSetTheorems, TLAPS

-----------------------------------------------------------------------------
(* Types.                                                                  *)

AnyToken == Token \cup {NoToken}
AnyPlayer == Player \cup {NoPlayer}
AnyId == RequestId \cup {NoId}
Pc == {"none"} \cup Commands \cup Results

SessionType == [player : AnyPlayer, expires : BOOLEAN]

OpType ==
    [pc : Pc, sent : BOOLEAN, rid : AnyId, player : AnyPlayer,
     token : AnyToken, out : AnyToken]

Stage == {"idle", "store", "call", "answered"}
Kind == {"none", "login", "logout", "me", "match", "room"}
Status == {0, 200, 400, 401, 404, 409, 429, 500, 503}

ReqType ==
    [stage : Stage, kind : Kind, token : AnyToken, player : AnyPlayer,
     status : Status]

ReplyKind == {"nil", "string", "status", "array", "integer"}

ReplyType ==
    [type : ReplyKind, token : AnyToken, player : AnyPlayer]

GrantType == [rid : RequestId, player : Player, token : Token]

TypeInv ==
    /\ session \in [Token -> SessionType]
    /\ idem \in [RequestId -> AnyToken]
    /\ late \in SUBSET OpType
    /\ wire \in Seq(ReplyType)
    /\ mutex \in Thread \cup {NoThread}
    /\ op \in [Thread -> OpType]
    /\ owner \in Seq(Player) /\ Len(owner) <= MaxRequests
    /\ req \in [Thread -> ReqType]
    /\ given \in SUBSET GrantType
    /\ ended \in SUBSET Token
    /\ served \in 0..MaxRequests

-----------------------------------------------------------------------------
(* The fate of a token.                                                    *)

\* The mapping of a request id does not expire before its session.
LongMapping == session_ttl_seconds <= kIdempotencyTtlSeconds

Generated(k) == k \in 1..Len(owner)

\* Tokens whose HSET Redis may still execute.
OfLate == {c.token : c \in {d \in late : d.pc = "hset"}}
OfOthers(t) == {op[u].token : u \in {v \in Thread \ {t} : op[v].pc = "hset"}}
Pending == OfLate \cup {op[u].token : u \in {v \in Thread : op[v].pc = "hset"}}

\* A token that can be given out: its session is written, and has a TTL unless
\* it is gone already.
Ready(k) ==
    /\ Generated(k) /\ k \notin Pending
    /\ session[k] # NoSession => session[k].expires

\* The session of request id r, for as long as it lives.
Holds(r, k) ==
    /\ Ready(k)
    /\ LongMapping /\ session[k] # NoSession => idem[r] = k

\* Request ids belong to one player each, the empty one excepted.
IdOf(r, p) ==
    /\ r \in RequestId
    /\ IF r = EmptyId THEN AllowEmptyId ELSE r[1] = p

Owned(r, k) == r # EmptyId => owner[k] = r[1]

SessionInv ==
    \A k \in Token :
        session[k] # NoSession => Generated(k) /\ session[k].player = owner[k]

IdemInv ==
    \A r \in RequestId :
        idem[r] # NoToken => Ready(idem[r]) /\ Owned(r, idem[r])

\* What Redis may be told, now or later.
CommandOK(c) ==
    /\ c.pc = "hset" => c.token \in Pending /\ c.player = owner[c.token]
    /\ c.pc \in Writes => Generated(c.token)
    /\ c.pc = "setnx" =>
          c.rid \in RequestId /\ Ready(c.token) /\ Owned(c.rid, c.token)

LateInv ==
    \A c \in late :
        /\ c.pc \in Writes /\ CommandOK(c)
        /\ c.pc = "hset" => c.token \in left

GivenInv ==
    \A g \in given :
        /\ Holds(g.rid, g.token) /\ Owned(g.rid, g.token)
        /\ IdOf(g.rid, g.player)

EndedInv == \A k \in ended : Ready(k) /\ session[k] = NoSession

\* Every live session has somebody who knows of it.
StrayInv == LongMapping => NoStraySession

-----------------------------------------------------------------------------
(* The calls.                                                              *)

\* The lock is held between the commands of a call, and a reply on the
\* connection is the one its holder waits for.
LockInv ==
    /\ mutex # NoThread => op[mutex].pc \in Commands
    /\ wire # <<>> => mutex # NoThread /\ op[mutex].sent
    /\ \A t \in Thread :
         /\ op[t].sent => mutex = t /\ op[t].pc \in Commands /\ Len(wire) = 1
         /\ op[t].pc \in Commands \ {"get", "hmget", "exists"} => mutex = t

\* Tokens are drawn from those not generated yet: one for every request.
Drawing == {t \in Thread : op[t].pc = "get"}

CountInv ==
    IsFiniteSet(Drawing) /\ Len(owner) + Cardinality(Drawing) <= served

\* A reply found on the connection, and the command it answers.
ReplyOK(o, r) ==
    /\ o.pc \in {"get", "getWinner"} =>
         /\ r.type \in {"nil", "string"}
         /\ r.type = "string" => Holds(o.rid, r.token) /\ Owned(o.rid, r.token)
    /\ o.pc = "setnx" =>
         /\ r.type \in {"nil", "status"}
         /\ r.type = "status" => Holds(o.rid, o.token)
    /\ o.pc = "hmget" =>
         IF r.player = NoPlayer THEN session[o.token] = NoSession
         ELSE r.player = owner[o.token]

CreateInv(t, o) ==
    /\ o.pc \in Creates => req[t].kind = "login" /\ IdOf(o.rid, o.player)
                           /\ o.player \in Player /\ req[t].player = o.player
    /\ o.pc = "get" => o.token = NoToken
    /\ o.pc \in Creates \ {"get"} => CommandOK(o) /\ Generated(o.token)
                                     /\ owner[o.token] = o.player
    /\ o.pc \in {"hset", "expire"} => o.token \notin OfLate \cup OfOthers(t)
    /\ \/ o.pc \in {"setnx", "getWinner", "cleanup"}
       \/ o.pc = "expire" /\ o.sent
       => Ready(o.token)
    /\ o.pc = "cleanup" => Holds(o.rid, o.out) /\ Owned(o.rid, o.out)
    /\ o.pc = "cleanup" /\ o.sent => session[o.token] = NoSession

\* Lookups and logouts.
UseInv(t, o) ==
    /\ o.pc = "hmget" => req[t].kind \in {"me", "match", "room"}
    /\ o.pc \in {"exists", "del"} => req[t].kind = "logout"
    /\ o.pc \in {"hmget", "exists", "del"} => o.token = req[t].token
    /\ o.pc = "del" /\ o.sent => session[o.token] = NoSession

ResultInv(t, o) ==
    /\ req[t].kind = "login" /\ o.pc = "kOk" =>
         Holds(o.rid, o.token) /\ Owned(o.rid, o.token)
         /\ IdOf(o.rid, req[t].player)
    /\ req[t].kind = "logout" /\ o.pc \in {"kOk", "kNotFound"} =>
         session[req[t].token] = NoSession
    /\ req[t].kind \in {"me", "match", "room"} /\ o.pc = "kNotFound" =>
         session[req[t].token] = NoSession
    /\ req[t].kind \in {"me", "match", "room"} /\ o.pc = "kOk" =>
         o.player = owner[req[t].token]

\* A request and its store call.
ReqFits(q, o) ==
    /\ q.stage = "store" <=> o.pc # "none"
    /\ q.kind = "login" /\ q.stage = "store" => q.player \in Player
    /\ q.kind \in {"logout", "me", "match", "room"} => q.token # NoToken
    /\ q.token # NoToken => Ready(q.token)
    /\ q.status = 401 /\ q.token # NoToken => session[q.token] = NoSession
    /\ q.kind \in {"match", "room"} /\ q.player # NoPlayer =>
         q.player = owner[q.token]

ReqInv(t) == ReqFits(req[t], op[t])

ThreadInv(t) ==
    /\ CreateInv(t, op[t]) /\ UseInv(t, op[t]) /\ ReqInv(t)
    /\ op[t].pc \in Results => ResultInv(t, op[t])
    /\ op[t].sent => ReplyOK(op[t], wire[1])

ThreadsInv == \A t \in Thread : ThreadInv(t)

Inv ==
    /\ TypeInv /\ SessionInv /\ IdemInv /\ LateInv /\ GivenInv /\ EndedInv
    /\ StrayInv /\ LockInv /\ CountInv /\ ThreadsInv

-----------------------------------------------------------------------------
(* What a step may do to Redis and to the tokens.                          *)

Moves ==
    /\ session' \in [Token -> SessionType] /\ idem' \in [RequestId -> AnyToken]
    /\ \/ owner' = owner
       \/ Len(owner) < MaxRequests /\ \E p \in Player : owner' = Append(owner, p)
    /\ Pending' \subseteq Pending \cup {Len(owner) + 1}
    /\ \A k \in Token :
         \/ session'[k] = session[k] \/ session'[k] = NoSession
         \/ /\ session[k] # NoSession
            /\ session'[k].player = session[k].player /\ session'[k].expires
         \/ /\ k \in Pending /\ Generated(k)
            /\ session'[k].player = owner[k]
    /\ \A r \in RequestId :
         \/ idem'[r] = idem[r]
         \/ idem[r] = NoToken /\ Ready(idem'[r]) /\ Owned(r, idem'[r])
         \/ idem'[r] = NoToken /\ (LongMapping => session[idem[r]] = NoSession)

\* The constants that stand for "none" are none of the values, and tokens are
\* positive numbers.
LEMMA Ranges ==
    /\ Token \subseteq Nat \ {0} /\ MaxRequests \in Nat
    /\ NoToken \in AnyToken /\ NoToken \notin Token
    /\ \A k \in Token : k \in AnyToken
    /\ \A k \in AnyToken : k # NoToken => k \in Token
    /\ NoPlayer \in AnyPlayer /\ NoPlayer \notin Player
    /\ \A q \in Player : q \in AnyPlayer
    /\ \A q \in AnyPlayer : q # NoPlayer => q \in Player
    /\ NoId \in AnyId /\ \A r \in RequestId : r \in AnyId
    /\ NoThread \notin Thread
BY StoreAssumption DEF Token, AnyToken, AnyPlayer, AnyId, RequestId

\* What no step can undo: a generated token keeps its player, a token that is
\* ready stays so, a session that is gone stays gone, and the live session of a
\* request id remains the one its mapping names.
LEMMA Lasting ==
    ASSUME TypeInv, SessionInv, IdemInv, Moves
    PROVE  /\ \A k : Generated(k) => Generated(k)' /\ owner'[k] = owner[k]
           /\ \A k : Ready(k) => Ready(k)'
           /\ \A k : Ready(k) /\ session[k] = NoSession => session'[k] = NoSession
           /\ \A r \in RequestId : \A k : Holds(r, k) => Holds(r, k)'
           /\ \A r, k : Generated(k) /\ Owned(r, k) => Owned(r, k)'
           /\ SessionInv' /\ IdemInv'
<1>1. ASSUME NEW k, Generated(k)
      PROVE  /\ Generated(k)' /\ owner'[k] = owner[k] /\ k \in Token
             /\ k # Len(owner) + 1
  <2>1. /\ owner \in Seq(Player) /\ k \in 1..Len(owner)
        /\ Len(owner) <= MaxRequests /\ MaxRequests \in Nat
    BY <1>1, Ranges DEF TypeInv, Generated
  <2>2. owner' = owner \/ \E p \in Player : owner' = Append(owner, p)
    BY DEF Moves
  <2>3. k \in 1..Len(owner') /\ owner'[k] = owner[k]
    BY <2>1, <2>2
  <2> QED BY <2>1, <2>3 DEF Generated, Token
<1>2. ASSUME NEW k, Ready(k)
      PROVE  k \in Token /\ (session'[k] # NoSession => session[k] # NoSession)
             /\ (session'[k] # NoSession => session'[k].expires)
  BY <1>1, <1>2 DEF Moves, Ready
<1>3. ASSUME NEW k, Ready(k)
      PROVE  Ready(k)'
  BY <1>1, <1>2, <1>3 DEF Ready, Moves
<1>4. ASSUME NEW r \in RequestId, NEW k, Holds(r, k)
      PROVE  Holds(r, k)'
  <2>1. Ready(k) /\ Ready(k)' /\ k \in Token
    BY <1>2, <1>3, <1>4 DEF Holds
  <2>2. ASSUME LongMapping, session'[k] # NoSession
        PROVE  idem'[r] = k
    <3>1. idem[r] = k /\ session[k] # NoSession
      BY <1>2, <1>4, <2>1, <2>2 DEF Holds
    <3> QED BY <2>1, <2>2, <3>1, Ranges DEF Moves
  <2> QED BY <2>1, <2>2 DEF Holds
<1>5. ASSUME NEW r, NEW k, Generated(k), Owned(r, k)
      PROVE  Owned(r, k)'
  BY <1>1, <1>5 DEF Owned
<1>6. SessionInv'
  <2> SUFFICES ASSUME NEW k \in Token, session'[k] # NoSession
               PROVE  Generated(k)' /\ session'[k].player = owner'[k]
    BY DEF SessionInv
  <2>1. Generated(k) /\ session'[k].player = owner[k]
    BY DEF Moves, SessionInv
  <2> QED BY <1>1, <2>1
<1>7. IdemInv'
  <2> SUFFICES ASSUME NEW r \in RequestId, NEW k, idem'[r] = k, k # NoToken
               PROVE  Ready(k)' /\ Owned(r, k)'
    BY DEF IdemInv
  <2>1. Ready(k) /\ Owned(r, k)
    BY DEF Moves, IdemInv
  <2> QED BY <1>3, <1>5, <2>1 DEF Ready
<1> QED BY <1>1, <1>2, <1>3, <1>4, <1>5, <1>6, <1>7

\* A thread that takes no part in a step keeps its invariant.
LEMMA OtherThread ==
    ASSUME Inv, Moves, NEW u \in Thread, op'[u] = op[u], req'[u] = req[u],
           op[u].sent => wire' = wire,
           OfLate' \cup OfOthers(u)' \subseteq
              OfLate \cup OfOthers(u) \cup {Len(owner) + 1}
    PROVE  ThreadInv(u)'
<1>1. /\ \A k : Generated(k) => Generated(k)' /\ owner'[k] = owner[k]
      /\ \A k : Ready(k) => Ready(k)'
      /\ \A k : Ready(k) /\ session[k] = NoSession => session'[k] = NoSession
      /\ \A r \in RequestId : \A k : Holds(r, k) => Holds(r, k)'
      /\ \A r, k : Generated(k) /\ Owned(r, k) => Owned(r, k)'
      /\ \A r, p : IdOf(r, p) => IdOf(r, p)' /\ r \in RequestId
  BY Lasting DEF Inv, IdOf
<1>2. ThreadInv(u) /\ TypeInv
  BY DEF Inv, ThreadsInv
<1>3. \A k : Ready(k) => Generated(k) /\ k \in Token
  BY <1>2, Ranges DEF Ready, Generated, TypeInv, Token
<1>4. \A r, k : Holds(r, k) => Ready(k)
  BY DEF Holds
<1> DEFINE o == op[u]
<1>5. o \in OpType
  BY <1>2 DEF TypeInv
<1>6. op[u].pc = "hset" => op[u].token \in Pending'
  BY DEF Pending
<1>7. CommandOK(o) => CommandOK(o)'
  BY <1>1, <1>3, <1>6 DEF CommandOK, Writes
<1>8. CreateInv(u, op[u])'
  <2>1. CreateInv(u, o)
    BY <1>2 DEF ThreadInv
  <2>2. \A k : Generated(k) => k # Len(owner) + 1
    BY <1>2 DEF Generated, TypeInv
  <2>3. o.pc \in {"hset", "expire"} => o.token \notin OfLate' \cup OfOthers(u)'
    BY <2>1, <2>2 DEF CreateInv, Creates
  <2> QED BY <1>1, <1>3, <1>4, <1>7, <2>1, <2>3 DEF CreateInv, Creates
<1>9. UseInv(u, op[u])'
  BY <1>1, <1>2, Ranges DEF ThreadInv, UseInv, ReqInv, ReqFits
<1>10. ReqInv(u)'
  BY <1>1, <1>2, <1>3, Ranges DEF ThreadInv, ReqInv, ReqFits
<1>11. op'[u].pc \in Results => ResultInv(u, op[u])'
  BY <1>1, <1>2, <1>3, <1>4, Ranges DEF ThreadInv, ResultInv, ReqInv, ReqFits
<1>12. op'[u].sent => ReplyOK(op[u], wire[1])'
  BY <1>1, <1>2, <1>3, <1>4, Ranges
  DEF ThreadInv, ReplyOK, CreateInv, Creates, UseInv, ReqInv, ReqFits, IdOf
<1> QED BY <1>8, <1>9, <1>10, <1>11, <1>12 DEF ThreadInv

\* Late commands are those of before and what a broken call leaves behind.
LEMMA LateStep ==
    ASSUME Inv, Moves, left \subseteq left',
           \A c \in late' : \/ c \in late
                            \/ /\ c.pc \in Writes /\ CommandOK(c)
                               /\ c.pc = "hset" => c.token \in left'
    PROVE  LateInv'
<1> SUFFICES ASSUME NEW c \in late'
             PROVE  /\ c.pc \in Writes /\ CommandOK(c)'
                    /\ c.pc = "hset" => c.token \in left'
  BY DEF LateInv
<1>1. c.pc \in Writes /\ CommandOK(c) /\ (c.pc = "hset" => c.token \in left')
  BY DEF Inv, LateInv
<1>2. c.pc = "hset" => c.token \in Pending'
  BY DEF Pending, OfLate
<1>3. /\ \A k : Generated(k) => Generated(k)' /\ owner'[k] = owner[k]
      /\ \A k : Ready(k) => Ready(k)'
      /\ \A r, k : Generated(k) /\ Owned(r, k) => Owned(r, k)'
  BY Lasting DEF Inv
<1> QED BY <1>1, <1>2, <1>3 DEF CommandOK, Writes

\* Answers that were given remain true.
LEMMA GivenStep ==
    ASSUME Inv, Moves,
           \A g \in given' : \/ g \in given
                             \/ /\ Holds(g.rid, g.token) /\ Owned(g.rid, g.token)
                                /\ IdOf(g.rid, g.player),
           \A k \in ended' : k \in ended \/ (Ready(k) /\ session[k] = NoSession)
    PROVE  GivenInv' /\ EndedInv'
<1>1. /\ \A k : Ready(k) => Ready(k)'
      /\ \A k : Ready(k) /\ session[k] = NoSession => session'[k] = NoSession
      /\ \A r \in RequestId : \A k : Holds(r, k) => Holds(r, k)'
      /\ \A r, k : Generated(k) /\ Owned(r, k) => Owned(r, k)'
      /\ \A r, p : IdOf(r, p) => IdOf(r, p)' /\ r \in RequestId
  BY Lasting DEF Inv, IdOf
<1>2. \A r, k : Holds(r, k) => Generated(k)
  BY DEF Holds, Ready
<1>3. GivenInv'
  <2> SUFFICES ASSUME NEW g \in given'
               PROVE  /\ Holds(g.rid, g.token)' /\ Owned(g.rid, g.token)'
                      /\ IdOf(g.rid, g.player)'
    BY DEF GivenInv
  <2>1. /\ Holds(g.rid, g.token) /\ Owned(g.rid, g.token)
        /\ IdOf(g.rid, g.player)
    BY DEF Inv, GivenInv
  <2> QED BY <1>1, <1>2, <2>1
<1>4. EndedInv'
  BY <1>1 DEF Inv, EndedInv
<1> QED BY <1>3, <1>4

\* A live session is not forgotten: a login that ends, ends with the session
\* mapped, gone, or noted in left.
LEMMA StrayStep ==
    ASSUME Inv, Moves, left \subseteq left',
           \A t \in Thread : op[t].pc \in Creates =>
              \/ op'[t].pc \in Creates /\ op'[t].token = op[t].token
              \/ op[t].token \in left' \cup {NoToken}
              \/ session'[op[t].token] = NoSession
              \/ LongMapping => \E r \in RequestId : idem'[r] = op[t].token
    PROVE  StrayInv'
<1> SUFFICES ASSUME LongMapping, NEW k \in Token, session'[k] # NoSession
             PROVE  \/ \E r \in RequestId : idem'[r] = k
                    \/ \E t \in Thread : op'[t].pc \in Creates /\ op'[t].token = k
                    \/ k \in left'
  BY DEF StrayInv, NoStraySession
<1>1. CASE session[k] = NoSession
  <2>1. k \in Pending
    BY <1>1 DEF Moves
  <2>2. k \in left \/ \E t \in Thread : op[t].pc \in Creates /\ op[t].token = k
    BY <2>1 DEF Pending, OfLate, Inv, LateInv, Creates
  <2> QED BY <2>2, Ranges
<1>2. CASE session[k] # NoSession
  <2>1. \/ \E r \in RequestId : idem[r] = k
        \/ \E t \in Thread : op[t].pc \in Creates /\ op[t].token = k
        \/ k \in left
    BY <1>2 DEF Inv, StrayInv, NoStraySession
  <2>2. ASSUME NEW r \in RequestId, idem[r] = k
        PROVE  idem'[r] = k
    BY <1>2, <2>2, Ranges DEF Moves
  <2> QED BY <2>1, <2>2, Ranges
<1> QED BY <1>1, <1>2

\* No step but that of GET to HSET makes a token pending.
LEMMA PendingStep ==
    ASSUME NEW t \in Thread, NEW n, op \in [Thread -> OpType],
           op' = [op EXCEPT ![t] = n], late' \subseteq late \cup {op[t]},
           n.pc = "hset" => \/ op[t].pc = "hset" /\ n.token = op[t].token
                            \/ n.token = Len(owner) + 1
    PROVE  /\ Pending' \subseteq Pending \cup {Len(owner) + 1}
           /\ \/ n.pc = "hset" /\ n.token = Len(owner) + 1
              \/ Pending' \subseteq Pending
           /\ OfOthers(t)' = OfOthers(t)
           /\ \A u \in Thread \ {t} :
                OfLate' \cup OfOthers(u)' \subseteq
                   OfLate \cup OfOthers(u) \cup {Len(owner) + 1}
<1>1. op'[t] = n /\ \A u \in Thread \ {t} : op'[u] = op[u]
  OBVIOUS
<1>2. OfLate' \subseteq OfLate \cup {k \in {op[t].token} : op[t].pc = "hset"}
  BY DEF OfLate
<1>3. OfOthers(t)' = OfOthers(t)
  BY <1>1 DEF OfOthers
<1>4. ASSUME NEW u \in Thread \ {t}
      PROVE  /\ op[t].pc = "hset" => op[t].token \in OfOthers(u)
             /\ OfOthers(u)' \subseteq OfOthers(u) \cup {Len(owner) + 1}
  BY <1>1 DEF OfOthers
<1>5. /\ Pending' \subseteq Pending \cup {Len(owner) + 1}
      /\ \/ n.pc = "hset" /\ n.token = Len(owner) + 1
         \/ Pending' \subseteq Pending
  <2> SUFFICES ASSUME NEW k \in Pending', k \notin Pending
               PROVE  n.pc = "hset" /\ k = n.token /\ n.token = Len(owner) + 1
    OBVIOUS
  <2>1. k \notin OfLate'
    BY <1>2 DEF Pending
  <2>2. PICK u \in Thread : op'[u].pc = "hset" /\ op'[u].token = k
    BY <2>1 DEF Pending
  <2> QED BY <1>1, <2>2 DEF Pending
<1> QED BY <1>2, <1>3, <1>4, <1>5

\* The request of a thread whose store call begins or ends in no way.
LEMMA ReqStep ==
    ASSUME Inv, Moves, NEW u \in Thread, req'[u] = req[u],
           op'[u].pc = "none" <=> op[u].pc = "none"
    PROVE  ReqInv(u)'
<1>1. /\ \A k : Generated(k) => Generated(k)' /\ owner'[k] = owner[k]
      /\ \A k : Ready(k) => Ready(k)'
      /\ \A k : Ready(k) /\ session[k] = NoSession => session'[k] = NoSession
  BY Lasting DEF Inv
<1>2. ReqInv(u)
  BY DEF Inv, ThreadsInv, ThreadInv
<1>3. \A k : Ready(k) => Generated(k)
  BY DEF Ready
<1> QED BY <1>1, <1>2, <1>3 DEF ReqInv, ReqFits

\* The commands of the calls under way are well-formed.
LEMMA OpCommand ==
    ASSUME Inv, NEW t \in Thread, op[t].pc \in Commands
    PROVE  /\ op[t] \in OpType /\ CommandOK(op[t])
           /\ op[t].pc \in Creates => op[t].rid \in RequestId
           /\ op[t].pc \notin {"get"} => Generated(op[t].token)
           /\ op[t].pc \in {"hmget", "exists", "del"} => Ready(op[t].token)
<1>1. op[t] \in OpType /\ CreateInv(t, op[t]) /\ UseInv(t, op[t]) /\ ReqInv(t)
  BY DEF Inv, TypeInv, ThreadsInv, ThreadInv
<1>2. op[t].pc \in {"hmget", "exists", "del"} =>
        Ready(op[t].token) /\ Generated(op[t].token)
  BY <1>1 DEF UseInv, ReqInv, ReqFits, Ready
<1>3. op[t].pc \in Creates => op[t].rid \in RequestId
  BY <1>1 DEF CreateInv, IdOf
<1>4. op[t].pc \in Creates \ {"get"} =>
        CommandOK(op[t]) /\ Generated(op[t].token)
  BY <1>1 DEF CreateInv
<1>5. op[t].pc \in {"get", "hmget", "exists", "del"} => CommandOK(op[t])
  BY <1>2 DEF CommandOK, Writes
<1> QED BY <1>1, <1>2, <1>3, <1>4, <1>5 DEF Commands, Creates

\* What Redis does with a well-formed command.
LEMMA ExecuteMoves ==
    ASSUME Inv, NEW c \in OpType, c.pc \in Commands, CommandOK(c), Execute(c),
           owner' = owner, Pending' \subseteq Pending
    PROVE  /\ Moves
           /\ c.pc \in {"cleanup", "del"} => session'[c.token] = NoSession
           /\ c.pc = "expire" => session'[c.token].expires
                                 \/ session'[c.token] = NoSession
           /\ c.pc = "setnx" /\ idem[c.rid] = NoToken => idem'[c.rid] = c.token
           /\ c.pc \notin Writes => UNCHANGED <<session, idem>>
<1>1. /\ session \in [Token -> SessionType] /\ idem \in [RequestId -> AnyToken]
      /\ owner \in Seq(Player) /\ Len(owner) <= MaxRequests
  BY DEF Inv, TypeInv
<1>2. NoSession \in SessionType /\ ~NoSession.expires
      /\ \A x \in SessionType : [x EXCEPT !.expires = TRUE] \in SessionType
      /\ \A p \in Player : [player |-> p, expires |-> FALSE] \in SessionType
  BY Ranges DEF NoSession, SessionType
<1>3. c.pc \in Writes => c.token \in Token /\ Generated(c.token)
                         /\ owner[c.token] \in Player
  BY <1>1, Ranges DEF CommandOK, Generated, Token
<1>4. CASE c.pc = "hset"
  <2>1. /\ session' = [session EXCEPT ![c.token] =
                          [player |-> c.player, expires |-> FALSE]]
        /\ idem' = idem
    BY <1>4 DEF Execute
  <2>2. /\ c.token \in Token /\ c.token \in Pending /\ Generated(c.token)
        /\ c.player = owner[c.token] /\ c.player \in Player
    BY <1>3, <1>4 DEF CommandOK, Writes
  <2>3. session' \in [Token -> SessionType]
    BY <1>1, <1>2, <2>1, <2>2
  <2>4. /\ session'[c.token].player = owner[c.token]
        /\ \A k \in Token \ {c.token} : session'[k] = session[k]
    BY <1>1, <2>1, <2>2
  <2> QED BY <1>1, <1>4, <2>1, <2>2, <2>3, <2>4 DEF Moves, Writes
<1>5. CASE c.pc = "expire"
  <2> DEFINE live == session[c.token] # NoSession
  <2>1. /\ session' = [session EXCEPT ![c.token].expires = live]
        /\ idem' = idem
    BY <1>5 DEF Execute
  <2>2. c.token \in Token
    BY <1>3, <1>5 DEF Writes
  <2>3. CASE session[c.token] = NoSession
    <3>1. session' = [session EXCEPT ![c.token].expires = FALSE]
      BY <2>1, <2>3
    <3>2. [NoSession EXCEPT !.expires = FALSE] = NoSession
      BY <1>2 DEF SessionType
    <3>3. session'[c.token] = NoSession
      BY <1>1, <2>2, <2>3, <3>1, <3>2
    <3>4. session' = session
      BY <1>1, <2>1, <2>2, <2>3, <3>3
    <3> QED BY <1>1, <1>5, <2>1, <2>3, <3>4 DEF Moves, Writes
  <2>4. CASE session[c.token] # NoSession
    <3>1. /\ session'[c.token].player = session[c.token].player
          /\ session'[c.token].expires /\ session'[c.token] \in SessionType
      BY <1>1, <2>1, <2>2, <2>4 DEF SessionType
    <3>2. /\ session' \in [Token -> SessionType]
          /\ \A k \in Token \ {c.token} : session'[k] = session[k]
      BY <1>1, <2>1, <2>2, <3>1
    <3> QED BY <1>1, <1>5, <2>1, <2>4, <3>1, <3>2 DEF Moves, Writes
  <2> QED BY <2>3, <2>4
<1>6. CASE c.pc \in {"cleanup", "del"}
  <2>1. session' = [session EXCEPT ![c.token] = NoSession] /\ idem' = idem
    BY <1>6 DEF Execute
  <2>2. c.token \in Token
    BY <1>3, <1>6 DEF Writes
  <2> QED BY <1>1, <1>2, <1>6, <2>1, <2>2 DEF Moves, Writes
<1>7. CASE c.pc = "setnx"
  <2>1. session' = session /\ idem' = SetNx(c)
    BY <1>7 DEF Execute
  <2>2. /\ c.token \in Token /\ c.rid \in RequestId
        /\ Ready(c.token) /\ Owned(c.rid, c.token)
    BY <1>3, <1>7 DEF CommandOK, Writes
  <2> QED BY <1>1, <1>7, <2>1, <2>2, Ranges DEF Moves, SetNx, Writes
<1>8. CASE c.pc \notin Writes
  <2>1. session' = session /\ idem' = idem
    BY <1>8 DEF Execute, Writes
  <2> QED BY <1>1, <1>8, <2>1 DEF Moves, Writes
<1> QED BY <1>4, <1>5, <1>6, <1>7, <1>8 DEF Writes

\* A reply is the right one for the command it answers, when it is written.
LEMMA ReplyFits ==
    ASSUME Inv, Moves, NEW t \in Thread, NEW o, NEW r, o = op[t], r = Reply(o),
           o.pc \in Commands,
           o.pc = "setnx" /\ idem[o.rid] = NoToken => idem'[o.rid] = o.token,
           o.pc \notin Writes => UNCHANGED <<session, idem>>
    PROVE  r \in ReplyType /\ ReplyOK(o, r)'
<1> DEFINE bare(type) == [type |-> type, token |-> NoToken, player |-> NoPlayer]
<1>1. /\ o \in OpType
      /\ o.pc \in Creates => o.rid \in RequestId
      /\ o.pc # "get" => Generated(o.token)
      /\ o.pc = "hmget" => Ready(o.token)
      /\ o.pc = "setnx" => Ready(o.token)
  <2>1. o.pc = "setnx" => CommandOK(o)
    BY OpCommand
  <2> QED BY <2>1, OpCommand DEF CommandOK
<1>2. TypeInv /\ SessionInv /\ IdemInv
  BY DEF Inv
<1>3. /\ \A k : Generated(k) => owner'[k] = owner[k]
      /\ \A k : Ready(k) => Ready(k)'
      /\ \A q \in RequestId : \A k : Holds(q, k) => Holds(q, k)'
      /\ \A q, k : Generated(k) /\ Owned(q, k) => Owned(q, k)'
  BY <1>2, Lasting
<1>4. \A type \in ReplyKind :
         bare(type) \in ReplyType /\ bare(type).type = type
  BY Ranges DEF ReplyType
<1>5. CASE o.pc \in {"get", "getWinner"}
  <2>1. o.rid \in RequestId /\ idem[o.rid] \in AnyToken
    BY <1>1, <1>2, <1>5 DEF TypeInv, Creates
  <2>2. CASE idem[o.rid] = NoToken
    <3>1. r = bare("nil")
      BY <1>5, <2>2 DEF Reply
    <3> QED BY <1>4, <1>5, <3>1 DEF ReplyOK, ReplyKind
  <2>3. CASE idem[o.rid] # NoToken
    <3> DEFINE k == idem[o.rid]
    <3>1. r = [bare("string") EXCEPT !.token = idem[o.rid]]
      BY <1>5, <2>3 DEF Reply
    <3>2. r \in ReplyType /\ r.token = k /\ r.type = "string"
      BY <2>1, <3>1, Ranges DEF ReplyType, ReplyKind
    <3>3. Holds(o.rid, k) /\ Owned(o.rid, k) /\ Generated(k)
      BY <1>2, <2>1, <2>3 DEF IdemInv, Holds, Ready
    <3> HIDE DEF k
    <3>4. Holds(o.rid, r.token) /\ Owned(o.rid, r.token) /\ Generated(r.token)
      BY <3>2, <3>3
    <3>5. Holds(o.rid, r.token)' /\ Owned(o.rid, r.token)'
      BY <1>3, <2>1, <3>4
    <3> QED BY <1>5, <3>2, <3>5 DEF ReplyOK
  <2> QED BY <2>2, <2>3
<1>6. CASE o.pc = "setnx"
  <2>1. CASE idem[o.rid] = NoToken
    <3>1. r = bare("status") /\ idem'[o.rid] = o.token
      BY <1>6, <2>1 DEF Reply
    <3>2. Holds(o.rid, o.token)'
      BY <1>1, <1>3, <1>6, <3>1 DEF Holds
    <3> QED BY <1>4, <1>6, <3>1, <3>2 DEF ReplyOK, ReplyKind
  <2>2. CASE idem[o.rid] # NoToken
    <3>1. r = bare("nil")
      BY <1>6, <2>2 DEF Reply
    <3> QED BY <1>4, <1>6, <3>1 DEF ReplyOK, ReplyKind
  <2> QED BY <2>1, <2>2
<1>7. CASE o.pc = "hmget"
  <2>1. o.token \in Token /\ Generated(o.token) /\ owner[o.token] \in Player
    BY <1>1, <1>2, <1>7, Ranges DEF Generated, TypeInv, Token
  <2>2. session[o.token] \in SessionType
    BY <1>2, <2>1 DEF TypeInv
  <2>3. r = [bare("array") EXCEPT !.player = session[o.token].player]
    BY <1>7 DEF Reply
  <2>4. r \in ReplyType /\ r.player = session[o.token].player
    BY <2>2, <2>3, Ranges DEF ReplyType, ReplyKind, SessionType
  <2>5. IF r.player = NoPlayer THEN session[o.token] = NoSession
        ELSE r.player = owner[o.token]
    <3>1. NoSession.player = NoPlayer
      BY DEF NoSession
    <3> QED BY <1>2, <2>1, <2>4, <3>1, Ranges DEF SessionInv
  <2>6. session' = session
    BY <1>7 DEF Writes
  <2> QED BY <1>3, <1>7, <2>1, <2>4, <2>5, <2>6 DEF ReplyOK
<1>8. CASE o.pc = "exists"
  <2>1. \/ r = [bare("integer") EXCEPT !.token = NoToken]
        \/ r = [bare("integer") EXCEPT !.token = o.token]
    BY <1>8 DEF Reply
  <2>2. o.token \in AnyToken
    BY <1>1 DEF OpType
  <2> QED BY <1>8, <2>1, <2>2, Ranges DEF ReplyType, ReplyKind, ReplyOK
<1>9. CASE o.pc \notin {"get", "getWinner", "setnx", "hmget", "exists"}
  <2>1. r = bare("integer")
    BY <1>9 DEF Reply
  <2> QED BY <1>4, <1>9, <2>1 DEF ReplyOK, ReplyKind
<1> QED BY <1>5, <1>6, <1>7, <1>8, <1>9
=============================================================================
