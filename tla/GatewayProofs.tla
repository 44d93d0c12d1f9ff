---------------------------- MODULE GatewayProofs ----------------------------
(***************************************************************************)
(* The safety properties of Gateway over RedisSessionStore, for any number *)
(* of threads, players, requests and faults.                               *)
(***************************************************************************)
EXTENDS GatewayLemmas

\* A step of a store call that has the connection.
LEMMA StoreCallInv ==
    ASSUME Inv, Moves, UNCHANGED gatewayVars,
           NEW t \in Thread, NEW n \in OpType, NEW r,
           op[t].pc \in Commands, op' = [op EXCEPT ![t] = n],
           \/ late' = late
           \/ /\ late' = late \cup {op[t]} /\ op[t].pc \in Writes
              /\ op[t].pc = "hset" => op[t].token \in left',
           n.pc = "hset" => \/ op[t].pc = "hset" /\ n.token = op[t].token
                            \/ n.token = Len(owner) + 1,
           left \subseteq left',
           mutex \in {NoThread, t},
           wire' \in Seq(ReplyType),
           \/ /\ n.pc \in Commands /\ mutex' = t
              /\ IF n.sent THEN Len(wire') = 1 ELSE wire' = <<>>
           \/ n.pc \in Results /\ ~n.sent /\ mutex' = NoThread /\ wire' = <<>>,
           n.pc = "get" => op[t].pc = "get",
           owner' = owner \/ (op[t].pc = "get" /\ n.pc # "get"),
           op[t].pc \in Creates =>
              \/ n.pc \in Creates /\ n.token = op[t].token
              \/ op[t].token \in left' \cup {NoToken}
              \/ session'[op[t].token] = NoSession
              \/ LongMapping => \E q \in RequestId : idem'[q] = op[t].token,
           CreateInv(t, n)', UseInv(t, n)',
           n.pc \in Results => ResultInv(t, n)',
           n.sent => wire'[1] = r /\ ReplyOK(n, r)'
    PROVE  Inv'
<1>1. TypeInv /\ LockInv /\ CountInv /\ UNCHANGED <<req, given, ended, served>>
  BY DEF Inv, gatewayVars
<1>2. /\ op'[t] = n /\ op[t] \in OpType
      /\ \A u \in Thread \ {t} : op'[u] = op[u] /\ ~op[u].sent
  BY <1>1, Ranges DEF TypeInv, LockInv
<1>3. /\ n.pc # "none" /\ op[t].pc # "none"
  BY DEF Commands, Creates, Results
<1>4. /\ SessionInv' /\ IdemInv'
  BY Lasting DEF Inv
<1>5. TypeInv'
  <2>1. owner' \in Seq(Player) /\ Len(owner') <= MaxRequests
    <3>1. /\ owner \in Seq(Player) /\ Len(owner) <= MaxRequests
          /\ MaxRequests \in Nat
      BY <1>1, Ranges DEF TypeInv
    <3>2. CASE owner' = owner
      BY <3>1, <3>2
    <3>3. CASE /\ Len(owner) < MaxRequests
               /\ \E p \in Player : owner' = Append(owner, p)
      BY <3>1, <3>3
    <3> QED BY <3>2, <3>3 DEF Moves
  <2>2. mutex' \in Thread \cup {NoThread}
    OBVIOUS
  <2>3. op' \in [Thread -> OpType] /\ late' \in SUBSET OpType
    BY <1>1, <1>2 DEF TypeInv
  <2> QED BY <1>1, <2>1, <2>2, <2>3 DEF TypeInv, Moves
<1>6. LateInv'
  <2>1. op[t].pc \in Writes => CommandOK(op[t])
    BY OpCommand
  <2> QED BY <2>1, LateStep
<1>7. GivenInv' /\ EndedInv'
  BY <1>1, GivenStep
<1>8. StrayInv'
  <2>1. \A u \in Thread : op[u].pc \in Creates =>
              \/ op'[u].pc \in Creates /\ op'[u].token = op[u].token
              \/ op[u].token \in left' \cup {NoToken}
              \/ session'[op[u].token] = NoSession
              \/ LongMapping => \E q \in RequestId : idem'[q] = op[u].token
    BY <1>2
  <2> QED BY <2>1, StrayStep
<1>9. LockInv'
  <2>1. \A u \in Thread \ {t} :
           op[u].pc \notin Commands \ {"get", "hmget", "exists"}
    BY <1>1, Ranges DEF LockInv
  <2>2. Results \cap Commands = {}
    BY DEF Results, Commands, Creates
  <2> QED BY <1>2, <2>1, <2>2, Ranges DEF LockInv
<1>10. CountInv'
  <2>1. /\ IsFiniteSet(Drawing) /\ Cardinality(Drawing) \in Nat
        /\ Len(owner) \in Nat /\ served \in Nat
        /\ Len(owner) + Cardinality(Drawing) <= served /\ served' = served
    BY <1>1, FS_CardinalityType DEF CountInv, TypeInv
  <2>2. CASE n.pc = "get" \/ op[t].pc # "get"
    <3>1. Drawing' = Drawing /\ owner' = owner
      BY <1>2, <2>2 DEF Drawing
    <3> QED BY <2>1, <3>1 DEF CountInv
  <2>3. CASE n.pc # "get" /\ op[t].pc = "get"
    <3>1. Drawing' = Drawing \ {t} /\ t \in Drawing
      BY <1>2, <2>3 DEF Drawing
    <3>2. /\ IsFiniteSet(Drawing \ {t})
          /\ Cardinality(Drawing \ {t}) = Cardinality(Drawing) - 1
      BY <2>1, <3>1, FS_RemoveElement
    <3>3. Len(owner') \in {Len(owner), Len(owner) + 1}
      BY <1>1 DEF Moves, TypeInv
    <3> QED BY <2>1, <3>1, <3>2, <3>3 DEF CountInv
  <2> QED BY <2>2, <2>3
<1>11. ThreadsInv'
  <2>1. ASSUME NEW u \in Thread \ {t}
        PROVE  ThreadInv(u)'
    <3>1. OfLate' \cup OfOthers(u)' \subseteq
             OfLate \cup OfOthers(u) \cup {Len(owner) + 1}
      BY <1>1, PendingStep DEF TypeInv
    <3> QED BY <1>1, <1>2, <2>1, <3>1, OtherThread
  <2>2. ThreadInv(t)'
    <3>1. ReqInv(t)'
      BY <1>1, <1>2, <1>3, ReqStep
    <3>2. CreateInv(t, op[t])' /\ UseInv(t, op[t])'
      BY <1>2
    <3>3. op'[t].pc \in Results => ResultInv(t, op[t])'
      BY <1>2
    <3>4. op'[t].sent => ReplyOK(op[t], wire[1])'
      BY <1>2
    <3> QED BY <3>1, <3>2, <3>3, <3>4 DEF ThreadInv
  <2> QED BY <2>1, <2>2 DEF ThreadsInv
<1> QED BY <1>4, <1>5, <1>6, <1>7, <1>8, <1>9, <1>10, <1>11 DEF Inv

\* A command is written to the connection, and Redis executes it.
LEMMA SendInv ==
    ASSUME Inv, NEW t \in Thread, Send(t), UNCHANGED gatewayVars
    PROVE  Inv'
<1>0. PICK o, n, r : o = op[t] /\ n = [o EXCEPT !.sent = TRUE] /\ r = Reply(o)
  OBVIOUS
<1>1. /\ o.pc \in Commands /\ ~o.sent /\ mutex \in {NoThread, t}
      /\ mutex' = t /\ Execute(o) /\ wire' = Append(wire, r)
      /\ op' = [op EXCEPT ![t] = n] /\ UNCHANGED <<late, owner, left, faults>>
  BY <1>0 DEF Send, MayUse, Call
<1>2. /\ o \in OpType /\ CommandOK(o)
      /\ o.pc # "get" => Generated(o.token)
      /\ o.pc \in Creates => o.rid \in RequestId
  BY <1>0, <1>1, OpCommand
<1>3. /\ n \in OpType /\ n.pc = o.pc /\ n.sent /\ n.rid = o.rid
      /\ n.player = o.player /\ n.token = o.token /\ n.out = o.out
  BY <1>0, <1>2 DEF OpType
<1>4. TypeInv /\ LockInv /\ ThreadInv(t)
  BY DEF Inv, ThreadsInv
<1>5. /\ Pending' \subseteq Pending /\ OfOthers(t)' = OfOthers(t)
      /\ OfLate' = OfLate
  <2>1. op \in [Thread -> OpType] /\ op'[t] = n
        /\ \A u \in Thread \ {t} : op'[u] = op[u]
    BY <1>1, <1>4 DEF TypeInv
  <2> QED BY <1>0, <1>1, <1>3, <2>1 DEF Pending, OfOthers, OfLate
<1>6. /\ Moves
      /\ o.pc \in {"cleanup", "del"} => session'[o.token] = NoSession
      /\ o.pc = "expire" => session'[o.token].expires
                             \/ session'[o.token] = NoSession
      /\ o.pc = "setnx" /\ idem[o.rid] = NoToken =>
            idem'[o.rid] = o.token
      /\ o.pc \notin Writes => UNCHANGED <<session, idem>>
  BY <1>1, <1>2, <1>5, ExecuteMoves
<1>7. wire = <<>>
  BY <1>0, <1>1, <1>4, Ranges DEF LockInv
<1>8. r \in ReplyType /\ ReplyOK(o, r)'
  BY <1>0, <1>1, <1>6, ReplyFits
<1>9. wire' \in Seq(ReplyType) /\ Len(wire') = 1 /\ wire'[1] = r
  BY <1>1, <1>7, <1>8
<1>10. ReplyOK(n, r)'
  BY <1>3, <1>8 DEF ReplyOK
<1>11. /\ \A k : Generated(k) => Generated(k)' /\ owner'[k] = owner[k]
       /\ \A k : Ready(k) => Ready(k)'
       /\ \A k : Ready(k) /\ session[k] = NoSession => session'[k] = NoSession
       /\ \A q \in RequestId : \A k : Holds(q, k) => Holds(q, k)'
       /\ \A q, k : Generated(k) /\ Owned(q, k) => Owned(q, k)'
       /\ \A q, p : IdOf(q, p) => IdOf(q, p)'
       /\ UNCHANGED req
  BY <1>6, Lasting DEF Inv, IdOf, gatewayVars
<1>12. n.pc = "hset" => n.token \in Pending'
  BY <1>1, <1>3, <1>4 DEF Pending, TypeInv
<1>13. CreateInv(t, n)'
  <2>1. CreateInv(t, o)
    BY <1>0, <1>4 DEF ThreadInv
  <2>2. CommandOK(n)'
    BY <1>2, <1>3, <1>11, <1>12 DEF CommandOK, Writes, Ready
  <2>3. n.pc = "expire" => Ready(n.token)'
    <3>1. n.pc = "expire" => n.token \notin Pending'
      <4>1. op'[t] = n
        BY <1>1, <1>4 DEF TypeInv
      <4>2. n.pc = "expire" => n.token \notin OfLate' \cup OfOthers(t)'
        BY <1>3, <1>5, <2>1 DEF CreateInv
      <4> QED BY <4>1, <4>2 DEF Pending, OfOthers
    <3> QED BY <1>2, <1>3, <1>6, <1>11, <3>1 DEF Ready
  <2>4. \A q, k : Holds(q, k) => Generated(k)
    BY DEF Holds, Ready
  <2> QED
    BY <1>2, <1>3, <1>5, <1>6, <1>11, <2>1, <2>2, <2>3, <2>4
    DEF CreateInv, Creates
<1>14. UseInv(t, n)'
  BY <1>0, <1>3, <1>4, <1>6, <1>11 DEF ThreadInv, UseInv
<1>15. n.pc \notin Results
  BY <1>1, <1>3 DEF Commands, Creates, Results
<1> QED
  BY <1>0, <1>1, <1>3, <1>6, <1>9, <1>10, <1>13, <1>14, <1>15, StoreCallInv

\* Redis is left alone.
LEMMA StillMoves ==
    ASSUME Inv, UNCHANGED <<session, idem, owner>>, Pending' \subseteq Pending
    PROVE  Moves
BY DEF Inv, TypeInv, Moves

\* The record a store call leaves when it returns.
LEMMA ReturnFields ==
    ASSUME NEW o \in OpType, NEW result \in Results, NEW k \in AnyToken,
           NEW p \in AnyPlayer, NEW n, n = Return(o, result, k, p)
    PROVE  /\ n \in OpType /\ n.pc = result /\ n.rid = o.rid /\ n.token = k
           /\ n.player = p /\ ~n.sent
<1>1. result \in Pc
  BY DEF Pc
<1> QED BY <1>1, Ranges DEF Return, NoCall, OpType

\* A call that has returned is no call any more.
LEMMA Returned ==
    ASSUME NEW t \in Thread, NEW n, n.pc \in Results
    PROVE  CreateInv(t, n)' /\ UseInv(t, n)' /\ n.pc \notin Commands
BY DEF Results, Commands, Creates, CreateInv, UseInv

\* The connection breaks under a command.
LEMMA NoReplyInv ==
    ASSUME Inv, NEW t \in Thread, NoReply(t), UNCHANGED gatewayVars
    PROVE  Inv'
<1>0. PICK o, n : o = op[t] /\ n = AfterNoReply(o)
  OBVIOUS
<1>1. /\ o.pc \in Commands /\ mutex \in {NoThread, t}
      /\ mutex' = Holder(t, n) /\ wire' = <<>>
      /\ op' = [op EXCEPT ![t] = n] /\ UNCHANGED owner
      /\ left' = IF o.pc \in Creates \ {"get"} THEN left \cup {o.token} ELSE left
  BY <1>0 DEF NoReply, MayUse, Call
<1>2. o \in OpType /\ CommandOK(o)
  BY <1>0, <1>1, OpCommand
<1>3. /\ n \in OpType /\ n.rid = o.rid /\ ~n.sent
      /\ o.pc = "cleanup" => n.pc = "kOk" /\ n.token = o.out
      /\ o.pc # "cleanup" => n.pc = "kUnavailable"
  <2>1. o.out \in AnyToken /\ o.token \in AnyToken /\ o.player \in AnyPlayer
        /\ NoPlayer \in AnyPlayer /\ "kOk" \in Results
        /\ "kUnavailable" \in Results
    BY <1>2, Ranges DEF OpType, Results
  <2>2. PICK result, k, p :
           /\ n = Return(o, result, k, p) /\ k \in AnyToken /\ p \in AnyPlayer
           /\ o.pc = "cleanup" => result = "kOk" /\ k = o.out
           /\ o.pc # "cleanup" => result = "kUnavailable"
    BY <1>0, <2>1 DEF AfterNoReply
  <2> QED BY <1>2, <2>1, <2>2, ReturnFields
<1>4. n.pc \in Results
  BY <1>3 DEF Results
<1>5. /\ \/ late' = late
         \/ late' = late \cup {o} /\ o.pc \in Writes
      /\ \/ UNCHANGED <<session, idem>>
         \/ Execute(o)
  BY <1>0 DEF NoReply, redis
<1>6. TypeInv /\ ThreadInv(t) /\ UNCHANGED req
  BY DEF Inv, ThreadsInv, gatewayVars
<1>7. Pending' \subseteq Pending
  <2>1. late' \subseteq late \cup {op[t]} /\ n.pc # "hset"
        /\ op \in [Thread -> OpType]
    BY <1>0, <1>3, <1>5, <1>6 DEF TypeInv
  <2> QED BY <1>1, <2>1, PendingStep
<1>8. Moves
  BY <1>1, <1>2, <1>5, <1>7, StillMoves, ExecuteMoves
<1>9. ResultInv(t, n)'
  <2>1. CASE o.pc = "cleanup"
    <3>1. /\ Holds(o.rid, o.out) /\ Owned(o.rid, o.out) /\ IdOf(o.rid, o.player)
          /\ req[t].kind = "login" /\ req[t].player = o.player
      BY <1>0, <1>6, <2>1 DEF ThreadInv, CreateInv, Creates
    <3>2. Holds(o.rid, o.out)' /\ Owned(o.rid, o.out)' /\ IdOf(o.rid, o.player)'
      <4>1. o.rid \in RequestId /\ Generated(o.out)
        BY <3>1 DEF IdOf, Holds, Ready
      <4> QED BY <1>8, <3>1, <4>1, Lasting DEF Inv, IdOf
    <3> QED BY <1>3, <1>6, <2>1, <3>1, <3>2 DEF ResultInv
  <2>2. CASE o.pc # "cleanup"
    BY <1>3, <2>2 DEF ResultInv
  <2> QED BY <2>1, <2>2
<1>10. CreateInv(t, n)' /\ UseInv(t, n)' /\ n.pc \notin Commands
  BY <1>4, Returned
<1>11. o.pc \in Creates => o.token \in left' \cup {NoToken}
  BY <1>0, <1>1, <1>6 DEF ThreadInv, CreateInv
<1>12. /\ mutex' = NoThread /\ left \subseteq left'
       /\ o.pc = "hset" => o.token \in left'
  BY <1>1, <1>4 DEF Holder, Creates
<1>13. n.pc # "hset" /\ n.pc # "get" /\ wire' \in Seq(ReplyType)
  BY <1>1, <1>3
<1> QED
  BY <1>0, <1>1, <1>3, <1>4, <1>5, <1>8, <1>9, <1>10, <1>11, <1>12, <1>13,
     StoreCallInv

\* What a call does next, reply by reply.
Continues(o, r, n) ==
    /\ n \in OpType /\ ~n.sent /\ n.rid = o.rid
    /\ o.pc = "get" =>
         IF r.type = "string" THEN n.pc = "kOk" /\ n.token = r.token
         ELSE n.pc = "hset" /\ n.token = Len(owner) + 1
              /\ n.player = o.player
    /\ o.pc = "hset" => n.pc = "expire"
    /\ o.pc = "expire" => n.pc = "setnx"
    /\ o.pc = "setnx" => n.pc = IF r.type = "status" THEN "kOk"
                                ELSE "getWinner"
    /\ o.pc = "getWinner" =>
         IF r.type = "string" THEN n.pc = "cleanup" /\ n.out = r.token
         ELSE n.pc = "kUnavailable"
    /\ o.pc = "cleanup" => n.pc = "kOk" /\ n.token = o.out
    /\ o.pc \in {"hset", "expire", "setnx", "getWinner"} =>
         n.token = o.token /\ n.player = o.player
    /\ o.pc = "hmget" =>
         \/ n.pc = "kUnavailable"
         \/ n.pc = "kNotFound" /\ r.player = NoPlayer
         \/ n.pc = "kOk" /\ r.player # NoPlayer /\ n.player = r.player
    /\ o.pc = "exists" => n.pc = "del" /\ n.token = o.token
    /\ o.pc = "del" => n.pc \in {"kOk", "kNotFound"}

\* AfterReply does what Continues says, for every command and every reply.
LEMMA AfterReplyFields ==
    ASSUME NEW o \in OpType, NEW r \in ReplyType, NEW n,
           n = [AfterReply(o, r) EXCEPT !.sent = FALSE], o.pc \in Commands,
           o.pc \in {"get", "getWinner"} =>
              \/ r.type = "nil"
              \/ r.type = "string" /\ r.token \in Token,
           o.pc = "get" => Len(owner) + 1 \in Token
    PROVE  Continues(o, r, n)
<1> USE DEF Continues
<1> DEFINE a == AfterReply(o, r)
<1>1. /\ o.out \in AnyToken /\ o.token \in AnyToken /\ o.player \in AnyPlayer
      /\ NoPlayer \in AnyPlayer /\ "kOk" \in Results /\ "kNotFound" \in Results
      /\ "kUnavailable" \in Results
      /\ r.token \in AnyToken /\ r.player \in AnyPlayer
  BY Ranges DEF OpType, Results, ReplyType
<1>2. /\ Commands \subseteq Pc
      /\ {"hset", "expire", "setnx", "getWinner", "cleanup", "del"} \subseteq Commands
  BY DEF Pc, Commands, Creates
<1>3. ASSUME NEW b \in OpType, n = [b EXCEPT !.sent = FALSE]
      PROVE  /\ n \in OpType /\ ~n.sent /\ n.pc = b.pc /\ n.rid = b.rid
             /\ n.token = b.token /\ n.player = b.player /\ n.out = b.out
  BY <1>3 DEF OpType
<1>4. ASSUME NEW result \in Results, NEW k \in AnyToken, NEW p \in AnyPlayer,
             a = Return(o, result, k, p)
      PROVE  /\ n \in OpType /\ ~n.sent /\ n.pc = result /\ n.rid = o.rid
             /\ n.token = k /\ n.player = p
  <2>1. /\ a \in OpType /\ a.pc = result /\ a.rid = o.rid /\ a.token = k
        /\ a.player = p
    BY <1>4, ReturnFields
  <2> HIDE DEF a
  <2>2. n = [a EXCEPT !.sent = FALSE]
    BY DEF a
  <2> QED BY <1>3, <2>1, <2>2
<1>5. ASSUME NEW pc \in Commands, a = [o EXCEPT !.pc = pc]
      PROVE  /\ n \in OpType /\ ~n.sent /\ n.pc = pc /\ n.rid = o.rid
             /\ n.token = o.token /\ n.player = o.player
  <2>1. /\ a \in OpType /\ a.pc = pc /\ a.rid = o.rid /\ a.token = o.token
        /\ a.player = o.player
    BY <1>2, <1>5 DEF OpType
  <2> HIDE DEF a
  <2>2. n = [a EXCEPT !.sent = FALSE]
    BY DEF a
  <2> QED BY <1>3, <2>1, <2>2
<1>6. o.pc \in Creates => a = AfterCreate(o, r)
  BY DEF AfterReply, Creates
<1>7. CASE o.pc = "get"
  <2>1. CASE r.type = "string"
    <3>1. PICK result, k, p :
             /\ a = Return(o, result, k, p) /\ result = "kOk"
             /\ k = r.token /\ p = o.player
      <4>1. ReplyAsString(r) = r.token /\ r.token # NoToken
        BY <1>7, <2>1, Ranges DEF ReplyAsString
      <4> QED BY <1>6, <1>7, <4>1 DEF AfterCreate, Creates
    <3>2. n \in OpType /\ ~n.sent /\ n.pc = result /\ n.rid = o.rid
          /\ n.token = k
      BY <1>1, <1>4, <3>1
    <3> QED BY <1>7, <2>1, <3>1, <3>2
  <2>2. CASE r.type = "nil"
    <3>1. a = [o EXCEPT !.pc = "hset", !.token = Len(owner) + 1]
      <4>1. ReplyAsString(r) = NoToken
        BY <2>2 DEF ReplyAsString
      <4> QED BY <1>6, <1>7, <4>1 DEF AfterCreate, Creates
    <3>2. /\ a \in OpType /\ a.pc = "hset" /\ a.token = Len(owner) + 1
          /\ a.rid = o.rid /\ a.player = o.player
      BY <1>2, <1>7, <3>1, Ranges DEF OpType
    <3> HIDE DEF a
    <3>3. n = [a EXCEPT !.sent = FALSE]
      BY DEF a
    <3> QED BY <1>3, <1>7, <2>2, <3>2, <3>3
  <2> QED BY <1>7, <2>1, <2>2
<1>8. CASE o.pc = "hset"
  <2>1. PICK pc : pc = "expire" /\ a = [o EXCEPT !.pc = pc]
    BY <1>6, <1>8 DEF AfterCreate, Creates
  <2> QED BY <1>2, <1>5, <1>8, <2>1
<1>9. CASE o.pc = "expire"
  <2>1. PICK pc : pc = "setnx" /\ a = [o EXCEPT !.pc = pc]
    BY <1>6, <1>9 DEF AfterCreate, Creates
  <2> QED BY <1>2, <1>5, <1>9, <2>1
<1>10. CASE o.pc = "setnx"
  <2>1. CASE r.type = "status"
    <3>1. PICK result, k, p :
             /\ a = Return(o, result, k, p) /\ result = "kOk"
             /\ k = o.token /\ p = o.player
      BY <1>6, <1>10, <2>1 DEF AfterCreate, Creates
    <3>2. n \in OpType /\ ~n.sent /\ n.pc = result /\ n.rid = o.rid
          /\ n.token = k /\ n.player = p
      <4>1. result \in Results /\ k \in AnyToken /\ p \in AnyPlayer
        BY <1>1, <3>1
      <4> QED BY <1>4, <3>1, <4>1
    <3> QED BY <1>10, <2>1, <3>1, <3>2
  <2>2. CASE r.type # "status"
    <3>1. PICK pc : pc = "getWinner" /\ a = [o EXCEPT !.pc = pc]
      BY <1>6, <1>10, <2>2 DEF AfterCreate, Creates
    <3> QED BY <1>2, <1>5, <1>10, <2>2, <3>1
  <2> QED BY <2>1, <2>2
<1>11. CASE o.pc = "getWinner"
  <2>1. CASE r.type = "string"
    <3>1. a = [o EXCEPT !.pc = "cleanup", !.out = r.token]
      <4>1. ReplyAsString(r) = r.token /\ r.token # NoToken
        BY <1>11, <2>1, Ranges DEF ReplyAsString
      <4> QED BY <1>6, <1>11, <4>1 DEF AfterCreate, Creates, YieldTo
    <3>2. /\ a \in OpType /\ a.pc = "cleanup" /\ a.token = o.token
          /\ a.rid = o.rid /\ a.player = o.player /\ a.out = r.token
      BY <1>1, <1>2, <3>1 DEF OpType
    <3> HIDE DEF a
    <3>3. n = [a EXCEPT !.sent = FALSE]
      BY DEF a
    <3> QED BY <1>3, <1>11, <2>1, <3>2, <3>3
  <2>2. CASE r.type = "nil"
    <3>1. PICK result, k, p :
             /\ a = Return(o, result, k, p) /\ result = "kUnavailable"
             /\ k = o.token /\ p = o.player
      <4>1. ReplyAsString(r) = NoToken
        BY <2>2 DEF ReplyAsString
      <4> QED BY <1>6, <1>11, <4>1 DEF AfterCreate, Creates
    <3> QED BY <1>1, <1>4, <1>11, <2>2, <3>1
  <2> QED BY <1>11, <2>1, <2>2
<1>12. CASE o.pc = "cleanup"
  <2>1. PICK result, k, p :
           /\ a = Return(o, result, k, p) /\ result = "kOk"
           /\ k = o.out /\ p = o.player
    BY <1>6, <1>12 DEF AfterCreate, Creates
  <2>2. n \in OpType /\ ~n.sent /\ n.pc = result /\ n.rid = o.rid
        /\ n.token = k
    BY <1>1, <1>4, <2>1
  <2> QED BY <1>12, <2>1, <2>2
<1>13. CASE o.pc = "hmget"
  <2>1. PICK result, k, p :
           /\ a = Return(o, result, k, p) /\ k = o.token /\ p \in AnyPlayer
           /\ \/ result = "kUnavailable"
              \/ result = "kNotFound" /\ r.player = NoPlayer
              \/ result = "kOk" /\ r.player # NoPlayer /\ p = r.player
    BY <1>1, <1>13 DEF AfterReply, Creates
  <2>2. n \in OpType /\ ~n.sent /\ n.pc = result /\ n.rid = o.rid
        /\ n.player = p
    <3>1. result \in Results /\ k \in AnyToken /\ p \in AnyPlayer
      BY <1>1, <2>1
    <3> QED BY <1>4, <2>1, <3>1
  <2> QED BY <1>13, <2>1, <2>2
<1>14. CASE o.pc = "exists"
  <2>1. a = [o EXCEPT !.pc = "del", !.out = r.token]
    BY <1>14 DEF AfterReply, Creates
  <2>2. a \in OpType /\ a.pc = "del" /\ a.token = o.token /\ a.rid = o.rid
    BY <1>1, <1>2, <2>1 DEF OpType
  <2> HIDE DEF a
  <2>3. n = [a EXCEPT !.sent = FALSE]
    BY DEF a
  <2> QED BY <1>3, <1>14, <2>2, <2>3
<1>15. CASE o.pc = "del"
  <2>1. PICK result, k, p :
           /\ a = Return(o, result, k, p) /\ k = o.token /\ p = NoPlayer
           /\ result \in {"kOk", "kNotFound"}
    BY <1>15 DEF AfterReply, Creates
  <2> QED BY <1>1, <1>4, <1>15, <2>1
<1> QED
  BY <1>7, <1>8, <1>9, <1>10, <1>11, <1>12, <1>13, <1>14, <1>15
  DEF Commands, Creates

\* The reply of the last command is read, and the call goes on or returns.
LEMMA ReceiveInv ==
    ASSUME Inv, NEW t \in Thread, Receive(t), UNCHANGED gatewayVars
    PROVE  Inv'
<1>0. PICK o, r, n : /\ o = op[t] /\ r = Head(wire)
                     /\ n = [AfterReply(o, r) EXCEPT !.sent = FALSE]
  OBVIOUS
<1>1. /\ o.pc \in Commands /\ o.sent /\ wire # <<>> /\ wire' = Tail(wire)
      /\ mutex' = Holder(t, n) /\ op' = [op EXCEPT ![t] = n]
      /\ owner' = IF o.pc = "get" /\ n.pc = "hset"
                  THEN Append(owner, n.player) ELSE owner
      /\ left' = IF o.pc = "getWinner" /\ n.pc = "kUnavailable"
                 THEN left \cup {o.token} ELSE left
      /\ UNCHANGED <<session, idem, late>>
  BY <1>0 DEF Receive, Call, redis
<1>2. TypeInv /\ LockInv /\ CountInv /\ ThreadInv(t) /\ UNCHANGED req
  BY DEF Inv, ThreadsInv, gatewayVars
<1>3. /\ mutex = t /\ wire \in Seq(ReplyType) /\ Len(wire) = 1
      /\ r = wire[1] /\ r \in ReplyType /\ wire' = <<>>
  BY <1>0, <1>1, <1>2 DEF LockInv, TypeInv
<1>4. /\ o \in OpType /\ CommandOK(o) /\ ReplyOK(o, r)
      /\ CreateInv(t, o) /\ UseInv(t, o) /\ ReqInv(t)
      /\ o.pc \in Creates => o.rid \in RequestId
  BY <1>0, <1>1, <1>2, <1>3, OpCommand DEF ThreadInv
<1>5. o.pc \in {"get", "getWinner"} =>
         \/ r.type = "nil"
         \/ r.type = "string" /\ Holds(o.rid, r.token) /\ Owned(o.rid, r.token)
            /\ r.token \in Token
  BY <1>2, <1>4, Ranges DEF ReplyOK, Holds, Ready, Generated, TypeInv, Token
<1>6. o.pc = "get" => Len(owner) + 1 \in Token /\ Len(owner) < MaxRequests
  <2> SUFFICES ASSUME o.pc = "get"
               PROVE  Len(owner) + 1 \in Token /\ Len(owner) < MaxRequests
    OBVIOUS
  <2>1. t \in Drawing
    BY <1>0 DEF Drawing
  <2>2. Cardinality(Drawing) \in Nat /\ Cardinality(Drawing) # 0
    BY <1>2, <2>1, FS_CardinalityType, FS_EmptySet DEF CountInv
  <2> QED BY <1>2, <2>2, Ranges DEF CountInv, TypeInv, Token
<1>7. Continues(o, r, n)
  <2>1. o.pc \in {"get", "getWinner"} =>
           \/ r.type = "nil"
           \/ r.type = "string" /\ r.token \in Token
    BY <1>5
  <2>2. o.pc = "get" => Len(owner) + 1 \in Token
    BY <1>6
  <2>3. /\ o \in OpType /\ r \in ReplyType /\ o.pc \in Commands
        /\ n = [AfterReply(o, r) EXCEPT !.sent = FALSE]
    BY <1>0, <1>1, <1>3, <1>4
  <2> QED BY <2>1, <2>2, <2>3, AfterReplyFields
<1> USE DEF Continues
<1>8. /\ n.pc \in Commands \cup Results /\ n.pc # "get"
      /\ n.pc = "hset" => o.pc = "get" /\ n.token = Len(owner) + 1
                          /\ n.player = o.player
      /\ n.pc = "expire" => o.pc = "hset"
      /\ n.pc = "setnx" => o.pc = "expire"
      /\ n.pc = "getWinner" => o.pc = "setnx"
      /\ n.pc = "cleanup" => o.pc = "getWinner" /\ r.type = "string"
                             /\ n.out = r.token
      /\ n.pc = "del" => o.pc = "exists"
      /\ n.pc \notin {"hmget", "exists"}
  <2>1. o.pc \in {"get", "hset", "expire", "setnx", "getWinner", "cleanup",
                 "hmget", "exists", "del"}
    BY <1>1 DEF Commands, Creates
  <2>2. n.pc \in {"hset", "expire", "setnx", "getWinner", "cleanup", "del",
                 "kOk", "kNotFound", "kUnavailable"}
    BY <1>7, <2>1
  <2>3. n.pc \in Commands \cup Results
    BY <2>2 DEF Commands, Creates, Results
  <2> QED BY <1>7, <2>1, <2>2, <2>3
<1>9. o.pc \in Creates => o.player \in Player
  BY <1>4 DEF CreateInv
<1>10. /\ Pending' \subseteq Pending \cup {Len(owner) + 1}
       /\ OfOthers(t)' = OfOthers(t) /\ OfLate' = OfLate
  <2>1. op \in [Thread -> OpType] /\ late' \subseteq late \cup {op[t]}
    BY <1>1, <1>2 DEF TypeInv
  <2> QED BY <1>0, <1>1, <1>8, <2>1, PendingStep DEF OfLate
<1>11. Moves
  <2>1. \/ owner' = owner
        \/ Len(owner) < MaxRequests /\ \E p \in Player : owner' = Append(owner, p)
    BY <1>1, <1>6, <1>8, <1>9 DEF Creates
  <2> QED BY <1>1, <1>2, <1>10, <2>1 DEF Moves, TypeInv
<1>12. /\ \A k : Generated(k) => Generated(k)' /\ owner'[k] = owner[k]
       /\ \A k : Ready(k) => Ready(k)'
       /\ \A q \in RequestId : \A k : Holds(q, k) => Holds(q, k)'
       /\ \A q, k : Generated(k) /\ Owned(q, k) => Owned(q, k)'
       /\ \A q, p : IdOf(q, p) => IdOf(q, p)'
  BY <1>11, Lasting DEF Inv, IdOf
<1>13. \A q, k : Holds(q, k) => Generated(k)
  BY DEF Holds, Ready
<1>14. CreateInv(t, n)'
  <2>1. op'[t] = n
    BY <1>1, <1>2 DEF TypeInv
  <2>2. n.pc \in Creates =>
          /\ o.pc \in Creates /\ n.player = o.player
          /\ n.rid = o.rid /\ (n.pc # "hset" => n.token = o.token)
    BY <1>1, <1>7, <1>8 DEF Commands, Creates
  <2>3. n.pc \in Creates => req'[t].kind = "login" /\ IdOf(n.rid, n.player)'
                           /\ n.player \in Player /\ req'[t].player = n.player
    BY <1>2, <1>4, <1>12, <2>2 DEF CreateInv
  <2>4. n.pc \in Creates => Generated(n.token)' /\ owner'[n.token] = n.player
    <3>1. CASE n.pc = "hset"
      <4>1. owner' = Append(owner, n.player) /\ owner \in Seq(Player)
            /\ n.player \in Player
        BY <1>1, <1>2, <1>8, <1>9, <3>1 DEF TypeInv, Creates
      <4>2. Len(owner') = Len(owner) + 1 /\ owner'[Len(owner) + 1] = n.player
            /\ Len(owner) \in Nat
        BY <4>1
      <4> QED BY <1>8, <3>1, <4>2 DEF Generated
    <3>2. CASE n.pc # "hset"
      <4>1. n.pc \in Creates =>
              Generated(o.token) /\ owner[o.token] = o.player
        BY <1>4, <1>8, <2>2, <3>2 DEF CreateInv, Creates
      <4> QED BY <1>12, <2>2, <3>2, <4>1
    <3> QED BY <3>1, <3>2
  <2>5. n.pc \in {"setnx", "getWinner", "cleanup"} => Ready(n.token)'
    BY <1>1, <1>4, <1>8, <1>12, <2>2 DEF CreateInv, Creates
  <2>6. n.pc \in {"hset", "expire"} =>
          n.token \notin OfLate' \cup OfOthers(t)'
    <3>1. CASE n.pc = "hset"
      <4>1. \A k \in OfLate : Generated(k)
        BY DEF OfLate, Inv, LateInv, CommandOK
      <4>2. \A k \in OfOthers(t) : Generated(k)
        BY DEF OfOthers, Inv, ThreadsInv, ThreadInv, CreateInv, Creates
      <4> QED BY <1>2, <1>8, <1>10, <3>1, <4>1, <4>2 DEF Generated, TypeInv
    <3>2. CASE n.pc = "expire"
      BY <1>4, <1>8, <1>10, <2>2, <3>2 DEF CreateInv, Creates
    <3> QED BY <3>1, <3>2
  <2>7. n.pc = "hset" => n.token \in Pending'
    BY <2>1 DEF Pending
  <2>8. n.pc \in Creates => CommandOK(n)'
    <3>1. n.pc = "setnx" => n.rid \in RequestId /\ Owned(n.rid, n.token)'
      BY <2>3, <2>4 DEF IdOf, Owned, Creates
    <3> QED BY <2>4, <2>5, <2>7, <3>1 DEF CommandOK, Creates
  <2>9. n.pc = "cleanup" => Holds(n.rid, n.out)' /\ Owned(n.rid, n.out)'
    BY <1>4, <1>5, <1>8, <1>12, <1>13, <2>2 DEF Creates
  <2> QED
    BY <1>7, <1>8, <2>3, <2>4, <2>5, <2>6, <2>8, <2>9 DEF CreateInv, Creates
<1>15. UseInv(t, n)'
  BY <1>2, <1>4, <1>7, <1>8 DEF UseInv
<1>16. n.pc \in Results => ResultInv(t, n)'
  <2> SUFFICES ASSUME n.pc \in Results
               PROVE  ResultInv(t, n)'
    OBVIOUS
  <2>1. CASE o.pc \in Creates
    <3>1. /\ req[t].kind = "login" /\ IdOf(o.rid, o.player)
          /\ req[t].player = o.player
      BY <1>4, <2>1 DEF CreateInv
    <3>2. n.pc = "kOk" => Holds(o.rid, n.token) /\ Owned(o.rid, n.token)
      <4>1. CASE o.pc = "get"
        BY <1>5, <1>7, <4>1
      <4>2. CASE o.pc = "setnx"
        <5>1. owner[o.token] = o.player
          BY <1>4, <4>2 DEF CreateInv, Creates
        <5> QED BY <1>4, <1>7, <3>1, <4>2, <5>1 DEF ReplyOK, IdOf, Owned
      <4>3. CASE o.pc = "cleanup"
        BY <1>4, <1>7, <4>3 DEF CreateInv
      <4> QED BY <1>7, <2>1, <4>1, <4>2, <4>3 DEF Creates, Results
    <3>3. n.pc = "kOk" => /\ Holds(o.rid, n.token)' /\ Owned(o.rid, n.token)'
                          /\ IdOf(o.rid, o.player)'
      BY <1>4, <1>12, <1>13, <2>1, <3>1, <3>2
    <3> QED BY <1>2, <1>7, <3>1, <3>3 DEF ResultInv
  <2>2. CASE o.pc = "hmget"
    <3>1. /\ req[t].kind \in {"me", "match", "room"} /\ req[t].token = o.token
          /\ Generated(o.token)
      BY <1>4, <2>2 DEF UseInv, ReqInv, ReqFits, Ready
    <3>2. IF r.player = NoPlayer THEN session[o.token] = NoSession
          ELSE r.player = owner[o.token]
      BY <1>4, <2>2 DEF ReplyOK
    <3> QED BY <1>1, <1>2, <1>7, <1>12, <2>2, <3>1, <3>2 DEF ResultInv
  <2>3. CASE o.pc = "del"
    <3>1. /\ req[t].kind = "logout" /\ req[t].token = o.token
          /\ session[o.token] = NoSession
      BY <1>1, <1>4, <2>3 DEF UseInv
    <3> QED BY <1>1, <1>2, <2>3, <3>1 DEF ResultInv
  <2> QED BY <1>1, <1>7, <2>1, <2>2, <2>3 DEF Commands, Creates, Results
<1>17. o.pc \in Creates =>
         \/ n.pc \in Creates /\ n.token = o.token
         \/ o.token \in left' \cup {NoToken}
         \/ session'[o.token] = NoSession
         \/ LongMapping => \E q \in RequestId : idem'[q] = o.token
  <2>1. CASE o.pc = "get"
    BY <1>4, <2>1 DEF CreateInv
  <2>2. CASE o.pc \in {"hset", "expire"}
    BY <1>7, <2>2 DEF Creates
  <2>3. CASE o.pc = "setnx"
    <3>1. CASE r.type = "status"
      <4>1. Holds(o.rid, o.token) /\ o.rid \in RequestId
        BY <1>4, <2>3, <3>1 DEF ReplyOK, Creates
      <4> QED BY <1>1, <4>1 DEF Holds
    <3>2. CASE r.type # "status"
      BY <1>7, <2>3, <3>2 DEF Creates
    <3> QED BY <3>1, <3>2
  <2>4. CASE o.pc = "getWinner"
    BY <1>1, <1>7, <2>4 DEF Creates
  <2>5. CASE o.pc = "cleanup"
    BY <1>1, <1>4, <2>5 DEF CreateInv
  <2> QED BY <2>1, <2>2, <2>3, <2>4, <2>5 DEF Creates
<1> QED
  <2>1. left \subseteq left'
    BY <1>1
  <2>2. wire' \in Seq(ReplyType)
    BY <1>3
  <2>3. \/ n.pc \in Commands /\ mutex' = t
        \/ n.pc \in Results /\ mutex' = NoThread
    BY <1>1, <1>8 DEF Holder, Results, Commands, Creates
  <2>4. owner' = owner \/ (o.pc = "get" /\ n.pc # "get")
    BY <1>1, <1>8
  <2> QED
    BY <1>0, <1>1, <1>3, <1>7, <1>8, <1>11, <1>14, <1>15, <1>16, <1>17,
       <2>1, <2>2, <2>3, <2>4, StoreCallInv

-----------------------------------------------------------------------------
(* Redis on its own.                                                       *)

\* Keys expire and late commands are executed, and no thread takes part.
LEMMA RedisInv ==
    ASSUME Inv, Moves, UNCHANGED <<wire, mutex, op, owner, left>>,
           UNCHANGED gatewayVars, late' \subseteq late
    PROVE  Inv'
<1>1. UNCHANGED <<req, given, ended, served>>
  BY DEF gatewayVars
<1>2. TypeInv'
  BY <1>1 DEF Inv, TypeInv, Moves
<1>3. SessionInv' /\ IdemInv'
  BY Lasting DEF Inv
<1>4. LateInv'
  BY LateStep
<1>5. GivenInv' /\ EndedInv'
  BY <1>1, GivenStep
<1>6. StrayInv'
  BY StrayStep
<1>7. LockInv' /\ CountInv'
  BY <1>1 DEF Inv, LockInv, CountInv, Drawing
<1>8. ASSUME NEW u \in Thread
      PROVE  ThreadInv(u)'
  <2>1. OfLate' \cup OfOthers(u)' \subseteq OfLate \cup OfOthers(u)
    BY DEF OfLate, OfOthers
  <2> QED BY <1>1, <2>1, OtherThread
<1> QED BY <1>2, <1>3, <1>4, <1>5, <1>6, <1>7, <1>8 DEF Inv, ThreadsInv

\* A command of a dropped connection that Redis executes late.
LEMMA LateCommandInv ==
    ASSUME Inv, NEW c \in late, LateCommand(c), UNCHANGED gatewayVars
    PROVE  Inv'
<1>1. /\ Execute(c) /\ late' \subseteq late
      /\ UNCHANGED <<wire, mutex, op, owner, left>>
  BY DEF LateCommand
<1>2. c \in OpType /\ c.pc \in Commands /\ CommandOK(c)
  BY DEF Inv, TypeInv, LateInv, Writes, Commands, Creates
<1>3. Pending' \subseteq Pending
  BY <1>1 DEF Pending, OfLate
<1>4. Moves
  BY <1>1, <1>2, <1>3, ExecuteMoves
<1> QED BY <1>1, <1>4, RedisInv

\* A TTL that runs out, of a session or of a mapping.
LEMMA ExpiryInv ==
    ASSUME Inv, Expiry, UNCHANGED gatewayVars
    PROVE  Inv'
<1>1. /\ session \in [Token -> SessionType] /\ idem \in [RequestId -> AnyToken]
      /\ NoSession \in SessionType
  BY Ranges DEF Inv, TypeInv, NoSession, SessionType
<1>2. ASSUME NEW k \in Token, SessionExpires(k)
      PROVE  Inv'
  <2>1. /\ session' = [session EXCEPT ![k] = NoSession]
        /\ UNCHANGED <<idem, late, wire, mutex, op, owner, left>>
    BY <1>2 DEF SessionExpires
  <2>2. Pending' = Pending
    BY <2>1 DEF Pending, OfLate
  <2>3. Moves
    BY <1>1, <2>1, <2>2 DEF Moves
  <2> QED BY <2>1, <2>3, RedisInv
<1>3. ASSUME NEW r \in RequestId, MappingExpires(r)
      PROVE  Inv'
  <2>1. /\ idem' = [idem EXCEPT ![r] = NoToken]
        /\ session[idem[r]] = NoSession \/ IdempotencyTtl < session_ttl_seconds
        /\ UNCHANGED <<session, late, wire, mutex, op, owner, left>>
    BY <1>3 DEF MappingExpires
  <2>2. Pending' = Pending
    BY <2>1 DEF Pending, OfLate
  <2>3. LongMapping => session[idem[r]] = NoSession
    BY <2>1, StoreAssumption DEF LongMapping, IdempotencyTtl
  <2>4. Moves
    BY <1>1, <2>1, <2>2, <2>3, Ranges DEF Moves
  <2> QED BY <2>1, <2>4, RedisInv
<1> QED BY <1>2, <1>3 DEF Expiry

-----------------------------------------------------------------------------
(* The handlers.                                                           *)

\* A step of a handler: it begins a store call, takes its result, or answers.
LEMMA HandlerInv ==
    ASSUME Inv, UNCHANGED <<session, idem, late, wire, mutex, owner, left>>,
           NEW t \in Thread, NEW n \in OpType, NEW q \in ReqType,
           op' = [op EXCEPT ![t] = n], req' = [req EXCEPT ![t] = q],
           op[t].pc \in {"none"} \cup Results,
           n.pc \in {"none", "get", "hmget", "exists"}, ~n.sent,
           given' \in SUBSET GrantType, ended' \in SUBSET Token,
           \A g \in given' : \/ g \in given
                             \/ /\ Holds(g.rid, g.token) /\ Owned(g.rid, g.token)
                                /\ IdOf(g.rid, g.player),
           \A k \in ended' : k \in ended \/ (Ready(k) /\ session[k] = NoSession),
           served' \in 0..MaxRequests, served' >= served,
           n.pc = "get" => served' = served + 1,
           Moves => CreateInv(t, n)' /\ UseInv(t, n)',
           ReqFits(q, n)
    PROVE  Inv'
<1>1. TypeInv /\ LockInv /\ CountInv
  BY DEF Inv
<1>2. /\ op'[t] = n /\ req'[t] = q
      /\ \A u \in Thread \ {t} : op'[u] = op[u] /\ req'[u] = req[u]
  BY <1>1 DEF TypeInv
<1>3. /\ op[t].pc \notin Commands /\ op[t].pc # "get" /\ op[t].pc # "hset"
      /\ op[t].pc \notin Creates /\ n.pc # "hset" /\ n.pc \notin Results
  BY DEF Results, Commands, Creates
<1>4. /\ Pending' \subseteq Pending
      /\ \A u \in Thread \ {t} :
           OfLate' \cup OfOthers(u)' \subseteq
              OfLate \cup OfOthers(u) \cup {Len(owner) + 1}
  BY <1>1, <1>3, PendingStep DEF TypeInv
<1>5. Moves
  BY <1>4, StillMoves
<1>6. TypeInv'
  BY <1>1 DEF TypeInv
<1>7. SessionInv' /\ IdemInv'
  BY <1>5, Lasting DEF Inv
<1>8. LateInv'
  BY <1>5, LateStep
<1>9. GivenInv' /\ EndedInv'
  BY <1>5, GivenStep
<1>10. StrayInv'
  <2>1. \A u \in Thread : op[u].pc \in Creates =>
           op'[u].pc \in Creates /\ op'[u].token = op[u].token
    BY <1>2, <1>3
  <2> QED BY <1>5, <2>1, StrayStep
<1>11. LockInv'
  <2>1. mutex # t /\ (mutex # NoThread => mutex \in Thread)
    BY <1>1, <1>3, Ranges DEF LockInv, TypeInv
  <2> QED BY <1>1, <1>2, <1>3, <2>1 DEF LockInv, Commands, Creates
<1>12. CountInv'
  <2>1. /\ IsFiniteSet(Drawing) /\ Cardinality(Drawing) \in Nat
        /\ Len(owner) \in Nat /\ served \in Nat /\ served' \in Nat
        /\ Len(owner) + Cardinality(Drawing) <= served
    BY <1>1, FS_CardinalityType DEF CountInv, TypeInv
  <2>2. CASE n.pc # "get"
    <3>1. Drawing' = Drawing
      BY <1>2, <1>3, <2>2 DEF Drawing
    <3> QED BY <2>1, <3>1 DEF CountInv
  <2>3. CASE n.pc = "get"
    <3>1. Drawing' = Drawing \cup {t} /\ t \notin Drawing
      BY <1>2, <1>3, <2>3 DEF Drawing
    <3>2. /\ IsFiniteSet(Drawing \cup {t})
          /\ Cardinality(Drawing \cup {t}) = Cardinality(Drawing) + 1
      BY <2>1, <3>1, FS_AddElement
    <3> QED BY <2>1, <2>3, <3>1, <3>2 DEF CountInv
  <2> QED BY <2>2, <2>3
<1>13. ThreadsInv'
  <2>1. ASSUME NEW u \in Thread \ {t}
        PROVE  ThreadInv(u)'
    BY <1>2, <1>4, <1>5, <2>1, OtherThread
  <2>2. ReqInv(t)'
    <3>1. /\ \A k : Generated(k) => owner'[k] = owner[k]
          /\ \A k : Ready(k) => Ready(k)'
      BY <1>5, Lasting DEF Inv
    <3> QED BY <1>2, <3>1 DEF ReqInv, ReqFits
  <2>3. CreateInv(t, op[t])' /\ UseInv(t, op[t])'
    BY <1>2, <1>5
  <2>4. ThreadInv(t)'
    BY <1>2, <1>3, <2>2, <2>3 DEF ThreadInv
  <2> QED BY <2>1, <2>4 DEF ThreadsInv
<1> QED BY <1>6, <1>7, <1>8, <1>9, <1>10, <1>11, <1>12, <1>13 DEF Inv

\* No error of a backend and no failed lookup becomes a 401.
LEMMA Codes ==
    /\ \A code : HttpStatusOf(code) \in Status
    /\ \A code : HandleMatchFailure(code) \in Status \ {401}
    /\ \A code : HandleRoomFailure(code) \in Status \ {401}
    /\ \A found : FindByPlayerId(found) \in Status \ {401}
BY DEF HttpStatusOf, HandleMatchFailure, HandleRoomFailure, FindByPlayerId,
       Status

\* The fields of an idle thread.
LEMMA IdleFields ==
    /\ Idle \in ReqType /\ Idle.stage = "idle" /\ Idle.kind = "none"
    /\ Idle.token = NoToken /\ Idle.player = NoPlayer /\ Idle.status = 0
    /\ NoCall \in OpType /\ NoCall.pc = "none" /\ ~NoCall.sent
<1>1. "none" \in Pc
  BY DEF Pc
<1> QED
  BY <1>1, Ranges DEF Idle, ReqType, Stage, Kind, Status, NoCall, OpType

\* A request without a store call: a refusal, an answer to a backend's answer,
\* or the end of the request.
LEMMA QuietInv ==
    ASSUME Inv, UNCHANGED storeVars, NEW t \in Thread, NEW q \in ReqType,
           req' = [req EXCEPT ![t] = q], req[t].stage # "store",
           UNCHANGED <<given, ended>>, served' \in 0..MaxRequests,
           served' >= served, ReqFits(q, op[t])
    PROVE  Inv'
<1>1. PICK n : n = op[t]
  OBVIOUS
<1>2. TypeInv /\ LockInv /\ ReqInv(t)
  BY DEF Inv, ThreadsInv, ThreadInv
<1>3. n \in OpType /\ n.pc = "none"
  BY <1>1, <1>2 DEF TypeInv, ReqInv, ReqFits
<1>4. ~n.sent
  BY <1>1, <1>2, <1>3 DEF LockInv, Commands, Creates
<1>5. op' = [op EXCEPT ![t] = n]
  BY <1>1, <1>2 DEF storeVars, TypeInv
<1>6. CreateInv(t, n)' /\ UseInv(t, n)'
  BY <1>3 DEF CreateInv, UseInv, Creates
<1>7. given' \in SUBSET GrantType /\ ended' \in SUBSET Token
  BY <1>2 DEF TypeInv
<1> QED
  BY <1>1, <1>3, <1>4, <1>5, <1>6, <1>7, HandlerInv DEF storeVars

\* A request that is answered without a call to the store.
LEMMA RefuseInv ==
    ASSUME Inv, NEW t \in Thread, Arrives(t), NEW code, Refuse(t, code),
           UNCHANGED <<given, ended>>
    PROVE  Inv'
<1>1. PICK status, q : /\ status \in Status
                       /\ q = [Idle EXCEPT !.stage = "answered", !.status = status]
                       /\ req' = [req EXCEPT ![t] = q]
  BY Codes DEF Arrives, Refuse, Answer, Asks
<1>2. /\ q \in ReqType /\ q.stage = "answered" /\ q.kind = "none"
      /\ q.token = NoToken
  BY <1>1, IdleFields DEF ReqType, Stage
<1>3. TypeInv /\ ReqInv(t) /\ req[t] = Idle
  BY DEF Inv, ThreadsInv, ThreadInv, Arrives
<1>4. ReqFits(q, op[t])
  BY <1>2, <1>3, IdleFields DEF ReqInv, ReqFits
<1>5. served' \in 0..MaxRequests /\ served' >= served
  BY <1>3, Ranges DEF Arrives, TypeInv
<1> QED BY <1>1, <1>2, <1>3, <1>4, <1>5, IdleFields, QuietInv DEF Refuse

\* A request that goes to the session store.
LEMMA BeginInv ==
    ASSUME Inv, NEW t \in Thread, Arrives(t), NEW n \in OpType, NEW q \in ReqType,
           op' = [op EXCEPT ![t] = n], req' = [req EXCEPT ![t] = q],
           UNCHANGED <<session, idem, late, wire, mutex, owner, left, given, ended>>,
           n.pc \in {"get", "hmget", "exists"}, ~n.sent,
           q.stage = "store", q.status = 0,
           IF n.pc = "get"
           THEN /\ q.kind = "login" /\ q.player \in Player /\ n.player = q.player
                /\ IdOf(n.rid, n.player) /\ n.token = NoToken /\ q.token = NoToken
           ELSE /\ n.pc = "hmget" => q.kind \in {"me", "match", "room"}
                /\ n.pc = "exists" => q.kind = "logout"
                /\ q.token \in Known /\ n.token = q.token /\ q.player = NoPlayer
    PROVE  Inv'
<1>1. TypeInv /\ ReqInv(t) /\ GivenInv
  BY DEF Inv, ThreadsInv, ThreadInv
<1>2. op[t].pc = "none"
  BY <1>1, IdleFields DEF Arrives, ReqInv, ReqFits
<1>3. req'[t] = q
  BY <1>1 DEF TypeInv
<1>4. \A k \in Known : Ready(k) /\ k # NoToken
  BY <1>1, Ranges DEF Known, GivenInv, Holds
<1>5. ReqFits(q, n)
  BY <1>4 DEF ReqFits
<1>6. CreateInv(t, n)'
  BY <1>3 DEF CreateInv, Creates, IdOf
<1>7. UseInv(t, n)'
  BY <1>3 DEF UseInv
<1>8. served' \in 0..MaxRequests /\ served' >= served /\ served' = served + 1
  BY <1>1, Ranges DEF Arrives, TypeInv
<1>9. given' \in SUBSET GrantType /\ ended' \in SUBSET Token
  BY <1>1 DEF TypeInv
<1> QED BY <1>2, <1>5, <1>6, <1>7, <1>8, <1>9, HandlerInv

\* A login: refused, or on its way to CreateSession.
LEMMA LoginInv ==
    ASSUME Inv, NEW t \in Thread, NEW p \in Player, NEW r \in IdsOf(p),
           Login(t, p, r)
    PROVE  Inv'
<1>1. Arrives(t) /\ UNCHANGED <<given, ended>>
  BY DEF Login
<1>2. ASSUME NEW code, Refuse(t, code)
      PROVE  Inv'
  BY <1>1, <1>2, RefuseInv
<1>3. CASE /\ Asks(t, [Idle EXCEPT !.stage = "store", !.kind = "login",
                                   !.player = p])
           /\ CreateSession(t, r, p)
           /\ UNCHANGED <<session, idem, late, wire, mutex, owner, left, faults>>
  <2>1. PICK q, n :
          /\ q = [Idle EXCEPT !.stage = "store", !.kind = "login", !.player = p]
          /\ n = [NoCall EXCEPT !.pc = "get", !.rid = r, !.player = p]
          /\ req' = [req EXCEPT ![t] = q] /\ op' = [op EXCEPT ![t] = n]
    BY <1>3 DEF Asks, CreateSession, Call
  <2>2. /\ q \in ReqType /\ q.stage = "store" /\ q.kind = "login"
        /\ q.player = p /\ q.token = NoToken /\ q.status = 0
    <3>1. "store" \in Stage /\ "login" \in Kind
      BY DEF Stage, Kind
    <3> QED BY <2>1, <3>1, IdleFields, Ranges DEF ReqType
  <2>3. r \in RequestId /\ IdOf(r, p)
    BY StoreAssumption DEF IdsOf, RequestId, IdOf
  <2>4. "get" \in Pc
    BY DEF Pc, Commands, Creates
  <2>5. /\ n \in OpType /\ n.pc = "get" /\ n.rid = r /\ n.player = p
        /\ n.token = NoToken /\ ~n.sent
    BY <2>1, <2>3, <2>4, Ranges DEF NoCall, OpType
  <2> QED BY <1>1, <1>3, <2>1, <2>2, <2>3, <2>5, BeginInv
<1> QED
  <2>1. CASE \E code : Refuse(t, code)
    BY <1>2, <2>1
  <2> QED BY <1>3, <2>1 DEF Login

\* A logout: refused, or on its way to DeleteSession.
LEMMA LogoutInv ==
    ASSUME Inv, NEW t \in Thread, NEW k \in Known, Logout(t, k)
    PROVE  Inv'
<1>1. Arrives(t) /\ UNCHANGED <<given, ended>>
  BY DEF Logout
<1>2. CASE \E code : Refuse(t, code)
  BY <1>1, <1>2, RefuseInv
<1>3. CASE /\ Asks(t, [Idle EXCEPT !.stage = "store", !.kind = "logout",
                                   !.token = k])
           /\ DeleteSession(t, k)
           /\ UNCHANGED <<session, idem, late, wire, mutex, owner, left, faults>>
  <2>1. PICK q, n :
          /\ q = [Idle EXCEPT !.stage = "store", !.kind = "logout", !.token = k]
          /\ n = [NoCall EXCEPT !.pc = "exists", !.token = k]
          /\ req' = [req EXCEPT ![t] = q] /\ op' = [op EXCEPT ![t] = n]
    BY <1>3 DEF Asks, DeleteSession, Call
  <2>2. k \in AnyToken
    BY Ranges DEF Known
  <2>3. /\ q \in ReqType /\ q.stage = "store" /\ q.kind = "logout"
        /\ q.player = NoPlayer /\ q.token = k /\ q.status = 0
    <3>1. "store" \in Stage /\ "logout" \in Kind
      BY DEF Stage, Kind
    <3> QED BY <2>1, <2>2, <3>1, IdleFields DEF ReqType
  <2>4. "exists" \in Pc
    BY DEF Pc, Commands
  <2>5. n \in OpType /\ n.pc = "exists" /\ n.token = k /\ ~n.sent
    BY <2>1, <2>2, <2>4, Ranges DEF NoCall, OpType
  <2> QED BY <1>1, <1>3, <2>1, <2>3, <2>5, BeginInv
<1> QED BY <1>2, <1>3 DEF Logout

\* A call for a logged-in player: refused, or on its way to GetSession.
LEMMA ResolveInv ==
    ASSUME Inv, NEW t \in Thread, NEW k \in Known,
           NEW kind \in {"me", "match", "room"}, Resolve(t, k, kind)
    PROVE  Inv'
<1>1. Arrives(t) /\ UNCHANGED <<given, ended>>
  BY DEF Resolve
<1>2. CASE \E code : Refuse(t, code)
  BY <1>1, <1>2, RefuseInv
<1>3. CASE /\ Asks(t, [Idle EXCEPT !.stage = "store", !.kind = kind, !.token = k])
           /\ GetSession(t, k)
           /\ UNCHANGED <<session, idem, late, wire, mutex, owner, left, faults>>
  <2>1. PICK q, n :
          /\ q = [Idle EXCEPT !.stage = "store", !.kind = kind, !.token = k]
          /\ n = [NoCall EXCEPT !.pc = "hmget", !.token = k]
          /\ req' = [req EXCEPT ![t] = q] /\ op' = [op EXCEPT ![t] = n]
    BY <1>3 DEF Asks, GetSession, Call
  <2>2. k \in AnyToken /\ kind \in Kind
    BY Ranges DEF Known, Kind
  <2>3. /\ q \in ReqType /\ q.stage = "store" /\ q.kind = kind
        /\ q.player = NoPlayer /\ q.token = k /\ q.status = 0
    <3>1. "store" \in Stage
      BY DEF Stage
    <3> QED BY <2>1, <2>2, <3>1, IdleFields DEF ReqType
  <2>4. "hmget" \in Pc
    BY DEF Pc, Commands
  <2>5. n \in OpType /\ n.pc = "hmget" /\ n.token = k /\ ~n.sent
    BY <2>1, <2>2, <2>4, Ranges DEF NoCall, OpType
  <2> QED BY <1>1, <1>3, <2>1, <2>3, <2>5, BeginInv
<1> QED BY <1>2, <1>3 DEF Resolve

\* Every request that arrives.
LEMMA RequestInv ==
    ASSUME Inv, NEW t \in Thread, Request(t)
    PROVE  Inv'
<1>1. CASE \E p \in Player : \E r \in IdsOf(p) : Login(t, p, r)
  BY <1>1, LoginInv
<1>2. ASSUME NEW k \in Known, Logout(t, k)
      PROVE  Inv'
  BY <1>2, LogoutInv
<1>3. CASE RejectIfShuttingDown(t)
  <2>1. PICK code : Refuse(t, code)
    BY <1>3 DEF RejectIfShuttingDown
  <2> QED BY <1>3, <2>1, RefuseInv DEF RejectIfShuttingDown
<1>4. ASSUME NEW k \in Known, \E kind \in {"me", "match", "room"} :
                                 Resolve(t, k, kind)
      PROVE  Inv'
  BY <1>4, ResolveInv
<1> QED
  <2>1. ASSUME NEW k \in Known,
               \/ GetCurrentPlayer(t, k)
               \/ EnqueueMatch(t, k) \/ GetMatchStatus(t, k) \/ CancelMatch(t, k)
               \/ JoinRoom(t, k) \/ SubmitInput(t, k)
               \/ GetRoomState(t, k) \/ GetMatchResult(t, k)
        PROVE  \/ RejectIfShuttingDown(t)
               \/ \E kind \in {"me", "match", "room"} : Resolve(t, k, kind)
    BY <2>1 DEF GetCurrentPlayer, EnqueueMatch, GetMatchStatus, CancelMatch,
           JoinRoom, SubmitInput, GetRoomState, GetMatchResult, Read, Write
  <2> QED BY <1>1, <1>2, <1>3, <1>4, <2>1 DEF Request

\* The result of a store call is taken, and the client told.
LEMMA StoreAnsweredInv ==
    ASSUME Inv, NEW t \in Thread, StoreAnswered(t)
    PROVE  Inv'
<1>1. /\ req[t].stage = "store" /\ op[t].pc \in Results
      /\ op' = [op EXCEPT ![t] = NoCall]
      /\ UNCHANGED <<session, idem, late, wire, mutex, owner, left, served>>
  BY DEF StoreAnswered
<1>2. TypeInv /\ ReqInv(t) /\ ResultInv(t, op[t]) /\ req[t] \in ReqType
      /\ op[t] \in OpType
  BY <1>1 DEF Inv, ThreadsInv, ThreadInv, TypeInv
<1>3. /\ given \in SUBSET GrantType /\ ended \in SUBSET Token
      /\ served' \in 0..MaxRequests /\ served' >= served
  BY <1>1, <1>2, Ranges DEF TypeInv
<1>4. /\ CreateInv(t, NoCall)' /\ UseInv(t, NoCall)'
      /\ NoCall \in OpType /\ NoCall.pc = "none" /\ ~NoCall.sent
  <2>1. PICK n : n = NoCall
    OBVIOUS
  <2>2. CreateInv(t, n)' /\ UseInv(t, n)'
    BY <2>1, IdleFields DEF CreateInv, UseInv, Creates
  <2> QED BY <2>1, <2>2, IdleFields
<1>5. ASSUME NEW status \in Status, Answer(t, status),
             status = 401 /\ req[t].token # NoToken =>
                session[req[t].token] = NoSession,
             given' \in SUBSET GrantType, ended' \in SUBSET Token,
             \A g \in given' : \/ g \in given
                               \/ /\ Holds(g.rid, g.token) /\ Owned(g.rid, g.token)
                                  /\ IdOf(g.rid, g.player),
             \A k \in ended' : k \in ended \/ (Ready(k) /\ session[k] = NoSession)
      PROVE  Inv'
  <2>1. PICK q : /\ q = [req[t] EXCEPT !.stage = "answered", !.status = status]
                 /\ req' = [req EXCEPT ![t] = q]
    BY <1>5 DEF Answer, Asks
  <2>2. /\ q \in ReqType /\ q.stage = "answered" /\ q.kind = req[t].kind
        /\ q.token = req[t].token /\ q.player = req[t].player
        /\ q.status = status
    <3>1. "answered" \in Stage
      BY DEF Stage
    <3> QED BY <1>2, <2>1, <3>1 DEF ReqType
  <2>3. ReqFits(q, NoCall)
    BY <1>2, <1>4, <1>5, <2>2 DEF ReqInv, ReqFits
  <2> QED BY <1>1, <1>3, <1>4, <1>5, <2>1, <2>2, <2>3, HandlerInv
<1>6. CASE LoginStored(t)
  <2>1. req[t].kind = "login" /\ UNCHANGED ended
    BY <1>6 DEF LoginStored
  <2>2. CASE op[t].pc = "kOk"
    <3>1. PICK g, status :
            /\ status = 200 /\ Answer(t, status) /\ given' = given \cup {g}
            /\ g = [rid |-> op[t].rid, player |-> req[t].player,
                    token |-> op[t].token]
      BY <1>6, <2>2 DEF LoginStored
    <3>2. /\ Holds(op[t].rid, op[t].token) /\ Owned(op[t].rid, op[t].token)
          /\ IdOf(op[t].rid, req[t].player) /\ req[t].player \in Player
      BY <1>1, <1>2, <2>1, <2>2 DEF ResultInv, ReqInv, ReqFits
    <3>3. op[t].token \in Token /\ op[t].rid \in RequestId
      BY <1>2, <3>2, Ranges DEF Holds, Ready, Generated, TypeInv, Token, IdOf
    <3>4. g \in GrantType /\ g.rid = op[t].rid /\ g.player = req[t].player
          /\ g.token = op[t].token
      BY <3>1, <3>2, <3>3 DEF GrantType
    <3>5. status \in Status /\ status # 401
      BY <3>1 DEF Status
    <3> QED BY <1>3, <1>5, <2>1, <3>1, <3>2, <3>4, <3>5
  <2>3. CASE op[t].pc # "kOk"
    <3>1. PICK status : status = 503 /\ Answer(t, status)
      BY <1>6, <2>3 DEF LoginStored, HttpStatusOf
    <3>2. status \in Status /\ status # 401 /\ UNCHANGED given
      BY <1>6, <2>3, <3>1 DEF Status, LoginStored
    <3> QED BY <1>3, <1>5, <2>1, <3>1, <3>2
  <2> QED BY <2>2, <2>3
<1>7. CASE LogoutStored(t)
  <2>1. req[t].kind = "logout" /\ UNCHANGED given
    BY <1>7 DEF LogoutStored
  <2>2. CASE op[t].pc = "kUnavailable"
    <3>1. PICK status : status = 503 /\ Answer(t, status)
      BY <1>7, <2>2 DEF LogoutStored, HttpStatusOf
    <3>2. status \in Status /\ status # 401 /\ UNCHANGED ended
      BY <1>7, <2>2, <3>1 DEF Status, LogoutStored
    <3> QED BY <1>3, <1>5, <2>1, <3>1, <3>2
  <2>3. CASE op[t].pc # "kUnavailable"
    <3>1. PICK status : /\ status = 200 /\ Answer(t, status)
                        /\ ended' = ended \cup {req[t].token}
      BY <1>7, <2>3 DEF LogoutStored
    <3>2. /\ Ready(req[t].token) /\ session[req[t].token] = NoSession
          /\ req[t].token \in Token
      BY <1>1, <1>2, <2>1, <2>3, Ranges
      DEF ResultInv, ReqInv, ReqFits, Results, ReqType
    <3>3. status \in Status /\ status # 401
      BY <3>1 DEF Status
    <3> QED BY <1>3, <1>5, <2>1, <3>1, <3>2, <3>3
  <2> QED BY <2>2, <2>3
<1>8. CASE Resolved(t)
  <2>1. req[t].kind \in {"me", "match", "room"} /\ UNCHANGED <<given, ended>>
    BY <1>8 DEF Resolved
  <2>2. CASE \E status \in Status \ {401} : Answer(t, status)
    BY <1>3, <1>5, <2>1, <2>2
  <2>3. CASE op[t].pc = "kNotFound" /\ Answer(t, 401)
    <3>1. session[req[t].token] = NoSession
      BY <1>2, <2>1, <2>3 DEF ResultInv
    <3>2. PICK status : status = 401 /\ status \in Status /\ Answer(t, status)
      BY <2>3 DEF Status
    <3> QED BY <1>3, <1>5, <2>1, <3>1, <3>2
  <2>4. CASE /\ op[t].pc = "kOk" /\ req[t].kind # "me"
             /\ Asks(t, [req[t] EXCEPT !.stage = "call", !.player = op[t].player])
    <3>1. PICK q :
            /\ q = [req[t] EXCEPT !.stage = "call", !.player = op[t].player]
            /\ req' = [req EXCEPT ![t] = q]
      BY <2>4 DEF Asks
    <3>2. /\ q \in ReqType /\ q.stage = "call" /\ q.kind = req[t].kind
          /\ q.token = req[t].token /\ q.player = op[t].player
          /\ q.status = req[t].status
      <4>1. "call" \in Stage /\ op[t].player \in AnyPlayer
        BY <1>2 DEF Stage, OpType
      <4> QED BY <1>2, <3>1, <4>1 DEF ReqType
    <3>3. op[t].player = owner[req[t].token]
      BY <1>2, <2>1, <2>4 DEF ResultInv
    <3>4. ReqFits(q, NoCall)
      BY <1>2, <1>4, <2>1, <3>2, <3>3 DEF ReqInv, ReqFits
    <3> QED BY <1>1, <1>3, <1>4, <2>1, <3>1, <3>2, <3>4, HandlerInv
  <2> QED
    <3>1. /\ HttpStatusOf("UNAVAILABLE") = 503
          /\ HttpStatusOf("UNAUTHENTICATED") = 401
          /\ HttpStatusOf("INVALID_ARGUMENT") = 400
      BY DEF HttpStatusOf
    <3>2. 503 \in Status \ {401} /\ 400 \in Status \ {401}
      BY DEF Status
    <3> QED BY <1>8, <2>2, <2>3, <2>4, <3>1, <3>2, Codes DEF Resolved
<1> QED BY <1>6, <1>7, <1>8 DEF StoreAnswered

\* The backend has answered, or has not.
LEMMA CallBackendInv ==
    ASSUME Inv, NEW t \in Thread, CallBackend(t)
    PROVE  Inv'
<1>1. TypeInv /\ ReqInv(t) /\ req[t] \in ReqType
  BY DEF Inv, ThreadsInv, ThreadInv, TypeInv
<1>2. /\ req[t].stage = "call" /\ UNCHANGED storeVars
      /\ UNCHANGED <<given, ended, served>>
  BY DEF CallBackend
<1>3. PICK status : status \in Status \ {401} /\ Answer(t, status)
  BY Codes DEF CallBackend
<1>4. PICK q : /\ q = [req[t] EXCEPT !.stage = "answered", !.status = status]
               /\ req' = [req EXCEPT ![t] = q]
  BY <1>3 DEF Answer, Asks
<1>5. /\ q \in ReqType /\ q.stage = "answered" /\ q.kind = req[t].kind
      /\ q.token = req[t].token /\ q.player = req[t].player
      /\ q.status = status
  <2>1. "answered" \in Stage
    BY DEF Stage
  <2> QED BY <1>1, <1>3, <1>4, <2>1 DEF ReqType
<1>6. ReqFits(q, op[t])
  BY <1>1, <1>2, <1>3, <1>5 DEF ReqInv, ReqFits
<1>7. served' \in 0..MaxRequests /\ served' >= served
  BY <1>1, <1>2, Ranges DEF TypeInv
<1> QED BY <1>2, <1>4, <1>5, <1>6, <1>7, QuietInv

\* The answer leaves, and the thread is free for the next request.
LEMMA FinishInv ==
    ASSUME Inv, NEW t \in Thread, Finish(t)
    PROVE  Inv'
<1>1. TypeInv /\ ReqInv(t)
  BY DEF Inv, ThreadsInv, ThreadInv
<1>2. /\ req[t].stage = "answered" /\ UNCHANGED storeVars
      /\ UNCHANGED <<given, ended, served>> /\ req' = [req EXCEPT ![t] = Idle]
  BY DEF Finish, Asks
<1>3. ReqFits(Idle, op[t])
  BY <1>1, <1>2, IdleFields DEF ReqInv, ReqFits
<1>4. served' \in 0..MaxRequests /\ served' >= served
  BY <1>1, <1>2, Ranges DEF TypeInv
<1> QED BY <1>2, <1>3, <1>4, IdleFields, QuietInv

-----------------------------------------------------------------------------
(* The process.                                                            *)

\* A step that changes nothing the invariant is about.
LEMMA IdleInv ==
    ASSUME Inv, UNCHANGED <<storeVars, req, given, ended, served>>
    PROVE  Inv'
<1>1. UNCHANGED <<session, idem, late, wire, mutex, op, owner, left>>
  BY DEF storeVars
<1>2. OfLate' = OfLate /\ Pending' = Pending
  BY <1>1 DEF OfLate, Pending
<1>3. Moves
  BY <1>1, <1>2, StillMoves
<1>4. TypeInv' /\ LockInv' /\ CountInv'
  BY <1>1 DEF Inv, TypeInv, LockInv, CountInv, Drawing
<1>5. SessionInv' /\ IdemInv' /\ LateInv' /\ GivenInv' /\ EndedInv' /\ StrayInv'
  BY <1>1, <1>3, Lasting, LateStep, GivenStep, StrayStep DEF Inv
<1>6. ASSUME NEW u \in Thread
      PROVE  ThreadInv(u)'
  <2>1. OfOthers(u)' = OfOthers(u)
    BY <1>1 DEF OfOthers
  <2> QED BY <1>1, <1>2, <1>3, <2>1, OtherThread
<1> QED BY <1>4, <1>5, <1>6 DEF Inv, ThreadsInv

\* All calls are forgotten; one of them may have left a command behind.
LEMMA RestartInv ==
    ASSUME Inv, Restart
    PROVE  Inv'
<1>1. /\ wire' = <<>> /\ mutex' = NoThread /\ op' = [t \in Thread |-> NoCall]
      /\ left' = left \cup {op[t].token : t \in {u \in Thread :
                                   op[u].pc \in Creates \ {"get"}}}
      /\ req' = [t \in Thread |-> Idle]
      /\ UNCHANGED <<session, idem, owner, given, ended, served>>
  BY DEF Restart, StoreCrash
<1>2. \/ late' = late
      \/ \E t \in Thread : op[t].pc \in Writes /\ late' = late \cup {op[t]}
  BY DEF Restart, StoreCrash
<1>3. TypeInv /\ CountInv
  BY DEF Inv
<1>4. \A t \in Thread : op'[t] = NoCall /\ req'[t] = Idle
  BY <1>1
<1>5. Pending' \subseteq Pending
  <2>1. Pending' \subseteq OfLate'
    BY <1>4, IdleFields DEF Pending
  <2>2. OfLate' \subseteq Pending
    BY <1>2 DEF OfLate, Pending
  <2> QED BY <2>1, <2>2
<1>6. Moves
  BY <1>1, <1>5, StillMoves
<1>7. TypeInv'
  <2>1. late' \in SUBSET OpType
    BY <1>2, <1>3 DEF TypeInv
  <2>2. op' \in [Thread -> OpType] /\ req' \in [Thread -> ReqType]
    BY <1>1, IdleFields
  <2> QED BY <1>1, <1>3, <2>1, <2>2 DEF TypeInv
<1>8. SessionInv' /\ IdemInv'
  BY <1>6, Lasting DEF Inv
<1>9. LateInv'
  <2>1. ASSUME NEW t \in Thread, op[t].pc \in Writes
        PROVE  CommandOK(op[t]) /\ (op[t].pc = "hset" => op[t].token \in left')
    BY <1>1, <2>1, OpCommand DEF Writes, Commands, Creates
  <2> QED BY <1>1, <1>2, <1>6, <2>1, LateStep
<1>10. GivenInv' /\ EndedInv'
  BY <1>1, <1>6, GivenStep
<1>11. StrayInv'
  <2>1. \A t \in Thread : op[t].pc \in Creates =>
           op[t].token \in left' \cup {NoToken}
    BY <1>1 DEF Inv, ThreadsInv, ThreadInv, CreateInv
  <2> QED BY <1>1, <1>6, <2>1, StrayStep
<1>12. LockInv'
  BY <1>1, <1>4, IdleFields DEF LockInv, Commands, Creates
<1>13. CountInv'
  <2>1. /\ Cardinality(Drawing) \in Nat /\ Len(owner) \in Nat
        /\ served \in Nat /\ Len(owner) + Cardinality(Drawing) <= served
    BY <1>3, FS_CardinalityType DEF CountInv, TypeInv
  <2>2. Drawing' = {}
    BY <1>4, IdleFields DEF Drawing
  <2>3. IsFiniteSet({}) /\ Cardinality({}) = 0
    BY FS_EmptySet
  <2> QED BY <1>1, <2>1, <2>2, <2>3 DEF CountInv
<1>14. ASSUME NEW u \in Thread
       PROVE  ThreadInv(u)'
  <2>1. op'[u].pc = "none" /\ ~op'[u].sent
    BY <1>4, IdleFields
  <2>2. ReqInv(u)'
    BY <1>4, IdleFields DEF ReqInv, ReqFits
  <2> QED BY <2>1, <2>2
          DEF ThreadInv, CreateInv, UseInv, Creates, Results
<1> QED
  BY <1>7, <1>8, <1>9, <1>10, <1>11, <1>12, <1>13, <1>14 DEF Inv, ThreadsInv

\* Nothing is stored, nothing is under way.
LEMMA InitInv == Init => Inv
<1> SUFFICES ASSUME Init
             PROVE  Inv
  OBVIOUS
<1>1. /\ session = [k \in Token |-> NoSession] /\ wire = <<>> /\ owner = <<>>
      /\ idem = [r \in RequestId |-> NoToken] /\ late = {} /\ mutex = NoThread
      /\ op = [t \in Thread |-> NoCall] /\ req = [t \in Thread |-> Idle]
      /\ given = {} /\ ended = {} /\ served = 0
  BY DEF Init, StoreInit
<1>2. \A t \in Thread : op[t].pc = "none" /\ ~op[t].sent /\ req[t] = Idle
  BY <1>1, IdleFields
<1>3. TypeInv
  <2>1. NoSession \in SessionType
    BY Ranges DEF NoSession, SessionType
  <2> QED BY <1>1, <2>1, IdleFields, Ranges DEF TypeInv
<1>4. SessionInv /\ IdemInv /\ LateInv /\ GivenInv /\ EndedInv /\ StrayInv
  BY <1>1 DEF SessionInv, IdemInv, LateInv, GivenInv, EndedInv, StrayInv,
              NoStraySession
<1>5. LockInv
  BY <1>1, <1>2 DEF LockInv, Commands, Creates
<1>6. CountInv
  <2>1. Drawing = {}
    BY <1>2 DEF Drawing
  <2> QED BY <1>1, <2>1, FS_EmptySet DEF CountInv
<1>7. ThreadsInv
  BY <1>2, IdleFields
  DEF ThreadsInv, ThreadInv, CreateInv, UseInv, ReqInv, ReqFits, Creates, Results
<1> QED BY <1>3, <1>4, <1>5, <1>6, <1>7 DEF Inv

\* Every step keeps the invariant.
LEMMA StepInv == Inv /\ [Next]_vars => Inv'
<1> SUFFICES ASSUME Inv, [Next]_vars
             PROVE  Inv'
  OBVIOUS
<1>1. ASSUME NEW t \in Thread, Request(t)
      PROVE  Inv'
  BY <1>1, RequestInv
<1>2. ASSUME NEW t \in Thread, Step(t)
      PROVE  Inv'
  BY <1>2, SendInv, ReceiveInv, NoReplyInv, StoreAnsweredInv, CallBackendInv,
     FinishInv
  DEF Step, StoreStep
<1>3. ASSUME NEW c \in late, LateCommand(c), UNCHANGED gatewayVars
      PROVE  Inv'
  BY <1>3, LateCommandInv
<1>4. CASE Expiry /\ UNCHANGED gatewayVars
  BY <1>4, ExpiryInv
<1>5. CASE BeginShutdown
  BY <1>5, IdleInv DEF BeginShutdown
<1>6. CASE Restart
  BY <1>6, RestartInv
<1>7. CASE UNCHANGED vars
  BY <1>7, IdleInv DEF vars, gatewayVars
<1> QED BY <1>1, <1>2, <1>3, <1>4, <1>5, <1>6, <1>7 DEF Next

-----------------------------------------------------------------------------
(* The theorems.                                                           *)

\* The inductive invariant holds in every reachable state, for every number of
\* threads, players, requests and faults.
THEOREM SessionInvariant == Spec => []Inv
BY InitInv, StepInv, PTL DEF Spec

\* Type correctness of Gateway and its session store.
THEOREM TypeCorrect == Spec => []TypeOK
<1>1. Inv => TypeOK
  <2> SUFFICES ASSUME Inv
               PROVE  TypeOK
    OBVIOUS
  <2>1. /\ session \in [Token -> [player : Player \cup {NoPlayer},
                                  expires : BOOLEAN]]
        /\ idem \in [RequestId -> Token \cup {NoToken}]
        /\ owner \in Seq(Player) /\ Len(owner) <= MaxRequests
        /\ mutex \in Thread \cup {NoThread}
    BY DEF Inv, TypeInv, SessionType, AnyPlayer, AnyToken
  <2>2. op \in [Thread ->
         [pc : {"none"} \cup Commands \cup Results, sent : BOOLEAN,
          rid : RequestId \cup {NoId}, player : Player \cup {NoPlayer},
          token : Token \cup {NoToken}, out : Token \cup {NoToken}]]
    BY DEF Inv, TypeInv, OpType, Pc, AnyId, AnyPlayer, AnyToken
  <2>3. req \in [Thread ->
         [stage : {"idle", "store", "call", "answered"},
          kind : {"none", "login", "logout", "me", "match", "room"},
          token : Token \cup {NoToken},
          player : Player \cup {NoPlayer},
          status : {0, 200, 400, 401, 404, 409, 429, 500, 503}]]
    BY DEF Inv, TypeInv, ReqType, Stage, Kind, Status, AnyPlayer, AnyToken
  <2>4. \A c \in late : c.pc \in Writes /\ c.token \in Token
    <3> SUFFICES ASSUME NEW c \in late
                 PROVE  c.pc \in Writes /\ c.token \in Token
      OBVIOUS
    <3>1. c.pc \in Writes /\ Generated(c.token)
      BY DEF Inv, LateInv, CommandOK
    <3>2. Len(owner) \in Nat /\ Len(owner) <= MaxRequests
      BY DEF Inv, TypeInv
    <3> QED BY <3>1, <3>2, StoreAssumption DEF Generated, Token
  <2> QED BY <2>1, <2>2, <2>3, <2>4 DEF TypeOK
<1> QED BY <1>1, SessionInvariant, PTL

\* A connection is never left locked by a thread that no longer uses it, nor
\* with a reply on it that the next caller would read as its own
\* (redis_session_store.hpp, mutex_).
THEOREM Handover == Spec => []ConnectionIsHandedOver
<1>1. Inv => ConnectionIsHandedOver
  <2> SUFFICES ASSUME Inv
               PROVE  ConnectionIsHandedOver
    OBVIOUS
  <2>1. mutex # NoThread => mutex \in Thread
    BY DEF Inv, TypeInv
  <2> QED BY <2>1 DEF Inv, LockInv, ConnectionIsHandedOver
<1> QED BY <1>1, SessionInvariant, PTL

\* A session that was given out, or that a repeated login may give out, has a
\* TTL: the HSET and the EXPIRE of CreateSession are not atomic, but nobody
\* hears of the token in between, and the late HSET of a dropped connection
\* belongs to a token that is never given out.
THEOREM Expiring == Spec => []GivenSessionsExpire
<1>1. Inv => GivenSessionsExpire
  <2> SUFFICES ASSUME Inv, NEW k \in Token, session[k] # NoSession,
                      \/ \E g \in given : g.token = k
                      \/ \E r \in RequestId : idem[r] = k
               PROVE  session[k].expires
    BY DEF GivenSessionsExpire
  <2>1. Ready(k)
    BY Ranges DEF Inv, GivenInv, IdemInv, Holds
  <2> QED BY <2>1 DEF Ready
<1> QED BY <1>1, SessionInvariant, PTL

\* A session whose logout was confirmed never comes back, whatever Redis
\* executes late.
THEOREM LoggedOut == Spec => []LoggedOutStaysOut
<1>1. Inv => LoggedOutStaysOut
  BY DEF Inv, EndedInv, LoggedOutStaysOut
<1> QED BY <1>1, SessionInvariant, PTL

\* A request is refused with 401 only if the session of its token is gone, not
\* because Redis failed or because the reply was another thread's.
THEOREM Unauthenticated == Spec => []UnauthenticatedMeansGone
<1>1. Inv => UnauthenticatedMeansGone
  BY DEF Inv, ThreadsInv, ThreadInv, ReqInv, ReqFits, UnauthenticatedMeansGone
<1> QED BY <1>1, SessionInvariant, PTL

\* If clients send a request_id with every login, a token belongs to the player
\* it is given to, and the backends are called in the name of that player only.
\* (Without one all players share the empty id, and the code itself gives one
\* player's session to another: EmptyIdIsOneShot.)
THEOREM RightPlayer ==
    ASSUME ~AllowEmptyId
    PROVE  Spec => []ActsForItsPlayer
<1>1. Inv => ActsForItsPlayer
  <2> SUFFICES ASSUME Inv
               PROVE  ActsForItsPlayer
    OBVIOUS
  <2>1. ASSUME NEW g \in given
        PROVE  g.token \in Token /\ owner[g.token] = g.player
    <3>1. g.token \in Token
      BY DEF Inv, TypeInv, GrantType
    <3>2. g.rid # EmptyId /\ g.rid[1] = g.player
      BY DEF Inv, GivenInv, IdOf
    <3>3. Owned(g.rid, g.token)
      BY DEF Inv, GivenInv
    <3> QED BY <3>1, <3>2, <3>3 DEF Owned
  <2>2. ASSUME NEW t \in Thread, req[t].kind \in {"match", "room"},
               req[t].player # NoPlayer
        PROVE  req[t].player = owner[req[t].token]
    BY <2>2 DEF Inv, ThreadsInv, ThreadInv, ReqInv, ReqFits
  <2> QED BY <2>1, <2>2 DEF ActsForItsPlayer
<1> QED BY <1>1, SessionInvariant, PTL

\* If the mapping of a request id lives as long as the session (production
\* keeps both for 7 days), repeating a login never leaves two live sessions.
THEOREM OneSession ==
    ASSUME LongMapping
    PROVE  Spec => []OneSessionPerRequest
<1>1. Inv => OneSessionPerRequest
  <2> SUFFICES ASSUME Inv, NEW g \in given, NEW h \in given, g.rid = h.rid,
                      session[g.token] # NoSession, session[h.token] # NoSession
               PROVE  g.token = h.token
    BY DEF OneSessionPerRequest
  <2>1. Holds(g.rid, g.token) /\ Holds(h.rid, h.token)
    BY DEF Inv, GivenInv
  <2> QED BY <2>1 DEF Holds
<1> QED BY <1>1, SessionInvariant, PTL

\* Under the same condition no live session is forgotten: its request id still
\* maps to it, or its login is under way, or a failing Redis kept the login from
\* cleaning it up.
THEOREM NoStray ==
    ASSUME LongMapping
    PROVE  Spec => []NoStraySession
<1>1. Inv => NoStraySession
  BY DEF Inv, StrayInv
<1> QED BY <1>1, SessionInvariant, PTL
=============================================================================
