------------------------------ MODULE Gateway -------------------------------
(***************************************************************************)
(* The request/response part of Gateway's HTTP API                         *)
(* (src/gateway/gateway_service.cpp) over the session store: login, logout *)
(* and the calls made for a logged-in player to the player directory and,  *)
(* through the brpc clients, to Match and Room.  The event stream is the   *)
(* subject of StreamHub.                                                   *)
(*                                                                         *)
(* A request occupies one thread: stage "store" while it waits for the     *)
(* session store, "call" until its backend answered, "answered" when the   *)
(* response is written.  Of the backends only what decides the answer is   *)
(* kept, the error code.                                                   *)
(***************************************************************************)
EXTENDS SessionStore

CONSTANT AllowEmptyId      \* whether clients log in without a request_id

ASSUME GatewayAssumption == AllowEmptyId \in BOOLEAN

VARIABLES
    req,         \* [Thread -> request]
    shutting_down,
    given,       \* logins answered with 200
    ended,       \* tokens whose logout was answered with 200
    served       \* requests so far

gatewayVars == <<req, shutting_down, given, ended, served>>
vars == <<storeVars, gatewayVars>>

Idle == [stage |-> "idle", kind |-> "none", token |-> NoToken,
         player |-> NoPlayer, status |-> 0]

Init ==
    /\ StoreInit
    /\ req = [t \in Thread |-> Idle]
    /\ shutting_down = FALSE
    /\ given = {} /\ ended = {} /\ served = 0

-----------------------------------------------------------------------------
(* Error codes.                                                            *)

HttpStatusOf(code) ==
    CASE code = "INVALID_ARGUMENT" -> 400
      [] code = "UNAUTHENTICATED" -> 401
      [] code = "NOT_FOUND" -> 404
      [] code = "CONFLICT" -> 409
      [] code = "RESOURCE_EXHAUSTED" -> 429
      [] code = "UNAVAILABLE" -> 503
      [] OTHER -> 500

\* The error codes of match.proto and room.proto that end up as each answer.
\* Match says MATCH_ALREADY_QUEUED for a repeated enqueue: that is a success.
MatchCodes ==
    {"OK", "MATCH_ALREADY_QUEUED", "MATCH_INVALID_ARGUMENT",
     "MATCH_QUEUE_FULL", "MATCH_SHUTTING_DOWN", "MATCH_INTERNAL"}

RoomCodes ==
    {"OK", "ROOM_INVALID_ARGUMENT", "ROOM_NOT_A_MEMBER", "ROOM_NOT_PLAYING",
     "ROOM_NOT_FOUND", "ROOM_ALREADY_FINISHED", "ROOM_RESULT_PENDING",
     "ROOM_STORE_UNAVAILABLE", "ROOM_SHUTTING_DOWN", "ROOM_INTERNAL"}

HandleMatchFailure(code) ==
    CASE code \in {"OK", "MATCH_ALREADY_QUEUED"} -> 200
      [] code \in {"CALL_FAILED", "MATCH_SHUTTING_DOWN"} ->
           HttpStatusOf("UNAVAILABLE")
      [] code = "MATCH_INVALID_ARGUMENT" -> HttpStatusOf("INVALID_ARGUMENT")
      [] code = "MATCH_QUEUE_FULL" -> HttpStatusOf("RESOURCE_EXHAUSTED")
      [] OTHER -> HttpStatusOf("INTERNAL")

HandleRoomFailure(code) ==
    CASE code = "OK" -> 200
      [] code \in {"CALL_FAILED", "ROOM_STORE_UNAVAILABLE",
                   "ROOM_RESULT_PENDING", "ROOM_SHUTTING_DOWN"} ->
           HttpStatusOf("UNAVAILABLE")
      [] code = "ROOM_NOT_FOUND" -> HttpStatusOf("NOT_FOUND")
      [] code = "ROOM_ALREADY_FINISHED" -> HttpStatusOf("CONFLICT")
      [] code \in {"ROOM_INVALID_ARGUMENT", "ROOM_NOT_A_MEMBER",
                   "ROOM_NOT_PLAYING"} -> HttpStatusOf("INVALID_ARGUMENT")
      [] OTHER -> HttpStatusOf("INTERNAL")

-----------------------------------------------------------------------------
(* Requests come in.                                                       *)

Arrives(t) ==
    /\ req[t] = Idle /\ served < MaxRequests
    /\ served' = served + 1

Asks(t, r) == req' = [req EXCEPT ![t] = r]

\* The response is written; the thread is free again after Finish.
Answer(t, status) ==
    Asks(t, [req[t] EXCEPT !.stage = "answered", !.status = status])

\* An answer without any call.
Refuse(t, code) ==
    /\ Answer(t, HttpStatusOf(code))
    /\ UNCHANGED storeVars

\* RejectIfShuttingDown.
Accepting == ~shutting_down

\* MysqlPlayerReader: a row, no row, or MySQL failing.
QueryOne == {"kOk", "kNotFound", "kUnavailable"}

\* DatabasePlayerDirectory: what the reader found decides, then the password,
\* then whether the account is active.
Authenticate(found) ==
    CASE found = "kUnavailable" -> {"kUnavailable"}
      [] found = "kNotFound" -> {"kInvalidCredential"}
      [] OTHER -> {"kOk", "kInvalidCredential", "kAccountDisabled"}

\* A failing MySQL looks the same as a missing player.
FindByPlayerId(found) ==
    IF found = "kOk" THEN 200 ELSE HttpStatusOf("NOT_FOUND")

CredentialCode(credential) ==
    IF credential = "kUnavailable" THEN "UNAVAILABLE" ELSE "UNAUTHENTICATED"

IdsOf(p) == ({p} \X (1..MaxIds)) \cup (IF AllowEmptyId THEN {EmptyId} ELSE {})

Login(t, p, r) ==
    /\ Arrives(t)
    /\ \/ ~Accepting /\ Refuse(t, "UNAVAILABLE")
       \/ Accepting /\ Refuse(t, "INVALID_ARGUMENT")     \* ValidateLoginRequest
       \/ /\ Accepting
          /\ \E found \in QueryOne :
               \E credential \in Authenticate(found) \ {"kOk"} :
                 Refuse(t, CredentialCode(credential))
       \/ /\ Accepting
          /\ Asks(t, [Idle EXCEPT !.stage = "store", !.kind = "login",
                                  !.player = p])
          /\ CreateSession(t, r, p)
          /\ UNCHANGED <<session, idem, late, wire, mutex, owner, left, faults>>
    /\ UNCHANGED <<shutting_down, given, ended>>

\* The tokens clients know.  One that was never given out is refused like one
\* that has expired.
Known == {k \in Token : \E g \in given : g.token = k}

Logout(t, k) ==
    /\ Arrives(t)
    /\ \/ Refuse(t, "INVALID_ARGUMENT")                  \* ValidateToken
       \/ /\ Asks(t, [Idle EXCEPT !.stage = "store", !.kind = "logout",
                                  !.token = k])
          /\ DeleteSession(t, k)
          /\ UNCHANGED <<session, idem, late, wire, mutex, owner, left, faults>>
    /\ UNCHANGED <<shutting_down, given, ended>>

\* ResolvePlayerId, up to the session store.
Resolve(t, k, kind) ==
    /\ Arrives(t)
    /\ \/ Refuse(t, "INVALID_ARGUMENT")                  \* ValidateToken
       \/ /\ Asks(t, [Idle EXCEPT !.stage = "store", !.kind = kind,
                                  !.token = k])
          /\ GetSession(t, k)
          /\ UNCHANGED <<session, idem, late, wire, mutex, owner, left, faults>>
    /\ UNCHANGED <<shutting_down, given, ended>>

RejectIfShuttingDown(t) ==
    /\ Arrives(t) /\ ~Accepting
    /\ Refuse(t, "UNAVAILABLE")
    /\ UNCHANGED <<shutting_down, given, ended>>

\* Reads are served during the drain, requests that change something are not.
Read(t, k, kind) == Resolve(t, k, kind)

Write(t, k, kind) ==
    \/ RejectIfShuttingDown(t)
    \/ Accepting /\ Resolve(t, k, kind)

GetCurrentPlayer(t, k) == Read(t, k, "me")
EnqueueMatch(t, k) == Write(t, k, "match")
GetMatchStatus(t, k) == Read(t, k, "match")
CancelMatch(t, k) == Write(t, k, "match")
JoinRoom(t, k) == Write(t, k, "room")
SubmitInput(t, k) == Write(t, k, "room")
GetRoomState(t, k) == Read(t, k, "room")
GetMatchResult(t, k) == Read(t, k, "room")

-----------------------------------------------------------------------------
(* The session store has answered.                                         *)

LoginStored(t) ==
    /\ req[t].kind = "login"
    /\ IF op[t].pc = "kOk"
       THEN /\ Answer(t, 200)
            /\ given' = given \cup {[rid |-> op[t].rid, player |-> req[t].player,
                                     token |-> op[t].token]}
       ELSE /\ Answer(t, HttpStatusOf("UNAVAILABLE"))
            /\ UNCHANGED given
    /\ UNCHANGED ended

\* Logging out of a session that is gone already is a success.
LogoutStored(t) ==
    /\ req[t].kind = "logout"
    /\ IF op[t].pc = "kUnavailable"
       THEN /\ Answer(t, HttpStatusOf("UNAVAILABLE"))
            /\ UNCHANGED ended
       ELSE /\ Answer(t, 200)
            /\ ended' = ended \cup {req[t].token}
    /\ UNCHANGED given

\* ResolvePlayerId, the rest.  GetCurrentPlayer then looks the player up; the
\* requests to Room want a room_id or match_id.
Resolved(t) ==
    /\ req[t].kind \in {"me", "match", "room"}
    /\ \/ op[t].pc = "kUnavailable" /\ Answer(t, HttpStatusOf("UNAVAILABLE"))
       \/ op[t].pc = "kNotFound" /\ Answer(t, HttpStatusOf("UNAUTHENTICATED"))
       \/ /\ op[t].pc = "kOk" /\ req[t].kind = "me"
          /\ \E found \in QueryOne : Answer(t, FindByPlayerId(found))
       \/ /\ op[t].pc = "kOk" /\ req[t].kind = "room"
          /\ Answer(t, HttpStatusOf("INVALID_ARGUMENT"))
       \/ /\ op[t].pc = "kOk" /\ req[t].kind # "me"
          /\ Asks(t, [req[t] EXCEPT !.stage = "call", !.player = op[t].player])
    /\ UNCHANGED <<given, ended>>

StoreAnswered(t) ==
    /\ req[t].stage = "store" /\ op[t].pc \in Results
    /\ LoginStored(t) \/ LogoutStored(t) \/ Resolved(t)
    /\ op' = [op EXCEPT ![t] = NoCall]
    /\ UNCHANGED <<session, idem, late, wire, mutex, owner, left, faults,
                   shutting_down, served>>

-----------------------------------------------------------------------------
(* BrpcMatchClient and BrpcRoomClient.                                     *)

\* The code in the backend's response, or controller.Failed: a timeout or a
\* lost answer, after which the backend may or may not have executed the request.
CallOutcomes(kind) ==
    {"CALL_FAILED"} \cup IF kind = "match" THEN MatchCodes ELSE RoomCodes

CallBackend(t) ==
    /\ req[t].stage = "call"
    /\ \E code \in CallOutcomes(req[t].kind) :
          Answer(t, IF req[t].kind = "match" THEN HandleMatchFailure(code)
                    ELSE HandleRoomFailure(code))
    /\ UNCHANGED <<storeVars, shutting_down, given, ended, served>>

Finish(t) ==
    /\ req[t].stage = "answered"
    /\ Asks(t, Idle)
    /\ UNCHANGED <<storeVars, shutting_down, given, ended, served>>

-----------------------------------------------------------------------------
(* The process.                                                            *)

BeginShutdown ==
    /\ ~shutting_down
    /\ shutting_down' = TRUE
    /\ UNCHANGED <<storeVars, req, given, ended, served>>

\* A crash, or the end of a drain, and the next start.
Restart ==
    /\ StoreCrash
    /\ req' = [t \in Thread |-> Idle]
    /\ shutting_down' = FALSE
    /\ UNCHANGED <<given, ended, served>>

Step(t) ==
    \/ StoreStep(t) /\ UNCHANGED gatewayVars
    \/ StoreAnswered(t) \/ CallBackend(t) \/ Finish(t)

Request(t) ==
    \/ \E p \in Player : \E r \in IdsOf(p) : Login(t, p, r)
    \/ \E k \in Known :
         \/ Logout(t, k) \/ GetCurrentPlayer(t, k)
         \/ EnqueueMatch(t, k) \/ GetMatchStatus(t, k) \/ CancelMatch(t, k)
         \/ JoinRoom(t, k) \/ SubmitInput(t, k)
         \/ GetRoomState(t, k) \/ GetMatchResult(t, k)

Next ==
    \/ \E t \in Thread : Request(t) \/ Step(t)
    \/ (\E c \in late : LateCommand(c)) /\ UNCHANGED gatewayVars
    \/ Expiry /\ UNCHANGED gatewayVars
    \/ BeginShutdown \/ Restart

Spec == Init /\ [][Next]_vars

-----------------------------------------------------------------------------
\* Type invariant.
TypeOK ==
    /\ session \in [Token -> [player : Player \cup {NoPlayer},
                              expires : BOOLEAN]]
    /\ idem \in [RequestId -> Token \cup {NoToken}]
    /\ owner \in Seq(Player) /\ Len(owner) <= MaxRequests
    /\ mutex \in Thread \cup {NoThread}
    /\ op \in [Thread ->
         [pc : {"none"} \cup Commands \cup Results, sent : BOOLEAN,
          rid : RequestId \cup {NoId}, player : Player \cup {NoPlayer},
          token : Token \cup {NoToken}, out : Token \cup {NoToken}]]
    /\ \A c \in late : c.pc \in Writes /\ c.token \in Token
    /\ req \in [Thread ->
         [stage : {"idle", "store", "call", "answered"},
          kind : {"none", "login", "logout", "me", "match", "room"},
          token : Token \cup {NoToken},
          player : Player \cup {NoPlayer},
          status : {0, 200, 400, 401, 404, 409, 429, 500, 503}]]

\* A repeated login of one request_id gives the same session while it lives
\* (session_store.hpp): a login that timed out and was repeated never leaves
\* its player with two live sessions, even if Redis executes the commands of
\* the first attempt after those of the second.
OneSessionPerRequest ==
    \A g, h \in given :
        /\ g.rid = h.rid
        /\ session[g.token] # NoSession /\ session[h.token] # NoSession
        => g.token = h.token

\* Replies are not mixed up between threads (redis_session_store.hpp, mutex_):
\* a token that is given out was generated for the player who logged in, and a
\* backend is only ever called in the name of the token's player.
ActsForItsPlayer ==
    /\ \A g \in given : g.token \in Token /\ owner[g.token] = g.player
    /\ \A t \in Thread :
         req[t].kind \in {"match", "room"} /\ req[t].player # NoPlayer
            => req[t].player = owner[req[t].token]

\* Sessions run out (session_store.hpp: no key without a TTL): whatever was
\* given out, or may be by a repetition of its login, expires or is gone.
GivenSessionsExpire ==
    \A k \in Token :
        /\ \/ \E g \in given : g.token = k
           \/ \E r \in RequestId : idem[r] = k
        /\ session[k] # NoSession
        => session[k].expires

\* After a logout has been confirmed its token stays invalid, whatever commands
\* of dropped connections Redis executes later.
LoggedOutStaysOut == \A k \in ended : session[k] = NoSession

\* A client is told to log in again (401) only when his session is gone: a
\* failing Redis must look like a failing Redis (session_store.hpp, StoreStatus).
UnauthenticatedMeansGone ==
    \A t \in Thread :
        req[t].status = 401 /\ req[t].token # NoToken
            => session[req[t].token] = NoSession

\* No forgotten sessions: a live session is the one its request_id maps to, or
\* its login is under way, or it is one that a login had to give up on.
NoStraySession ==
    \A k \in Token :
        session[k] # NoSession =>
            \/ \E r \in RequestId : idem[r] = k
            \/ \E t \in Thread : op[t].pc \in Creates /\ op[t].token = k
            \/ k \in left

\* Nobody waits for a connection that nobody uses: mutex_ is held only by a
\* thread whose call is under way, and no reply is left on the connection for
\* the next caller to read (every return path unlocks, every failure drops the
\* connection).
ConnectionIsHandedOver ==
    /\ mutex # NoThread => op[mutex].pc \in Commands
    /\ wire # <<>> => mutex # NoThread /\ op[mutex].sent /\ Len(wire) = 1

-----------------------------------------------------------------------------
(* What a comment says and the code does not keep.                         *)

\* gateway_service.cpp, Login: a login without request_id is a one-off, so two
\* players who log in that way have a session each.
EmptyIdIsOneShot ==
    \A g, h \in given :
        g.rid = EmptyId /\ h.rid = EmptyId /\ g.player # h.player
            => g.token # h.token
=============================================================================
