----------------------------- MODULE RpcServer ------------------------------
(* The JSON-RPC server (crates/rpc): rate limits, authentication with key    *)
(* files that are reloaded while requests run, dispatch of single requests   *)
(* and batches, WebSocket sessions. Requests are tasks that interleave at    *)
(* every await and that the timeout layer may drop there.                    *)
EXTENDS Integers, Sequences, FiniteSets

CONSTANTS
    Tasks,             \* requests in flight
    Requests,          \* [path, from, token, calls]
    KeyFiles,          \* contents of the key file: sets of key ids, or Garbled
    Garbled,
    AnonymousWrites,   \* SXIAUM_RPC_ALLOW_ANON_WRITES
    MaxBatch,          \* MAX_BATCH_REQUESTS
    MaxSubscriptions,  \* MAX_WS_SUBSCRIPTIONS_PER_CONN
    RateLimit,         \* requests of one address in a second
    MaxEdits, MaxSeconds   \* bounds

ASSUME RpcAssumption ==
    Requests # {} /\ \A r \in Requests : DOMAIN r.calls = 1..Len(r.calls)

VARIABLES
    task,              \* task -> what it does and has read
    seconds,
    spent,             \* address -> requests admitted in this second
    keyFile, modified, \* the file and its modification time
    keys, lastModified, lastCheck,   \* JwtManager
    reloadRaced,             \* two reloads have overlapped
    sessions,          \* task -> its WebSocket session
    dispatched         \* calls that reached a handler, with what admitted them

rpcVars == <<task, seconds, spent, keyFile, modified, keys, lastModified, lastCheck, reloadRaced, sessions,
             dispatched>>
manager == <<keys, lastModified, lastCheck, reloadRaced>>
world == <<seconds, keyFile, modified>>
Addresses == {r.from : r \in Requests}
IdleTask == [at |-> "idle", request |-> CHOOSE r \in Requests : TRUE, stamp |-> 0, read |-> {},
             authorized |-> FALSE, next |-> 1]
NoSession == [open |-> FALSE, authenticated |-> FALSE, topics |-> {}, nextId |-> 1]

ServerInit ==
    /\ task = [t \in Tasks |-> IdleTask]
    /\ seconds = 1 /\ spent = [a \in Addresses |-> 0]
    /\ keyFile \in KeyFiles /\ modified = 1
    /\ keys = {} /\ lastModified = 0 /\ lastCheck = 0 /\ reloadRaced = FALSE
    /\ sessions = [t \in Tasks |-> NoSession] /\ dispatched = {}

Move(t, s) == task' = [task EXCEPT ![t] = IF s = "idle" THEN IdleTask ELSE [@ EXCEPT !.at = s]]

-----------------------------------------------------------------------------
(* Layers outside the handlers.                                              *)

\* ddos_protection_middleware; a task that is over its limit answers 429.
Admit(t, r) ==
    /\ task[t].at = "idle" /\ ~sessions[t].open /\ spent[r.from] < RateLimit
    /\ spent' = [spent EXCEPT ![r.from] = @ + 1]
    /\ task' = [task EXCEPT ![t] = [IdleTask EXCEPT !.request = r,
                   !.at = IF r.path = "open" THEN "handle" ELSE "throttle"]]
    /\ UNCHANGED <<world, manager, sessions, dispatched>>

\* timeout_middleware, or the client has gone: the task ends where it waits.
Cancel(t) ==
    /\ task[t].at # "idle" /\ Move(t, "idle")
    /\ UNCHANGED <<spent, world, manager, sessions, dispatched>>

-----------------------------------------------------------------------------
(* JwtManager::reload_if_changed, as part of validate_token.                 *)

Reloading(t) == task[t].at \in {"stat", "read", "swap", "stamp"}

\* At most one look at the file in each second.
ThrottleReload(t) ==
    /\ task[t].at = "throttle"
    /\ IF lastCheck < seconds
       THEN lastCheck' = seconds /\ Move(t, "stat")
       ELSE UNCHANGED lastCheck /\ Move(t, "authorize")
    /\ reloadRaced' = (reloadRaced \/ (lastCheck < seconds /\ \E u \in Tasks \ {t} : Reloading(u)))
    /\ UNCHANGED <<spent, world, keys, lastModified, sessions, dispatched>>

StatKeyFile(t) ==
    /\ task[t].at = "stat"
    /\ task' = [task EXCEPT ![t].stamp = modified,
                            ![t].at = IF modified = lastModified THEN "authorize" ELSE "read"]
    /\ UNCHANGED <<spent, world, manager, sessions, dispatched>>

\* A file that does not parse leaves the old keys in use.
ReadKeyFile(t) ==
    /\ task[t].at = "read"
    /\ task' = IF keyFile = Garbled THEN [task EXCEPT ![t].at = "authorize"]
               ELSE [task EXCEPT ![t].read = keyFile, ![t].at = "swap"]
    /\ UNCHANGED <<spent, world, manager, sessions, dispatched>>

SwapKeys(t) ==
    /\ task[t].at = "swap" /\ keys' = task[t].read /\ Move(t, "stamp")
    /\ UNCHANGED <<spent, world, lastModified, lastCheck, reloadRaced, sessions, dispatched>>

StampModified(t) ==
    /\ task[t].at = "stamp" /\ lastModified' = task[t].stamp /\ Move(t, "authorize")
    /\ UNCHANGED <<spent, world, keys, lastCheck, reloadRaced, sessions, dispatched>>

\* The operator edits the file; seconds pass.
EditKeyFile(content) ==
    /\ modified < MaxEdits /\ content # keyFile
    /\ keyFile' = content /\ modified' = modified + 1
    /\ UNCHANGED <<task, seconds, spent, manager, sessions, dispatched>>

SecondPasses ==
    /\ seconds < MaxSeconds /\ seconds' = seconds + 1 /\ spent' = [a \in Addresses |-> 0]
    /\ UNCHANGED <<task, keyFile, modified, manager, sessions, dispatched>>

-----------------------------------------------------------------------------
(* Authorization and dispatch.                                               *)

\* check_method: reads are public, writes by choice of the operator, all else
\* needs a token.
RequiresAuth(call) ==
    CASE call = "read" -> FALSE
      [] call = "write" -> ~AnonymousWrites
      [] call = "malformed" -> FALSE
      [] OTHER -> TRUE

\* Only the first request of a batch is looked at.
FirstRequiresAuth(calls) == calls # <<>> /\ RequiresAuth(calls[1])

\* check_rpc_body_auth: one restricted method in a batch restricts it all.
BodyRequiresAuth(calls) == \E i \in DOMAIN calls : RequiresAuth(calls[i])

\* validate_token, after the reload: the key the token names signed it. No
\* fallback secret is set.
ValidateToken(token) == token \in keys

IsWsAnonymousAllowed(r) == r.from \in {"loopback", "listed"}

\* auth_middleware after the token was looked at.
Authorize(t) ==
    LET r == task[t].request
        authorized == ValidateToken(r.token)
        passes == \/ authorized
                  \/ r.path = "rpc" /\ ~BodyRequiresAuth(r.calls)
                  \/ r.path = "ws" /\ IsWsAnonymousAllowed(r)
    IN  /\ task[t].at = "authorize"
        /\ IF passes THEN task' = [task EXCEPT ![t] = [IdleTask EXCEPT !.request = r, !.at = "handle",
                                                        !.authorized = authorized]]
           ELSE Move(t, "idle")
        /\ UNCHANGED <<spent, world, manager, sessions, dispatched>>

\* handle_json_rpc: an empty or oversized batch is one error; the requests of
\* a batch run one after the other, malformed ones answer an error each.
DispatchRpcMethod(t) ==
    LET r == task[t].request
        i == task[t].next
    IN  /\ task[t].at = "handle" /\ r.path # "ws"
        /\ IF i =< Len(r.calls) /\ Len(r.calls) =< MaxBatch
           THEN /\ task' = [task EXCEPT ![t].next = i + 1]
                /\ dispatched' = IF r.calls[i] = "malformed" THEN dispatched
                                 ELSE dispatched \union {[call |-> r.calls[i], path |-> r.path,
                                                          authorized |-> task[t].authorized]}
           ELSE Move(t, "idle") /\ UNCHANGED dispatched
        /\ UNCHANGED <<spent, world, manager, sessions>>

-----------------------------------------------------------------------------
(* WebSocket sessions.                                                       *)

WsHandler(t) ==
    /\ task[t].at = "handle" /\ task[t].request.path = "ws" /\ Move(t, "idle")
    /\ sessions' = [sessions EXCEPT ![t] =
                       [NoSession EXCEPT !.open = TRUE, !.authenticated = task[t].authorized]]
    /\ UNCHANGED <<spent, world, manager, dispatched>>

\* eth_subscribe wants the session authenticated and below its limit.
Subscribe(t) ==
    LET s == sessions[t]
    IN  /\ s.open /\ s.authenticated /\ Cardinality(s.topics) < MaxSubscriptions
        /\ sessions' = [sessions EXCEPT ![t].topics = @ \union {s.nextId}, ![t].nextId = @ + 1]
        /\ s.nextId < MaxSubscriptions + 2
        /\ UNCHANGED <<task, spent, world, manager, dispatched>>

Unsubscribe(t, id) ==
    /\ id \in sessions[t].topics
    /\ sessions' = [sessions EXCEPT ![t].topics = @ \ {id}]
    /\ UNCHANGED <<task, spent, world, manager, dispatched>>

CloseSession(t) ==
    /\ sessions[t].open /\ sessions' = [sessions EXCEPT ![t] = NoSession]
    /\ UNCHANGED <<task, spent, world, manager, dispatched>>

ServerNext ==
    \/ \E t \in Tasks :
          \/ \E r \in Requests : Admit(t, r)
          \/ Cancel(t) \/ ThrottleReload(t) \/ StatKeyFile(t) \/ ReadKeyFile(t) \/ SwapKeys(t)
          \/ StampModified(t) \/ Authorize(t) \/ DispatchRpcMethod(t)
          \/ WsHandler(t) \/ Subscribe(t) \/ CloseSession(t)
          \/ \E id \in sessions[t].topics : Unsubscribe(t, id)
    \/ \E content \in KeyFiles : EditKeyFile(content)
    \/ SecondPasses

-----------------------------------------------------------------------------
(* Properties.                                                               *)

\* However requests are batched, a call that needs a token reaches its handler
\* only in a request whose token was valid, and a session holds subscriptions
\* only if it was opened with one.
OnlyAuthorizedCalls ==
    /\ \A d \in dispatched : (d.path = "rpc" /\ RequiresAuth(d.call)) \/ d.path = "admin" => d.authorized
    /\ \A t \in Tasks : sessions[t].topics # {} => sessions[t].authenticated

\* Once the recorded modification time is the file's, the keys in use are the
\* file's: a reload that fails or is dropped half way is done again. Only two
\* overlapping reloads (one of them slower than the check interval) can leave
\* the keys of an older file under the newer time.
KeysFollowFile ==
    (lastModified = modified /\ ~reloadRaced) => keys = keyFile

\* What the server lets through is what its token and the current key file
\* allow.
RpcSound == OnlyAuthorizedCalls /\ KeysFollowFile
=============================================================================
