----------------------------- MODULE RedisServer -----------------------------
(***************************************************************************)
(* honeypots/redis_honeypot.py: a thread for each connection, and one      *)
(* store of databases for all, here with one key.  Threads change places   *)
(* where Python 3.12 lets them, at calls and at the ends of loops: SET,    *)
(* and DEL of one key with the check before it, are one step, the loop of  *)
(* KEYS is not.                                                            *)
(***************************************************************************)
EXTENDS Connections

CONSTANT Databases   \* the numbers SELECT is given

VARIABLES
    store,     \* store[d]: does database d have the key
    db,        \* db[c]: current_db
    attempt,   \* attempt[c]: _last_auth_attempt, by the number of its command; or 0
    loop,      \* loop[c]: over no dictionary of the store, a live or a resized one
    tried      \* history: the attempts, by connection and number

redisVars == <<store, db, attempt, loop, tried>>

ASSUME RedisAssumption == 0 \in Databases

RedisInit ==
    /\ store = [d \in Databases |-> FALSE]
    /\ db = [c \in Clients |-> 0]
    /\ attempt = [c \in Clients |-> 0]
    /\ loop = [c \in Clients |-> "none"]
    /\ tried = {}

RedisAccept(c) ==
    /\ Moves(c, "queued", [conn[c] EXCEPT !.at = "ready", !.sid = c])
    /\ UNCHANGED <<events, answered, redisVars>>

\* Mutant: only the first command of a connection logs a login.
RedisReceiveOnce(c) ==
    /\ Arrived(c) /\ First(c) # "half"
    /\ Moves(c, "ready",
           [Taking(c) EXCEPT !.at = "process", !.inbox = <<>>,
                             !.lost = @ \/ Len(conn[c].inbox) > 1])
    /\ IF conn[c].n = 0 THEN Logs(LoginEvent(c, c, attempt[c], FALSE)) ELSE UNCHANGED events
    /\ UNCHANGED <<answered, redisVars>>

(* One command is taken from the buffer, which is then cleared; a login is *)
(* logged with the attempt of an earlier command.                          *)
RedisReceive(c) ==
    /\ Arrived(c) /\ First(c) # "half"
    /\ Moves(c, "ready",
           [Taking(c) EXCEPT !.at = "process", !.inbox = <<>>,
                             !.lost = @ \/ Len(conn[c].inbox) > 1])
    /\ Logs(LoginEvent(c, c, attempt[c], FALSE))
    /\ UNCHANGED <<answered, redisVars>>

(* A command that has not arrived in full is cleared with the buffer. *)
RedisIncomplete(c) ==
    /\ Arrived(c) /\ First(c) = "half"
    /\ Moves(c, "ready",
           [Taking(c) EXCEPT !.at = "ready", !.line = None, !.inbox = <<>>, !.lost = TRUE])
    /\ UNCHANGED <<events, answered, redisVars>>

Processes(c, line) ==
    /\ conn[c].line = line
    /\ Moves(c, "process", [conn[c] EXCEPT !.at = "log"])
    /\ UNCHANGED <<events, answered>>

(* PasswordManager.tla decides; the number stands for the outcome too. *)
RedisAuth(c) ==
    /\ Processes(c, "auth")
    /\ attempt' = [attempt EXCEPT ![c] = conn[c].n]
    /\ tried' = tried \cup {<<c, conn[c].n>>}
    /\ UNCHANGED <<store, db, loop>>

RedisSelect(c) ==
    /\ Processes(c, "select")
    /\ \E d \in Databases : db' = [db EXCEPT ![c] = d]
    /\ UNCHANGED <<store, attempt, loop, tried>>

\* SET, and DEL or FLUSHDB: the dictionary of this database gets or loses the key.
Puts(c, has) ==
    /\ store' = [store EXCEPT ![db[c]] = has]
    /\ loop' = [e \in Clients |->
                   IF loop[e] = "live" /\ db[e] = db[c] /\ store[db[c]] # has
                   THEN "resized" ELSE loop[e]]
    /\ UNCHANGED <<db, attempt, tried>>

RedisSet(c) == Processes(c, "set") /\ Puts(c, TRUE)

RedisDelete(c) == Processes(c, "del") /\ Puts(c, FALSE)

(* FLUSHALL drops the dictionaries, which a loop over one does not notice. *)
RedisFlush(c) ==
    /\ Processes(c, "flushall")
    /\ store' = [d \in Databases |-> FALSE]
    /\ loop' = [e \in Clients |-> IF loop[e] = "live" THEN "none" ELSE loop[e]]
    /\ UNCHANGED <<db, attempt, tried>>

(* Commands that only read, and those the handler leaves to its action. *)
RedisQuery(c) == Processes(c, "other") /\ UNCHANGED redisVars

(* KEYS with a pattern goes over the live dictionary ... *)
RedisScan(c) ==
    /\ conn[c].line = "keys"
    /\ Moves(c, "process", [conn[c] EXCEPT !.at = "scan"])
    /\ loop' = [loop EXCEPT ![c] = "live"]
    /\ UNCHANGED <<events, answered, store, db, attempt, tried>>

RedisScanned(c) ==
    /\ loop[c] # "resized"
    /\ Moves(c, "scan", [conn[c] EXCEPT !.at = "log"])
    /\ loop' = [loop EXCEPT ![c] = "none"]
    /\ UNCHANGED <<events, answered, store, db, attempt, tried>>

(* ... and raises when its size has changed meanwhile; so may the action.  *)
RedisFails(c) ==
    /\ \/ conn[c].line = "other" /\ Dies(c, "process")
       \/ loop[c] = "resized" /\ Dies(c, "scan")
    /\ UNCHANGED redisVars

RedisLog(c) ==
    /\ Moves(c, "log", [conn[c] EXCEPT !.at = "reply"])
    /\ Logs(CommandEvent(c, "command"))
    /\ UNCHANGED <<answered, redisVars>>

RedisReply(c) ==
    /\ Moves(c, "reply", Answering(conn[c], "ready"))
    /\ Answers(c)
    /\ UNCHANGED <<events, redisVars>>

RedisClosed(c) == EndOfFile(c, "ready") /\ UNCHANGED redisVars

Redis(c) ==
    \/ RedisAccept(c) \/ RedisReceive(c) \/ RedisIncomplete(c)
    \/ RedisAuth(c) \/ RedisSelect(c) \/ RedisSet(c) \/ RedisDelete(c)
    \/ RedisFlush(c) \/ RedisQuery(c)
    \/ RedisScan(c) \/ RedisScanned(c) \/ RedisFails(c)
    \/ RedisLog(c) \/ RedisReply(c) \/ RedisClosed(c)
=============================================================================
