---------------------------- MODULE LegacyServers ----------------------------
(***************************************************************************)
(* The TCP, Redis, Telnet, PostgreSQL and MySQL honeypots, one of them     *)
(* deployed, with clients that come, send, wait and go in any order.       *)
(***************************************************************************)
EXTENDS TcpServer, RedisServer, TelnetServer, PgServer, MysqlServer

vars == <<base, accepting, redisVars, telnetVars, pgVars, set>>

Init ==
    /\ BaseInit /\ TcpInit /\ RedisInit /\ TelnetInit /\ PgInit /\ MysqlInit
    /\ deployed # "telnet" => prompts = FALSE

Server(c) ==
    \/ deployed = "tcp" /\ Tcp(c) /\ UNCHANGED <<redisVars, telnetVars, pgVars, set>>
    \/ deployed = "redis" /\ Redis(c) /\ UNCHANGED <<accepting, telnetVars, pgVars, set>>
    \/ deployed = "telnet" /\ Telnet(c) /\ UNCHANGED <<accepting, redisVars, pgVars, set>>
    \/ deployed = "postgres" /\ Pg(c) /\ UNCHANGED <<accepting, redisVars, telnetVars, set>>
    \/ deployed = "mysql" /\ Mysql(c) /\ UNCHANGED <<accepting, redisVars, telnetVars, pgVars>>

Next ==
    \/ \E c \in Clients : Server(c)
    \/ \E c \in Clients : Client(c) /\ UNCHANGED <<accepting, redisVars, telnetVars, pgVars, set>>
    \/ Tick /\ UNCHANGED <<accepting, redisVars, pgVars, set>>

(* Threads run and the event loop takes its turns; clients owe nothing.    *)
Fairness == \A c \in Clients : WF_vars(Server(c))

Spec == Init /\ [][Next]_vars /\ Fairness

-----------------------------------------------------------------------------
(* The parts of the state have their types, and a Telnet session is kept   *)
(* for the address it came from: never younger than now, and with a shell  *)
(* in it only on behalf of that address.                                   *)
TypeOK ==
    /\ ConnectionsOK
    /\ accepting \in BOOLEAN
    /\ store \in [Databases -> BOOLEAN] /\ db \in [Clients -> Databases]
    /\ loop \in [Clients -> {"none", "live", "resized"}]
    /\ prompts \in BOOLEAN /\ clock \in 0..MaxClock /\ now \in [Clients -> 0..MaxClock]
    /\ \A a \in Addrs : sessions[a] # None =>
          /\ sessions[a].created \in 0..clock
          /\ conn[sessions[a].sid].addr = a
    /\ statements \cup portals \cup set \subseteq Clients
    \* One connection is served at a time, and none without the accept loop.
    /\ deployed = "tcp" =>
          \A c, e \in Clients : {conn[c].at, conn[e].at} \subseteq {"ready", "process"} =>
             c = e /\ accepting

CommandEvents == {e \in events : e.type # "auth_attempt"}

(* Whoever gives a command has a login of the same session and the same    *)
(* address in the log before it (base_honeypot.py log_login: the analysis  *)
(* finds the address and the credentials of a session there), except for   *)
(* MySQL, which logs no login.  Where the honeypot asks for credentials    *)
(* and checks them, the login is an accepted one.                          *)
LoginBeforeCommands ==
    deployed # "mysql" =>
    \A e \in CommandEvents : \E l \in events :
       /\ l.type = "auth_attempt" /\ l.sid = e.sid /\ l.addr = e.addr
       /\ prompts => l.ok

(* What was answered is in the log under the session of its connection     *)
(* (what PostgreSQL executes from a prepared statement is not); and with   *)
(* the log of a Redis command come all attempts made before it, with the   *)
(* outcome they had: the login that is logged with each command is the     *)
(* last attempt, so none is passed over.                                   *)
LogComplete ==
    /\ \A p \in answered : \E e \in CommandEvents :
          <<e.client, e.n>> = p /\ e.sid = conn[p[1]].sid
    /\ deployed = "redis" =>
          \A e \in CommandEvents, t \in tried :
             e.client = t[1] /\ t[2] < e.n =>
                \E l \in events : l.type = "auth_attempt" /\ <<l.client, l.n>> = t

(* Every client that sent something is answered or sees its connection     *)
(* closed.  Some do wait for ever: one whose second command came in the    *)
(* segment of a first, or in two, at the Redis honeypot; one whose first   *)
(* message the PostgreSQL honeypot believes to be longer than it is, and   *)
(* swallows what came with it, or waits for more than was sent; and one    *)
(* whose connection the TCP honeypot has not accepted.                     *)
Waits(c) ==
    /\ conn[c].owed > 0 /\ conn[c].at # "closed" /\ ~conn[c].lost
    /\ ~(deployed = "tcp" /\ conn[c].at = "queued")

ClientsAnswered == \A c \in Clients : Waits(c) ~> ~Waits(c)
=============================================================================
