----------------------------- MODULE MysqlServer -----------------------------
(***************************************************************************)
(* honeypots/mysql_honeypot.py: a session of the mysql_mimic library for   *)
(* each connection, in one event loop.  Anyone is let in, and no login is  *)
(* logged.                                                                 *)
(***************************************************************************)
EXTENDS Connections

VARIABLE set   \* the connections whose session has the user variable

MysqlInit == set = {}

(* LoggingSession.init. *)
MysqlInitSession(c) ==
    /\ Moves(c, "queued", [conn[c] EXCEPT !.at = "ready", !.sid = c])
    /\ UNCHANGED <<events, answered, set>>

\* handle_query logs the text first.
Query(c, line, to) ==
    /\ Arrived(c) /\ First(c) = line
    /\ Moves(c, "ready", to)
    /\ Logs(CommandEvent(c, "error"))

(* SET @v, SELECT @v; one that is malformed raises, which the library      *)
(* answers with an error.                                                  *)
MysqlVariable(c) ==
    /\ \/ /\ Query(c, "set", Answering(Taking(c), "ready"))
          /\ set' = set \cup {c}
       \/ /\ Query(c, "get", Answering(Taking(c), "ready"))
          /\ UNCHANGED set
       \/ /\ Query(c, "malformed", Answering(Taking(c), "ready"))
          /\ UNCHANGED set
    /\ Answers(c)

(* The library's own answer is awaited ... *)
MysqlQuery(c) ==
    /\ Query(c, "query", [Taking(c) EXCEPT !.at = "process"])
    /\ UNCHANGED <<answered, set>>

(* ... and stands, or the action's, or an empty one when that fails.       *)
MysqlResult(c) ==
    /\ Moves(c, "process", Answering(conn[c], "ready"))
    /\ Answers(c)
    /\ UNCHANGED <<events, set>>

MysqlClosed(c) == EndOfFile(c, "ready") /\ UNCHANGED set

Mysql(c) ==
    \/ MysqlInitSession(c) \/ MysqlVariable(c) \/ MysqlQuery(c) \/ MysqlResult(c)
    \/ MysqlClosed(c)
=============================================================================
