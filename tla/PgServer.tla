------------------------------ MODULE PgServer ------------------------------
(***************************************************************************)
(* honeypots/postgresql_honeypot.py: a thread for each connection, which   *)
(* shares nothing with the others.  Messages arrive whole.  There is one   *)
(* statement and one portal, with a name and without content.  A "short"   *)
(* message is of eight bytes, as SSL and GSSENC requests are, and neither. *)
(***************************************************************************)
EXTENDS Connections

VARIABLES
    statements,   \* the connections whose session has the statement
    portals       \* the connections whose session has the portal bound to it

pgVars == <<statements, portals>>

PgInit == statements = {} /\ portals = {}

\* The next message is taken and answered.
Replies(c, from, to) == Moves(c, from, Answering(Taking(c), to))

PgHandshake(c) ==
    /\ Arrived(c)
    /\ UNCHANGED <<answered, pgVars>>

(* SSL and GSSENC requests are refused, once ... *)
PgRefuseSsl(c) ==
    /\ PgHandshake(c) /\ First(c) = "ssl"
    /\ Replies(c, "queued", "retry")
    /\ UNCHANGED events

(* ... and what comes then is taken for a startup message.                 *)
PgStartup(c) ==
    /\ PgHandshake(c)
    /\ \/ First(c) = "startup" /\ Replies(c, "queued", "login")
       \/ First(c) \in {"startup", "ssl", "short"} /\ Replies(c, "retry", "login")
    /\ UNCHANGED events

(* Any other first message is believed to be a long one, of which recv     *)
(* gives all that is there: the whole segment is a startup message, if it  *)
(* is longer than the five bytes of a message without a body.              *)
PgTakenForStartup(c) ==
    /\ PgHandshake(c) /\ First(c) \notin {"startup", "ssl", "short", "garbled"}
    /\ First(c) \in {"sync", "terminate"} => Len(conn[c].inbox) > 1
    /\ \E from \in {"queued", "retry"} :
          Moves(c, from, [Answering(Taking(c), "login") EXCEPT
                             !.inbox = <<>>, !.lost = (Len(conn[c].inbox) > 1)])
    /\ UNCHANGED events

(* Of a short one nothing is left when its body is read, and recv waits    *)
(* for more, without a timeout: in vain, if nothing else was sent.         *)
PgShort(c) ==
    /\ PgHandshake(c) /\ First(c) = "short"
    /\ Moves(c, "queued", [Taking(c) EXCEPT !.at = "midway", !.line = None,
                                            !.lost = (Len(conn[c].inbox) = 1)])
    /\ UNCHANGED events

(* The next one in its segment is cut in two: a body, which is answered,   *)
(* and what is no password, which ends the connection with an error; or    *)
(* that waits for the rest of its length too, if it got one from a third.  *)
PgCutInTwo(c) ==
    LET all == [Taking(c) EXCEPT !.line = None, !.inbox = <<>>]
    IN  /\ PgHandshake(c)
        /\ \E k \in {[all EXCEPT !.at = "closed"]}
                     \cup {[all EXCEPT !.lost = TRUE] : i \in 2..Len(conn[c].inbox)} :
              Moves(c, "midway", k)
        /\ UNCHANGED events

PgPassword(c) ==
    /\ PgHandshake(c) /\ First(c) = "password"
    /\ Moves(c, "login", [Answering(Taking(c), "ready") EXCEPT !.sid = c])
    /\ Logs(LoginEvent(c, c, conn'[c].n, FALSE))

\* What is no password is answered with an error; a startup message cannot be read.
PgNoPassword(c) ==
    /\ PgHandshake(c) /\ First(c) # "password"
    /\ Replies(c, "login", "closed")
    /\ UNCHANGED events

(* A message that unpack or the connection cannot take ends the handler.   *)
PgGarbled(c) ==
    /\ PgHandshake(c)
    /\ \/ First(c) \notin {"startup", "ssl", "short"}
          /\ \E from \in {"queued", "retry"} : Dies(c, from)
       \/ First(c) \in {"garbled", "startup", "short"} /\ Dies(c, "ready")
    /\ UNCHANGED events

-----------------------------------------------------------------------------
(* The messages of a session. *)

Message(c, kinds) == Arrived(c) /\ First(c) \in kinds

\* _log_query, then _process_query.
PgQuery(c) ==
    /\ Message(c, {"query"})
    /\ Moves(c, "ready", [Taking(c) EXCEPT !.at = "process"])
    /\ Logs(CommandEvent(c, "error"))
    /\ UNCHANGED <<answered, pgVars>>

(* The action's answer, or OK; then ReadyForQuery. *)
PgResult(c) ==
    /\ Moves(c, "process", Answering(conn[c], "ready"))
    /\ Answers(c)
    /\ UNCHANGED <<events, pgVars>>

PgParse(c) ==
    /\ Message(c, {"parse"}) /\ Replies(c, "ready", "ready")
    /\ statements' = statements \cup {c}
    /\ UNCHANGED <<events, answered, portals>>

PgBind(c) ==
    /\ Message(c, {"bind"}) /\ Replies(c, "ready", "ready")
    /\ portals' = portals \cup {c}
    /\ UNCHANGED <<events, answered, statements>>

(* Describe sends a description or NoData. *)
PgDescribe(c) ==
    /\ Message(c, {"describe"}) /\ Replies(c, "ready", "ready")
    /\ UNCHANGED <<events, answered, pgVars>>

(* Execute runs the query of a portal whose statement is there, which      *)
(* nothing logs, and completes an empty one otherwise.                     *)
PgExecute(c) ==
    /\ Message(c, {"execute"})
    /\ IF c \in statements \cap portals
       THEN Moves(c, "ready", [Taking(c) EXCEPT !.at = "scan"])
       ELSE Replies(c, "ready", "ready")
    /\ UNCHANGED <<events, answered, pgVars>>

PgExecuted(c) ==
    /\ Moves(c, "scan", Answering(conn[c], "ready"))
    /\ UNCHANGED <<events, answered, pgVars>>

\* Mutant: an unknown message is passed over.
PgOtherIgnored(c) ==
    /\ \/ /\ Message(c, {"sync", "ssl", "malformed", "password"})
          /\ Replies(c, "ready", "ready")
       \/ /\ Message(c, {"unknown"})
          /\ Moves(c, "ready", [Taking(c) EXCEPT !.line = None])
    /\ UNCHANGED <<events, answered, pgVars>>

(* Sync, a late SSL or GSSENC request (marked "S", as Sync is) and an      *)
(* unknown message: ReadyForQuery.  A malformed one: an error.             *)
PgOther(c) ==
    /\ Message(c, {"sync", "ssl", "unknown", "malformed", "password"})
    /\ Replies(c, "ready", "ready")
    /\ UNCHANGED <<events, answered, pgVars>>

PgTerminate(c) ==
    /\ Message(c, {"terminate"})
    /\ Moves(c, "ready", [Taking(c) EXCEPT !.at = "closed", !.line = None])
    /\ UNCHANGED <<events, answered, pgVars>>

PgClosed(c) ==
    /\ \E from \in {"queued", "midway", "retry", "login", "ready"} : EndOfFile(c, from)
    /\ UNCHANGED pgVars

Pg(c) ==
    \/ PgRefuseSsl(c) \/ PgStartup(c) \/ PgTakenForStartup(c) \/ PgShort(c) \/ PgCutInTwo(c)
    \/ PgPassword(c) \/ PgNoPassword(c) \/ PgGarbled(c)
    \/ PgQuery(c) \/ PgResult(c) \/ PgParse(c) \/ PgBind(c) \/ PgDescribe(c)
    \/ PgExecute(c) \/ PgExecuted(c) \/ PgOther(c) \/ PgTerminate(c) \/ PgClosed(c)
=============================================================================
