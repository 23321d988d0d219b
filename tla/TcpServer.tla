----------------------------- MODULE TcpServer -----------------------------
(***************************************************************************)
(* honeypots/tcp_honeypot.py: one thread accepts a connection and serves   *)
(* it to its end before the next.  A segment is a command.                 *)
(***************************************************************************)
EXTENDS Connections

VARIABLE accepting   \* the thread of _accept_connections lives

TcpInit == accepting = TRUE

Serving == \E c \in Clients :
    conn[c].at \in {"ready", "process"}

\* Mutant: a thread for each connection.
TcpAcceptAll(c) ==
    /\ accepting
    /\ Moves(c, "queued", [conn[c] EXCEPT !.at = "ready", !.sid = c])
    /\ Logs(LoginEvent(c, c, 0, FALSE))
    /\ UNCHANGED <<answered, accepting>>

TcpAccept(c) ==
    /\ accepting /\ ~Serving
    /\ Moves(c, "queued", [conn[c] EXCEPT !.at = "ready", !.sid = c])
    /\ Logs(LoginEvent(c, c, 0, FALSE))
    /\ UNCHANGED <<answered, accepting>>

(* recv; the command is logged before its answer is known. *)
TcpReceive(c) ==
    /\ Arrived(c)
    /\ Moves(c, "ready", [Taking(c) EXCEPT !.at = "process", !.inbox = <<>>])
    /\ Logs(CommandEvent(c, "command"))
    /\ UNCHANGED <<answered, accepting>>

TcpAnswer(c) ==
    /\ Moves(c, "process", [Answering(conn[c], "ready") EXCEPT !.owed = 0])
    /\ Answers(c)
    /\ UNCHANGED <<events, accepting>>

TcpClosed(c) == EndOfFile(c, "ready") /\ UNCHANGED accepting

(* A timeout or a reset is an OSError, which leaves the accept loop; what  *)
(* else the query raises ends the thread: nobody is served any more.       *)
TcpFails(c) ==
    /\ \E from \in {"ready", "process"} : Dies(c, from)
    /\ accepting' = FALSE

Tcp(c) == TcpAccept(c) \/ TcpReceive(c) \/ TcpAnswer(c) \/ TcpClosed(c) \/ TcpFails(c)
=============================================================================
