---------------------------- MODULE Connections ----------------------------
(***************************************************************************)
(* What the TCP, Redis, Telnet, PostgreSQL and MySQL honeypots have in     *)
(* common: connections that hand lines to a handler, a session for each,   *)
(* the events they log and the answers they send (honeypots/               *)
(* base_honeypot.py log_login, log_data).  A line is a request of its      *)
(* protocol, a member of Lines[p]; texts are left out.  A client sends     *)
(* lines, some of them in one segment, waits for as many answers, and      *)
(* hangs up when it likes.  The honeypots share nothing but the log, so    *)
(* one protocol is deployed in each behaviour.                             *)
(***************************************************************************)
EXTENDS Naturals, Sequences

CONSTANTS
    Clients,     \* connections
    Addrs,       \* the addresses they come from
    None,
    Protocols,
    Lines,       \* Lines[p]: the requests of protocol p
    Segments,    \* bound: how many lines, of one kind, a segment may hold
    Seats,       \* bound: Seats[p], the connections of protocol p and where they come from
    MaxLines     \* bound: MaxLines[p], the lines of one connection of protocol p

ASSUME ConnectionsAssumption ==
    /\ None \notin Clients \cup Addrs
    /\ DOMAIN Lines = Protocols
    /\ Segments \in Nat \ {0}
    /\ Seats \in [Protocols -> SUBSET (Clients \X Addrs)]
    /\ MaxLines \in [Protocols -> Nat]

VARIABLES
    deployed,  \* the protocol of the honeypot
    conn,      \* conn[c]: the connection and the locals of its handler
    events,    \* the log
    answered   \* history: the commands, by connection and number, that were answered

base == <<deployed, conn, events, answered>>

Fresh == [addr |-> None, at |-> "new", inbox |-> <<>>, line |-> None,
           owed |-> 0, n |-> 0, sid |-> None, gone |-> FALSE, lost |-> FALSE]

BaseInit ==
    /\ deployed \in Protocols
    /\ conn = [c \in Clients |-> Fresh]
    /\ events = {}
    /\ answered = {}

-----------------------------------------------------------------------------
(* Clients. *)

Connect(c, a) ==
    /\ conn[c].at = "new" /\ <<c, a>> \in Seats[deployed]
    /\ conn' = [conn EXCEPT ![c] = [Fresh EXCEPT !.addr = a, !.at = "queued"]]
    /\ UNCHANGED <<deployed, events, answered>>

Open(c) == conn[c].at \notin {"new", "closed"} /\ ~conn[c].gone

Send(c, lines) ==
    /\ Open(c) /\ conn[c].owed = 0
    /\ conn[c].n + Len(lines) <= MaxLines[deployed]
    /\ conn' = [conn EXCEPT ![c].inbox = @ \o lines, ![c].owed = Len(lines)]
    /\ UNCHANGED <<deployed, events, answered>>

HangUp(c) ==
    /\ Open(c)
    /\ conn' = [conn EXCEPT ![c].gone = TRUE]
    /\ UNCHANGED <<deployed, events, answered>>

Client(c) ==
    \/ \E a \in Addrs : Connect(c, a)
    \/ \E k \in 1..Segments, line \in Lines[deployed] : Send(c, [i \in 1..k |-> line])
    \/ HangUp(c)

-----------------------------------------------------------------------------
(* Steps of a handler. *)

Moves(c, from, k) ==
    /\ conn[c].at = from
    /\ conn' = [conn EXCEPT ![c] = k]
    /\ UNCHANGED deployed

Arrived(c) == conn[c].inbox # <<>>
First(c) == Head(conn[c].inbox)

\* The connection with its next line taken.
Taking(c) ==
    [conn[c] EXCEPT !.inbox = Tail(@), !.line = First(c), !.n = @ + 1]

\* The connection with one answer sent.
Answering(k, to) == [k EXCEPT !.at = to, !.owed = IF @ > 0 THEN @ - 1 ELSE 0, !.line = None]

Answers(c) == answered' = answered \cup {<<c, conn'[c].n>>}

(* recv returns nothing: the client has hung up. *)
EndOfFile(c, from) ==
    /\ conn[c].gone /\ ~Arrived(c)
    /\ Moves(c, from, [conn[c] EXCEPT !.at = "closed", !.line = None])
    /\ UNCHANGED <<events, answered>>

(* An exception ends the handler. *)
Dies(c, from) ==
    /\ Moves(c, from, [conn[c] EXCEPT !.at = "closed", !.line = None])
    /\ UNCHANGED <<events, answered>>

\* attempt: the number of the command that made the attempt, 0 if none did; ok: it is known
\* to be accepted.
LoginEvent(c, s, attempt, ok) ==
    [type |-> "auth_attempt", sid |-> s, addr |-> conn[c].addr, client |-> c, n |-> attempt, ok |-> ok]

\* type: log_data makes an "error" event of data without a "command".
CommandEvent(c, type) ==
    [type |-> type, sid |-> conn[c].sid, addr |-> conn[c].addr, client |-> c, n |-> conn'[c].n,
     ok |-> TRUE]

Logs(e) == events' = events \cup {e}

-----------------------------------------------------------------------------
ConnectionsOK ==
    /\ deployed \in Protocols
    /\ \A c \in Clients :
          /\ conn[c] \in
                [addr : Addrs \cup {None},
                 at : {"new", "queued", "login", "ready", "process", "scan", "log", "reply",
                       "midway", "retry", "stuck", "closed"},
                 inbox : Seq(Lines[deployed]), line : Lines[deployed] \cup {None},
                 owed : 0..Segments, n : 0..MaxLines[deployed], sid : Clients \cup {None},
                 gone : BOOLEAN, lost : BOOLEAN]
          /\ conn[c].line # None => conn[c].at \in {"process", "scan", "log", "reply"}
    /\ events \subseteq
          [type : {"auth_attempt", "command", "error"}, sid : Clients, addr : Addrs,
           client : Clients, n : 0..MaxLines[deployed], ok : BOOLEAN]
    /\ answered \subseteq Clients \X (1..MaxLines[deployed])
=============================================================================
