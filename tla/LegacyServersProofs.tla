------------------------ MODULE LegacyServersProofs ------------------------
(***************************************************************************)
(* The TCP, Redis, Telnet, PostgreSQL and MySQL honeypots, for any number  *)
(* of connections, addresses, lines and segments.  The actions differ in   *)
(* their requests and agree in their form: a connection takes a line, goes *)
(* on, answers, gets its session or ends.  So each form is proved to keep  *)
(* a connection in order (Fit) once, each action is shown to be a step of  *)
(* its form (Steps) and to keep the rule of its honeypot, and the parts of *)
(* the invariant are proved of those.                                      *)
(***************************************************************************)
EXTENDS LegacyServers, TLAPS

\* A command is being answered.
Busy == {"process", "scan", "log", "reply"}
Places == {"new", "queued", "midway", "login", "ready", "retry", "stuck", "closed"} \cup Busy
Numbers == 0..MaxLines[deployed]

Connection ==
    [addr : Addrs \cup {None}, at : Places,
     inbox : Seq(Lines[deployed]), line : Lines[deployed] \cup {None},
     owed : 0..Segments, n : Numbers, sid : Clients \cup {None},
     gone : BOOLEAN, lost : BOOLEAN]

(* A connection: the client is owed an answer for every line that is on    *)
(* its way, and has a session from its login to its end.                   *)
Fit(k) ==
    /\ k \in Connection
    /\ k.n + Len(k.inbox) <= MaxLines[deployed]
    /\ Len(k.inbox) <= k.owed
    /\ k.at \in Busy => Len(k.inbox) < k.owed /\ k.n > 0
    /\ k.line # None => k.at \in Busy
    /\ k.at = "new" <=> k.addr = None
    /\ k.at = "new" => k.n = 0
    /\ k.at \in {"new", "queued", "midway", "login", "retry"} => k.sid = None
    /\ k.at \in Busy \cup {"ready", "stuck"} => k.sid # None

ConnInv == conn \in [Clients -> Connection] /\ \A c \in Clients : Fit(conn[c])

\* Where a connection's session must have a login, and where it waits for the
\* answer to a command that is in the log.
Working == Busy \cup (IF deployed = "redis" THEN {} ELSE {"ready", "stuck"})
Waiting == IF deployed = "redis" THEN "reply" ELSE "process"

Logins == {e \in events : e.type = "auth_attempt"}

\* Session s was logged in, from address a.
LoggedIn(s, a) == \E l \in Logins : l.sid = s /\ l.addr = a /\ (prompts => l.ok)
HasLogin(c) == LoggedIn(conn[c].sid, conn[c].addr)

(* A session that takes commands has its login in the log; only a Telnet   *)
(* session may be another connection's.                                    *)
LoginInv ==
    /\ prompts => deployed = "telnet"
    /\ deployed # "telnet" => \A c \in Clients : conn[c].sid \in {None, c}
    /\ deployed # "mysql" =>
          /\ \A e \in CommandEvents : LoggedIn(e.sid, e.addr)
          /\ \A c \in Clients : conn[c].at \in Working => HasLogin(c)
          /\ \A a \in Addrs : sessions[a] # None => LoggedIn(sessions[a].sid, a)

\* Command n of connection c is in the log, under its session.
Commanded(c, n) == \E e \in CommandEvents : e.client = c /\ e.n = n /\ e.sid = conn[c].sid
Recorded(c) == Commanded(c, conn[c].n)

(* A command that is or will be answered is in the log.                    *)
AnswerInv ==
    /\ \A p \in answered : Commanded(p[1], p[2])
    /\ \A c \in Clients : conn[c].at = Waiting => Recorded(c)

Noted(t) == \E l \in Logins : l.client = t[1] /\ l.n = t[2]

(* The attempts of a connection, but for the last one, are in the log; that *)
(* one too, from its next command on.                                      *)
TriedInv ==
    /\ attempt \in [Clients -> Numbers]
    /\ tried \subseteq Clients \X Numbers
    /\ deployed # "redis" => tried = {}
    /\ \A e \in CommandEvents : e.n <= conn[e.client].n
    /\ \A t \in tried :
          /\ t[2] <= conn[t[1]].n
          /\ Noted(t) \/ t[2] = attempt[t[1]]
          /\ conn[t[1]].at = "process" => t[2] < conn[t[1]].n
          /\ conn[t[1]].at \in Busy /\ t[2] < conn[t[1]].n => Noted(t)
          /\ \A e \in CommandEvents : e.client = t[1] /\ t[2] < e.n => Noted(t)

(* One connection is served, and its segments are taken as one.            *)
TcpInv == deployed = "tcp" => \A c \in Clients : conn[c].at = "process" => conn[c].inbox = <<>>

TelnetInv ==
    /\ sessions \in [Addrs -> [sid : Clients, created : 0..MaxClock] \cup {None}]
    /\ \A a \in Addrs : sessions[a] # None => sessions[a] \in [sid : Clients, created : 0..clock]
    /\ \A c \in Clients : now[c] <= clock

IInv == TypeOK /\ ConnInv /\ TcpInv /\ TelnetInv /\ LoginInv /\ AnswerInv /\ TriedInv
-----------------------------------------------------------------------------
(* What the handlers do to a connection. *)

(* Connection c goes from one place to another, has `taken' lines more and *)
(* session s, and is as it should be.                                      *)
Turns(c, from, to, taken, s) ==
    /\ conn[c].at = from
    /\ deployed' = deployed
    /\ conn' = [conn EXCEPT ![c] = conn'[c]]
    /\ Fit(conn'[c])
    /\ conn'[c].at = to
    /\ from # "new" => conn'[c].addr = conn[c].addr
    /\ conn'[c].n = conn[c].n + taken
    /\ conn'[c].sid = s

LEMMA Moved ==
  ASSUME ConnInv, NEW c \in Clients, NEW from, NEW k, Moves(c, from, k)
  PROVE  /\ conn[c].at = from /\ deployed' = deployed
         /\ conn' = [conn EXCEPT ![c] = conn'[c]] /\ conn'[c] = k
  BY DEF ConnInv, Moves

(* The values of a connection that fits, for the arithmetic below. *)
LEMMA Fitting ==
  ASSUME deployed \in Protocols, NEW k, Fit(k)
  PROVE  /\ k \in Connection /\ MaxLines[deployed] \in Nat
         /\ k.n \in Nat /\ k.owed \in Nat /\ k.owed <= Segments /\ Segments \in Nat
         /\ k.inbox \in Seq(Lines[deployed]) /\ Len(k.inbox) \in Nat
  <1>1. MaxLines[deployed] \in Nat /\ Segments \in Nat
    BY ConnectionsAssumption
  <1>2. k \in Connection
    BY DEF Fit
  <1>3. k.n \in Numbers /\ k.owed \in 0..Segments /\ k.inbox \in Seq(Lines[deployed])
    BY <1>2 DEF Connection
  <1>4. Len(k.inbox) \in Nat
    BY <1>3
  <1> QED
    BY <1>1, <1>2, <1>3, <1>4 DEF Numbers

LEMMA Empty == ASSUME NEW S PROVE <<>> \in Seq(S) /\ Len(<<>>) = 0
  OBVIOUS

LEMMA HeadTail ==
  ASSUME NEW S, NEW q \in Seq(S), q # <<>>
  PROVE  /\ Head(q) \in S /\ Tail(q) \in Seq(S)
         /\ Len(q) \in Nat /\ Len(Tail(q)) = Len(q) - 1 /\ Len(q) > 0
  OBVIOUS

LEMMA TakingFits ==
  ASSUME deployed \in Protocols, ConnInv, NEW c \in Clients, Arrived(c), NEW k, k = Taking(c)
  PROVE  /\ k \in Connection
         /\ k.addr = conn[c].addr /\ k.at = conn[c].at /\ k.sid = conn[c].sid /\ k.owed = conn[c].owed
         /\ k.n = conn[c].n + 1 /\ k.n \in Nat /\ k.n <= MaxLines[deployed]
         /\ Len(k.inbox) \in Nat /\ Len(k.inbox) = Len(conn[c].inbox) - 1
         /\ k.n + Len(k.inbox) <= MaxLines[deployed] /\ Len(k.inbox) < k.owed
  <1>1. Fit(conn[c]) /\ conn[c] \in Connection
    BY DEF ConnInv
  <1>2. /\ MaxLines[deployed] \in Nat /\ conn[c].n \in Nat /\ conn[c].owed \in Nat
        /\ conn[c].inbox \in Seq(Lines[deployed]) /\ Len(conn[c].inbox) \in Nat
    BY <1>1, Fitting
  <1>3. /\ Head(conn[c].inbox) \in Lines[deployed] /\ Tail(conn[c].inbox) \in Seq(Lines[deployed])
        /\ Len(Tail(conn[c].inbox)) = Len(conn[c].inbox) - 1 /\ Len(conn[c].inbox) > 0
    BY <1>2, HeadTail DEF Arrived
  <1>4. /\ conn[c].n + Len(conn[c].inbox) <= MaxLines[deployed] /\ Len(conn[c].inbox) <= conn[c].owed
    BY <1>1 DEF Fit
  <1>5. conn[c].n + 1 \in Numbers
    BY <1>2, <1>3, <1>4 DEF Numbers
  <1>6. /\ k \in Connection
        /\ k.addr = conn[c].addr /\ k.at = conn[c].at /\ k.sid = conn[c].sid /\ k.owed = conn[c].owed
        /\ k.n = conn[c].n + 1 /\ k.inbox = Tail(conn[c].inbox)
    BY <1>1, <1>3, <1>5 DEF Taking, First, Connection
  <1>7. Len(k.inbox) \in Nat /\ Len(k.inbox) = Len(conn[c].inbox) - 1
    BY <1>2, <1>3, <1>6
  <1>8. k.n \in Nat /\ k.n <= MaxLines[deployed]
    BY <1>2, <1>5, <1>6 DEF Numbers
  <1> HIDE DEF Connection
  <1>9. k.n + Len(k.inbox) <= MaxLines[deployed] /\ Len(k.inbox) < k.owed
    BY <1>2, <1>4, <1>6, <1>7
  <1> QED
    BY <1>6, <1>7, <1>8, <1>9

(* A session begins, or a handler goes on to its next await or statement.  *)
LEMMA Settles ==
  ASSUME deployed \in Protocols, ConnInv, NEW c \in Clients, NEW s \in Clients,
         Moves(c, "queued", [conn[c] EXCEPT !.at = "ready", !.sid = s])
  PROVE  Turns(c, "queued", "ready", 0, s)
  <1> DEFINE k == conn'[c]
  <1>1. /\ conn[c].at = "queued" /\ deployed' = deployed /\ conn' = [conn EXCEPT ![c] = k]
        /\ k = [conn[c] EXCEPT !.at = "ready", !.sid = s]
    BY Moved
  <1>2. Fit(conn[c]) /\ conn[c] \in Connection
    BY DEF ConnInv
  <1> HIDE DEF k
  <1>3. /\ k \in Connection /\ k.at = "ready" /\ k.sid = s /\ k.addr = conn[c].addr /\ k.n = conn[c].n
        /\ k.inbox = conn[c].inbox /\ k.owed = conn[c].owed /\ k.line = conn[c].line
    BY <1>1, <1>2 DEF Connection, Places
  <1>4. conn[c].n + 0 = conn[c].n
    BY <1>2, Fitting
  <1>5. Fit(k)
    BY <1>1, <1>2, <1>3, ConnectionsAssumption DEF Fit, Busy
  <1> QED
    BY <1>1, <1>3, <1>4, <1>5 DEF Turns, k

LEMMA GoesOn ==
  ASSUME deployed \in Protocols, ConnInv, NEW c \in Clients, NEW from, NEW to,
         <<from, to>> \in (Busy \X Busy) \cup {<<"queued", "login">>},
         Moves(c, from, [conn[c] EXCEPT !.at = to])
  PROVE  Turns(c, from, to, 0, conn[c].sid)
  <1> DEFINE k == conn'[c]
  <1>1. /\ conn[c].at = from /\ deployed' = deployed /\ conn' = [conn EXCEPT ![c] = k]
        /\ k = [conn[c] EXCEPT !.at = to]
    BY Moved
  <1>2. Fit(conn[c]) /\ conn[c] \in Connection
    BY DEF ConnInv
  <1> HIDE DEF k
  <1>3. /\ k \in Connection /\ k.at = to /\ k.sid = conn[c].sid /\ k.addr = conn[c].addr
        /\ k.n = conn[c].n /\ k.inbox = conn[c].inbox /\ k.owed = conn[c].owed /\ k.line = conn[c].line
    BY <1>1, <1>2 DEF Connection, Places, Busy
  <1>4. conn[c].n + 0 = conn[c].n
    BY <1>2, Fitting
  <1>5. Fit(k)
    BY <1>1, <1>2, <1>3 DEF Fit, Busy
  <1> QED
    BY <1>1, <1>3, <1>4, <1>5 DEF Turns, k

(* A line is taken for an answer that comes later ... *)
LEMMA Takes ==
  ASSUME deployed \in Protocols, ConnInv, NEW c \in Clients, NEW to, to \in {"process", "scan"}, Arrived(c),
         Moves(c, "ready", [Taking(c) EXCEPT !.at = to])
  PROVE  Turns(c, "ready", to, 1, conn[c].sid)
  <1> DEFINE k == conn'[c]
             t == Taking(c)
  <1>1. /\ conn[c].at = "ready" /\ deployed' = deployed /\ conn' = [conn EXCEPT ![c] = k]
        /\ k = [t EXCEPT !.at = to]
    BY Moved
  <1>2. Fit(conn[c]) /\ conn[c] \in Connection
    BY DEF ConnInv
  <1>3. /\ t \in Connection
        /\ t.addr = conn[c].addr /\ t.sid = conn[c].sid
        /\ t.n = conn[c].n + 1 /\ t.n \in Nat /\ t.owed = conn[c].owed
        /\ Len(t.inbox) \in Nat /\ t.n + Len(t.inbox) <= MaxLines[deployed] /\ Len(t.inbox) < t.owed
    BY TakingFits
  <1> HIDE DEF k, t
  <1>4. /\ k \in Connection /\ k.at = to /\ k.sid = t.sid /\ k.addr = t.addr
        /\ k.n = t.n /\ k.inbox = t.inbox /\ k.owed = t.owed
    BY <1>1, <1>3 DEF Connection, Places, Busy
  <1>5. conn[c].n \in Nat /\ conn[c].owed \in Nat
    BY <1>2, Fitting
  <1>6. conn[c].sid # None /\ conn[c].addr # None
    BY <1>1, <1>2 DEF Fit
  <1>7. Fit(k)
    BY <1>1, <1>3, <1>4, <1>5, <1>6 DEF Fit, Busy
  <1> QED
    BY <1>1, <1>3, <1>4, <1>7 DEF Turns, k

\* All lines are taken together.
Gulped(c, k) ==
    \/ k = [Taking(c) EXCEPT !.at = "process", !.inbox = <<>>]
    \/ \E lost \in BOOLEAN : k = [Taking(c) EXCEPT !.at = "process", !.inbox = <<>>, !.lost = lost]

LEMMA TakesAll ==
  ASSUME deployed \in Protocols, ConnInv, NEW c \in Clients, Arrived(c), NEW k, Gulped(c, k),
         Moves(c, "ready", k)
  PROVE  Turns(c, "ready", "process", 1, conn[c].sid) /\ conn'[c].inbox = <<>>
  <1> DEFINE t == Taking(c)
  <1>1. /\ conn[c].at = "ready" /\ deployed' = deployed /\ conn' = [conn EXCEPT ![c] = k] /\ conn'[c] = k
    BY Moved
  <1>2. Fit(conn[c]) /\ conn[c] \in Connection
    BY DEF ConnInv
  <1>3. /\ t \in Connection
        /\ t.addr = conn[c].addr /\ t.sid = conn[c].sid
        /\ t.n = conn[c].n + 1 /\ t.n \in Nat /\ t.n <= MaxLines[deployed] /\ t.owed = conn[c].owed
        /\ Len(t.inbox) \in Nat /\ Len(t.inbox) < t.owed
    BY TakingFits
  <1> HIDE DEF t
  <1>4. <<>> \in Seq(Lines[deployed]) /\ Len(<<>>) = 0
    BY Empty
  <1>5. /\ k \in Connection /\ k.at = "process" /\ k.sid = t.sid /\ k.addr = t.addr
        /\ k.n = t.n /\ k.inbox = <<>> /\ k.owed = t.owed
    BY <1>3, <1>4 DEF Connection, Places, Busy, Gulped, t
  <1>6. conn[c].n \in Nat /\ conn[c].owed \in Nat
    BY <1>2, Fitting
  <1>7. conn[c].sid # None /\ conn[c].addr # None
    BY <1>1, <1>2 DEF Fit
  <1>8. k.n + Len(k.inbox) <= MaxLines[deployed] /\ Len(k.inbox) < k.owed /\ k.n > 0
    BY <1>3, <1>4, <1>5, <1>6
  <1>9. Len(k.inbox) <= k.owed
    BY <1>3, <1>4, <1>5, <1>6
  <1>10. Fit(k)
    BY <1>3, <1>5, <1>7, <1>8, <1>9 DEF Fit, Busy
  <1> QED
    BY <1>1, <1>3, <1>5, <1>10 DEF Turns

LEMMA Clears ==
  ASSUME deployed \in Protocols, ConnInv, NEW c \in Clients, Arrived(c),
         Moves(c, "ready", [Taking(c) EXCEPT !.at = "ready", !.line = None, !.inbox = <<>>, !.lost = TRUE])
  PROVE  Turns(c, "ready", "ready", 1, conn[c].sid)
  <1> DEFINE t == Taking(c)
             k == conn'[c]
  <1>1. /\ conn[c].at = "ready" /\ deployed' = deployed /\ conn' = [conn EXCEPT ![c] = k]
        /\ k = [t EXCEPT !.at = "ready", !.line = None, !.inbox = <<>>, !.lost = TRUE]
    BY Moved
  <1>2. Fit(conn[c]) /\ conn[c] \in Connection
    BY DEF ConnInv
  <1>3. /\ t \in Connection
        /\ t.addr = conn[c].addr /\ t.sid = conn[c].sid
        /\ t.n = conn[c].n + 1 /\ t.n \in Nat /\ t.n <= MaxLines[deployed] /\ t.owed = conn[c].owed
        /\ Len(t.inbox) \in Nat /\ Len(t.inbox) < t.owed
    BY TakingFits
  <1> HIDE DEF t, k
  <1>4. <<>> \in Seq(Lines[deployed]) /\ Len(<<>>) = 0
    BY Empty
  <1>5. /\ k \in Connection /\ k.at = "ready" /\ k.sid = t.sid /\ k.addr = t.addr
        /\ k.n = t.n /\ k.inbox = <<>> /\ k.owed = t.owed /\ k.line = None
    BY <1>1, <1>3, <1>4 DEF Connection, Places
  <1>6. conn[c].n \in Nat /\ conn[c].owed \in Nat
    BY <1>2, Fitting
  <1>7. conn[c].sid # None /\ conn[c].addr # None
    BY <1>1, <1>2 DEF Fit
  <1>8. Fit(k)
    BY <1>3, <1>4, <1>5, <1>6, <1>7 DEF Fit, Busy
  <1> QED
    BY <1>1, <1>3, <1>5, <1>8 DEF Turns, k

(* ... or answered at once, or dropped; a session begins with it, or not. *)

\* Ways that leave the session of a connection as it is.
Route(from, to) ==
    \/ from \in {"queued", "midway", "login", "retry"} /\ to \in {"midway", "login", "retry", "closed"}
    \/ from = "ready" /\ to \in {"ready", "stuck", "closed"}

\* ... or give it one.
Passes(c, from, to, s) ==
    \/ s = conn[c].sid /\ Route(from, to)
    \/ s # None /\ from = "login" /\ to = "ready"

LEMMA RoutePasses == \A c, from, to : Route(from, to) => Passes(c, from, to, conn[c].sid)
  BY DEF Passes

LEMMA LineGone ==
  ASSUME deployed \in Protocols, ConnInv, NEW c \in Clients, Arrived(c), NEW from, NEW to,
         NEW s \in Clients \cup {None}, NEW k \in Connection, Moves(c, from, k),
         Passes(c, from, to, s),
         k.at = to, k.sid = s, k.addr = conn[c].addr, k.n = Taking(c).n,
         k.inbox \in {Taking(c).inbox, <<>>},
         k.line = None, k.owed \in {conn[c].owed, conn[c].owed - 1}
  PROVE  Turns(c, from, to, 1, s)
  <1> DEFINE t == Taking(c)
  <1>1. /\ conn[c].at = from /\ deployed' = deployed /\ conn' = [conn EXCEPT ![c] = conn'[c]] /\ conn'[c] = k
    BY Moved
  <1>2. Fit(conn[c]) /\ conn[c] \in Connection
    BY DEF ConnInv
  <1>3. /\ t.n = conn[c].n + 1 /\ t.n \in Nat /\ t.owed = conn[c].owed
        /\ Len(t.inbox) \in Nat /\ t.n + Len(t.inbox) <= MaxLines[deployed] /\ Len(t.inbox) < t.owed
    BY TakingFits
  <1>4. conn[c].n \in Nat /\ conn[c].owed \in Nat
    BY <1>2, Fitting
  <1> HIDE DEF t
  <1>5. /\ Len(k.inbox) <= k.owed /\ k.n + Len(k.inbox) <= MaxLines[deployed] /\ k.n = conn[c].n + 1
    <2>1. k.inbox \in {t.inbox, <<>>} /\ k.n = t.n
      BY DEF t
    <2>2. Len(k.inbox) \in Nat /\ Len(k.inbox) <= Len(t.inbox)
      BY <1>3, <2>1, Empty
    <2>3. MaxLines[deployed] \in Nat
      BY <1>2, Fitting
    <2> QED
      BY <1>3, <1>4, <2>1, <2>2, <2>3
  <1>6. conn[c].addr # None /\ (from = "ready" => conn[c].sid # None)
        /\ (from \in {"queued", "midway", "login", "retry"} => conn[c].sid = None)
    BY <1>1, <1>2 DEF Fit, Passes, Route
  <1>7. Fit(k)
    BY <1>5, <1>6 DEF Fit, Busy, Passes, Route
  <1> QED
    BY <1>1, <1>5, <1>7 DEF Turns

LEMMA Replied ==
  ASSUME deployed \in Protocols, ConnInv, NEW c \in Clients, Arrived(c), NEW from, NEW to, Route(from, to),
         Moves(c, from, Answering(Taking(c), to))
  PROVE  Turns(c, from, to, 1, conn[c].sid)
  <1> DEFINE t == Taking(c)
             k == Answering(t, to)
  <1>1. conn[c].owed \in Nat /\ conn[c].owed <= Segments /\ Segments \in Nat
    BY Fitting DEF ConnInv
  <1>2. /\ t \in Connection /\ t.addr = conn[c].addr /\ t.sid = conn[c].sid /\ t.owed = conn[c].owed
        /\ Len(t.inbox) \in Nat /\ Len(t.inbox) < t.owed
    BY TakingFits
  <1> HIDE DEF t
  <1>3. t.owed > 0 /\ t.owed - 1 \in 0..Segments
    BY <1>1, <1>2
  <1>4. /\ k \in Connection /\ k.at = to /\ k.sid = t.sid /\ k.addr = t.addr
        /\ k.n = t.n /\ k.inbox = t.inbox /\ k.line = None /\ k.owed = t.owed - 1
    BY <1>2, <1>3 DEF Answering, Connection, Places, Route
  <1>5. t.sid \in Clients \cup {None} /\ Moves(c, from, k)
    BY <1>2 DEF Connection, t
  <1> HIDE DEF k
  <1>6. /\ k.sid = conn[c].sid /\ k.addr = conn[c].addr /\ k.n = Taking(c).n /\ k.inbox = Taking(c).inbox
        /\ k.owed = conn[c].owed - 1 /\ conn[c].sid \in Clients \cup {None}
    BY <1>2, <1>4, <1>5 DEF t
  <1>7. Passes(c, from, to, conn[c].sid)
    BY RoutePasses
  <1>8. k.owed \in {conn[c].owed, conn[c].owed - 1}
    BY <1>6
  <1> QED
    BY <1>4, <1>5, <1>6, <1>7, <1>8, LineGone

\* A segment is taken for one message, or a message for half of one.
Misread(c, k) ==
    \/ \E lost \in BOOLEAN :
          \/ k = [Answering(Taking(c), "login") EXCEPT !.inbox = <<>>, !.lost = lost]
          \/ k = [Taking(c) EXCEPT !.at = "midway", !.line = None, !.lost = lost]
    \/ k = [Taking(c) EXCEPT !.line = None, !.inbox = <<>>, !.at = "closed"]
    \/ k = [Taking(c) EXCEPT !.line = None, !.inbox = <<>>, !.lost = TRUE] /\ k.at = "midway"

LEMMA Misreads ==
  ASSUME deployed \in Protocols, ConnInv, NEW c \in Clients, Arrived(c),
         NEW from \in {"queued", "midway", "retry"}, NEW k, Misread(c, k), Moves(c, from, k)
  PROVE  Turns(c, from, k.at, 1, conn[c].sid) /\ k.at \in {"login", "midway", "closed"}
  <1> DEFINE t == Taking(c)
  <1>1. conn[c].owed \in Nat /\ conn[c].owed <= Segments /\ Segments \in Nat
    BY Fitting DEF ConnInv
  <1>2. /\ t \in Connection /\ t.addr = conn[c].addr /\ t.sid = conn[c].sid /\ t.owed = conn[c].owed
        /\ Len(t.inbox) \in Nat /\ Len(t.inbox) < t.owed
    BY TakingFits
  <1>3. <<>> \in Seq(Lines[deployed])
    BY Empty
  <1>4. Misread(c, k) /\ t = Taking(c)
    OBVIOUS
  <1> HIDE DEF t
  <1>5. t.owed > 0 /\ t.owed - 1 \in 0..Segments
    BY <1>1, <1>2
  <1>6. /\ k \in Connection /\ k.at \in {"login", "midway", "closed"}
        /\ k.sid = t.sid /\ k.addr = t.addr /\ k.n = t.n
        /\ k.inbox \in {t.inbox, <<>>} /\ k.line = None /\ k.owed \in {t.owed, t.owed - 1}
    <2>1. CASE \E lost \in BOOLEAN : k = [Answering(t, "login") EXCEPT !.inbox = <<>>, !.lost = lost]
      BY <1>2, <1>3, <1>5, <2>1 DEF Answering, Connection, Places
    <2>2. CASE \E lost \in BOOLEAN : k = [t EXCEPT !.at = "midway", !.line = None, !.lost = lost]
      BY <1>2, <2>2 DEF Connection, Places
    <2>3. CASE k = [t EXCEPT !.line = None, !.inbox = <<>>, !.at = "closed"]
      BY <1>2, <1>3, <2>3 DEF Connection, Places
    <2>4. CASE k = [t EXCEPT !.line = None, !.inbox = <<>>, !.lost = TRUE] /\ k.at = "midway"
      <3>1. /\ k \in Connection /\ k.at = "midway" /\ k.sid = t.sid /\ k.addr = t.addr /\ k.n = t.n
            /\ k.inbox = <<>> /\ k.line = None /\ k.owed = t.owed
        BY <1>2, <1>3, <2>4 DEF Connection, Places
      <3> QED
        BY <3>1
    <2> QED
      BY <1>4, <2>1, <2>2, <2>3, <2>4 DEF Misread
  <1>7. conn[c].sid \in Clients \cup {None}
    BY <1>2 DEF Connection
  <1>8. Passes(c, from, k.at, conn[c].sid)
    BY <1>6, RoutePasses DEF Route
  <1>9. /\ k.sid = conn[c].sid /\ k.addr = conn[c].addr /\ k.n = Taking(c).n
        /\ k.inbox \in {Taking(c).inbox, <<>>} /\ k.owed \in {conn[c].owed, conn[c].owed - 1}
    BY <1>2, <1>4, <1>6
  <1> QED
    BY <1>6, <1>7, <1>8, <1>9, LineGone

LEMMA RepliedWithSession ==
  ASSUME deployed \in Protocols, ConnInv, NEW c \in Clients, Arrived(c),
         Moves(c, "login", [Answering(Taking(c), "ready") EXCEPT !.sid = c])
  PROVE  Turns(c, "login", "ready", 1, c)
  <1> DEFINE t == Taking(c)
             k == [Answering(t, "ready") EXCEPT !.sid = c]
  <1>1. conn[c].owed \in Nat /\ conn[c].owed <= Segments /\ Segments \in Nat
    BY Fitting DEF ConnInv
  <1>2. /\ t \in Connection /\ t.addr = conn[c].addr /\ t.owed = conn[c].owed
        /\ Len(t.inbox) \in Nat /\ Len(t.inbox) < t.owed
    BY TakingFits
  <1> HIDE DEF t
  <1>3. t.owed > 0 /\ t.owed - 1 \in 0..Segments
    BY <1>1, <1>2
  <1>4. /\ k \in Connection /\ k.at = "ready" /\ k.sid = c /\ k.addr = t.addr
        /\ k.n = t.n /\ k.inbox = t.inbox /\ k.line = None /\ k.owed = t.owed - 1
    BY <1>2, <1>3 DEF Answering, Connection, Places
  <1>5. c # None /\ Moves(c, "login", k)
    BY ConnectionsAssumption DEF t
  <1> HIDE DEF k
  <1> QED
    BY <1>2, <1>4, <1>5, LineGone DEF Passes, t

LEMMA Dropped ==
  ASSUME deployed \in Protocols, ConnInv, NEW c \in Clients, Arrived(c), NEW to, Route("ready", to),
         Moves(c, "ready", [Taking(c) EXCEPT !.at = to, !.line = None])
  PROVE  Turns(c, "ready", to, 1, conn[c].sid)
  <1> DEFINE t == Taking(c)
             k == [t EXCEPT !.at = to, !.line = None]
  <1>1. t \in Connection /\ t.addr = conn[c].addr /\ t.sid = conn[c].sid /\ t.owed = conn[c].owed
    BY TakingFits
  <1> HIDE DEF t
  <1>2. /\ k \in Connection /\ k.at = to /\ k.sid = t.sid /\ k.addr = t.addr
        /\ k.n = t.n /\ k.inbox = t.inbox /\ k.line = None /\ k.owed = t.owed
    BY <1>1 DEF Connection, Places, Route
  <1>3. t.sid \in Clients \cup {None} /\ Moves(c, "ready", k)
    BY <1>1 DEF Connection, t
  <1> HIDE DEF k
  <1>4. /\ k.sid = conn[c].sid /\ k.addr = conn[c].addr /\ k.n = Taking(c).n /\ k.inbox = Taking(c).inbox
        /\ k.owed = conn[c].owed /\ conn[c].sid \in Clients \cup {None}
    BY <1>1, <1>2, <1>3 DEF t
  <1>5. Passes(c, "ready", to, conn[c].sid)
    BY RoutePasses
  <1>6. k.owed \in {conn[c].owed, conn[c].owed - 1}
    BY <1>4
  <1> QED
    BY <1>2, <1>3, <1>4, <1>5, <1>6, LineGone

LEMMA AnswerSent ==
  ASSUME deployed \in Protocols, ConnInv, NEW c \in Clients, NEW from, from \in Busy,
         Moves(c, from, Answering(conn[c], "ready"))
  PROVE  Turns(c, from, "ready", 0, conn[c].sid)
  <1> DEFINE k == conn'[c]
  <1>1. /\ conn[c].at = from /\ deployed' = deployed /\ conn' = [conn EXCEPT ![c] = k]
        /\ k = Answering(conn[c], "ready")
    BY Moved
  <1>2. Fit(conn[c]) /\ conn[c] \in Connection
    BY DEF ConnInv
  <1>3. /\ conn[c].n \in Nat /\ conn[c].owed \in Nat /\ conn[c].owed <= Segments /\ Segments \in Nat
        /\ Len(conn[c].inbox) \in Nat
    BY <1>2, Fitting
  <1>4. conn[c].owed > Len(conn[c].inbox) /\ conn[c].sid # None /\ conn[c].addr # None
    BY <1>1, <1>2 DEF Fit, Busy
  <1> HIDE DEF k
  <1>5. conn[c].owed > 0 /\ conn[c].owed - 1 \in 0..Segments
    BY <1>3, <1>4
  <1>6. /\ k \in Connection /\ k.at = "ready" /\ k.sid = conn[c].sid /\ k.addr = conn[c].addr
        /\ k.n = conn[c].n /\ k.inbox = conn[c].inbox /\ k.line = None
        /\ k.owed = conn[c].owed - 1
    BY <1>1, <1>2, <1>5 DEF Answering, Connection, Places
  <1>7. Len(k.inbox) <= k.owed
    BY <1>3, <1>4, <1>6
  <1>8. Fit(k)
    BY <1>2, <1>4, <1>6, <1>7 DEF Fit, Busy
  <1> QED
    BY <1>1, <1>3, <1>6, <1>8 DEF Turns, k

LEMMA AllAnswered ==
  ASSUME deployed \in Protocols, ConnInv, NEW c \in Clients, NEW from, from \in Busy,
         Moves(c, from, [Answering(conn[c], "ready") EXCEPT !.owed = 0]), conn[c].inbox = <<>>
  PROVE  Turns(c, from, "ready", 0, conn[c].sid)
  <1> DEFINE k == conn'[c]
  <1>1. /\ conn[c].at = from /\ deployed' = deployed /\ conn' = [conn EXCEPT ![c] = k]
        /\ k = [Answering(conn[c], "ready") EXCEPT !.owed = 0]
    BY Moved
  <1>2. Fit(conn[c]) /\ conn[c] \in Connection
    BY DEF ConnInv
  <1>3. /\ conn[c].n \in Nat /\ conn[c].owed \in Nat /\ conn[c].owed <= Segments /\ Segments \in Nat
        /\ Len(conn[c].inbox) \in Nat
    BY <1>2, Fitting
  <1>4. conn[c].owed > Len(conn[c].inbox) /\ conn[c].sid # None /\ conn[c].addr # None
    BY <1>1, <1>2 DEF Fit, Busy
  <1> HIDE DEF k
  <1>5. conn[c].owed > 0 /\ 0 \in 0..Segments
    BY <1>3, <1>4
  <1>6. /\ k \in Connection /\ k.at = "ready" /\ k.sid = conn[c].sid /\ k.addr = conn[c].addr
        /\ k.n = conn[c].n /\ k.inbox = conn[c].inbox /\ k.line = None
        /\ k.owed = 0
    BY <1>1, <1>2, <1>5 DEF Answering, Connection, Places
  <1>7. Len(k.inbox) <= k.owed
    BY <1>3, <1>4, <1>6
  <1>8. Fit(k)
    BY <1>2, <1>4, <1>6, <1>7 DEF Fit, Busy
  <1> QED
    BY <1>1, <1>3, <1>6, <1>8 DEF Turns, k

LEMMA EndsFit ==
  ASSUME deployed \in Protocols, ConnInv, NEW c \in Clients, NEW from, from # "new",
         Moves(c, from, [conn[c] EXCEPT !.at = "closed", !.line = None])
  PROVE  Turns(c, from, "closed", 0, conn[c].sid)
  <1> DEFINE k == conn'[c]
  <1>1. /\ conn[c].at = from /\ deployed' = deployed /\ conn' = [conn EXCEPT ![c] = k]
        /\ k = [conn[c] EXCEPT !.at = "closed", !.line = None]
    BY Moved
  <1>2. Fit(conn[c]) /\ conn[c] \in Connection
    BY DEF ConnInv
  <1> HIDE DEF k
  <1>3. /\ k \in Connection /\ k.at = "closed" /\ k.sid = conn[c].sid /\ k.addr = conn[c].addr
        /\ k.n = conn[c].n /\ k.inbox = conn[c].inbox /\ k.owed = conn[c].owed /\ k.line = None
    BY <1>1, <1>2 DEF Connection, Places
  <1>4. conn[c].n + 0 = conn[c].n
    BY <1>2, Fitting
  <1>5. Fit(k)
    BY <1>1, <1>2, <1>3 DEF Fit, Busy
  <1> QED
    BY <1>1, <1>3, <1>4, <1>5 DEF Turns, k

-----------------------------------------------------------------------------
(* What a step of a connection logs and answers. *)

Logged(c, from) ==
    \/ UNCHANGED events
    \/ from # "new" /\ \E n \in Numbers, ok \in BOOLEAN : Logs(LoginEvent(c, c, n, ok))
    \/ from \in Working /\ \E type \in {"command", "error"} : Logs(CommandEvent(c, type))

Steps(c, from, to, taken, s) ==
    /\ Turns(c, from, to, taken, s) /\ taken \in {0, 1}
    /\ s = conn[c].sid \/ (from \in {"queued", "login"} /\ (s = c \/ deployed = "telnet"))
    /\ prompts' = prompts
    /\ Logged(c, from)
    /\ deployed # "mysql" /\ to \in Working => (from \in Working /\ s = conn[c].sid) \/ HasLogin(c)'
    /\ answered' = answered \/ Answers(c)
    /\ answered' # answered => taken = 1 \/ from \in Busy
    /\ answered' # answered \/ to = Waiting => (from = Waiting /\ taken = 0) \/ Recorded(c)'

StepOf(c) == \E from, to, taken, s : Steps(c, from, to, taken, s)

\* The rules that the honeypots with something in common keep, beside those.
Served == {"ready", "process"}

TcpRule(c) ==
    /\ accepting' \in BOOLEAN
    /\ conn'[c].at \in Served =>
          (accepting => accepting') /\ (conn[c].at \in Served \/ (accepting /\ ~Serving))
    /\ conn'[c].at \notin Served => conn[c].at \in Served
    /\ conn'[c].at = "process" => conn'[c].inbox = <<>>

LastNoted(c) == Noted(<<c, attempt[c]>>)

RedisRule(c) ==
    /\ conn[c].at \in Busy =>
          /\ conn'[c].n = conn[c].n
          /\ conn'[c].at = "process" => conn[c].at = "process" /\ UNCHANGED <<attempt, tried>>
    /\ conn[c].at \notin Busy /\ conn'[c].at \in Busy =>
          conn'[c].at = "process" /\ conn'[c].n = conn[c].n + 1 /\ LastNoted(c)'
    /\ \/ UNCHANGED <<attempt, tried>>
       \/ /\ conn[c].at = "process"
          /\ attempt' = [attempt EXCEPT ![c] = conn[c].n]
          /\ tried' = tried \cup {<<c, conn[c].n>>}
          /\ UNCHANGED events

Kept == [sid : Clients, created : 0..MaxClock]

TelnetRule(c) ==
    /\ sessions' \in [Addrs -> Kept \cup {None}]
    /\ \A a \in Addrs : sessions'[a] # None =>
          \/ sessions'[a] = sessions[a]
          \/ /\ a = conn[c].addr /\ sessions'[a] \in [sid : {c}, created : 0..clock]
             /\ conn'[c].addr = a /\ conn'[c].sid = c /\ HasLogin(c)'
    /\ now' \in [Clients -> 0..MaxClock] /\ \A e \in Clients : now'[e] <= clock
    /\ clock' = clock

LEMMA LoginIsLogged ==
  ASSUME NEW c, NEW s, NEW n, NEW ok, Logs(LoginEvent(c, s, n, ok)), prompts' => ok,
         conn'[c].sid = s, conn'[c].addr = conn[c].addr
  PROVE  HasLogin(c)'
  <1> DEFINE l == LoginEvent(c, s, n, ok)
  <1>1. l \in events' /\ l.type = "auth_attempt" /\ l.sid = s /\ l.addr = conn[c].addr /\ l.ok = ok
    BY DEF Logs, LoginEvent
  <1> HIDE DEF l
  <1> QED
    BY <1>1 DEF HasLogin, LoggedIn, Logins

LEMMA CommandIsLogged ==
  ASSUME NEW c, NEW type \in {"command", "error"}, Logs(CommandEvent(c, type)), conn'[c].sid = conn[c].sid
  PROVE  Recorded(c)'
  <1> DEFINE e == CommandEvent(c, type)
  <1>1. e \in events' /\ e.type # "auth_attempt" /\ e.client = c /\ e.n = conn'[c].n /\ e.sid = conn'[c].sid
    BY DEF Logs, CommandEvent
  <1> HIDE DEF e
  <1> QED
    BY <1>1 DEF Recorded, Commanded, CommandEvents

LEMMA Typed ==
  ASSUME IInv, NEW c \in Clients
  PROVE  /\ deployed \in Protocols /\ ConnInv /\ Fit(conn[c]) /\ conn[c] \in Connection
         /\ MaxLines[deployed] \in Nat /\ conn[c].n \in Nat /\ 0 \in Numbers /\ attempt[c] \in Numbers
         /\ prompts \in BOOLEAN /\ (prompts => deployed = "telnet")
  <1>1. deployed \in Protocols /\ ConnInv /\ Fit(conn[c]) /\ prompts \in BOOLEAN
    BY DEF IInv, TypeOK, ConnectionsOK, ConnInv
  <1>2. MaxLines[deployed] \in Nat /\ conn[c].n \in Nat /\ conn[c] \in Connection
    BY <1>1, Fitting
  <1> QED
    BY <1>1, <1>2 DEF IInv, LoginInv, TriedInv, Numbers

LEMMA ServesSilently ==
  ASSUME NEW c, NEW from, NEW to, NEW taken \in {0, 1}, NEW s, Turns(c, from, to, taken, s),
         UNCHANGED <<events, answered, prompts>>,
         s = conn[c].sid, to \in Working => from \in Working, to # Waiting
  PROVE  StepOf(c)
  BY DEF StepOf, Steps, Logged

LEMMA ServesLogin ==
  ASSUME NEW c, NEW from, from \in {"queued", "login"}, NEW taken \in {0, 1}, Turns(c, from, "ready", taken, c),
         NEW n \in Numbers, NEW ok \in BOOLEAN, Logs(LoginEvent(c, c, n, ok)), prompts => ok,
         UNCHANGED <<answered, prompts>>
  PROVE  StepOf(c)
  <1>1. HasLogin(c)'
    BY LoginIsLogged DEF Turns
  <1> QED
    BY <1>1 DEF StepOf, Steps, Logged, Waiting

LEMMA ServesCommand ==
  ASSUME NEW c, NEW from, NEW to, NEW taken \in {0, 1}, Turns(c, from, to, taken, conn[c].sid),
         NEW type \in {"command", "error"}, Logs(CommandEvent(c, type)), from \in Working,
         answered' = answered \/ (Answers(c) /\ taken = 1), prompts' = prompts
  PROVE  StepOf(c)
  <1>1. Recorded(c)'
    BY CommandIsLogged DEF Turns
  <1> QED
    BY <1>1 DEF StepOf, Steps, Logged

LEMMA ServesAnswer ==
  ASSUME NEW c, NEW to, Turns(c, Waiting, to, 0, conn[c].sid),
         UNCHANGED events, Answers(c), prompts' = prompts
  PROVE  StepOf(c)
  BY DEF StepOf, Steps, Logged, Waiting, Working, Busy

LEMMA TcpServes ==
  ASSUME IInv, NEW c \in Clients, deployed = "tcp", Tcp(c), prompts' = prompts
  PROVE  StepOf(c) /\ TcpRule(c)
  <1>0. /\ IInv /\ deployed = "tcp" /\ prompts' = prompts
        /\ deployed \in Protocols /\ ConnInv /\ Fit(conn[c]) /\ conn[c] \in Connection
        /\ conn[c].n \in Nat /\ 0 \in Numbers /\ attempt[c] \in Numbers
        /\ prompts \in BOOLEAN /\ (prompts => deployed = "telnet")
    BY Typed
  <1>1. CASE TcpAccept(c)
    <2>1. /\ Moves(c, "queued", [conn[c] EXCEPT !.at = "ready", !.sid = c])
          /\ Logs(LoginEvent(c, c, 0, FALSE)) /\ UNCHANGED answered
      BY <1>1 DEF TcpAccept
    <2>2. Turns(c, "queued", "ready", 0, c)
      BY <1>0, <2>1, Settles
    <2>3. StepOf(c)
      BY <1>0, <2>1, <2>2, ServesLogin DEF Working, Waiting
    <2>4. TcpRule(c)
      BY <1>1, <2>1, <2>2 DEF TcpRule, Turns, Served, TcpAccept
    <2> QED
      BY <2>3, <2>4
  <1>2. CASE TcpReceive(c)
    <2>1. PICK k : Moves(c, "ready", k) /\ Gulped(c, k)
      BY <1>2 DEF TcpReceive, Gulped
    <2>2. Turns(c, "ready", "process", 1, conn[c].sid) /\ conn'[c].inbox = <<>>
      BY <1>0, <1>2, <2>1, TakesAll DEF TcpReceive
    <2>3. Logs(CommandEvent(c, "command")) /\ UNCHANGED answered
      BY <1>2 DEF TcpReceive
    <2>4. StepOf(c)
      BY <1>0, <2>2, <2>3, ServesCommand DEF Working
    <2>5. UNCHANGED accepting /\ accepting \in BOOLEAN
      BY <1>0, <1>2 DEF TcpReceive, IInv, TypeOK
    <2>6. TcpRule(c)
      BY <2>1, <2>2, <2>5 DEF TcpRule, Turns, Served
    <2> QED
      BY <2>4, <2>6
  <1>3. CASE TcpAnswer(c)
    <2>1. /\ Moves(c, "process", [Answering(conn[c], "ready") EXCEPT !.owed = 0])
          /\ UNCHANGED events /\ Answers(c)
      BY <1>3 DEF TcpAnswer
    <2>2. conn[c].inbox = <<>>
      BY <1>0, <2>1 DEF IInv, TcpInv, Moves
    <2>3. Turns(c, "process", "ready", 0, conn[c].sid)
      BY <1>0, <2>1, <2>2, AllAnswered DEF Busy
    <2>4. StepOf(c)
      BY <1>0, <2>1, <2>3, ServesAnswer DEF Working, Waiting, Busy
    <2>5. UNCHANGED accepting /\ accepting \in BOOLEAN
      BY <1>0, <1>3 DEF TcpAnswer, IInv, TypeOK
    <2>6. TcpRule(c)
      BY <2>3, <2>5 DEF TcpRule, Turns, Served
    <2> QED
      BY <2>4, <2>6
  <1>4. CASE TcpClosed(c)
    <2>1. /\ Moves(c, "ready", [conn[c] EXCEPT !.at = "closed", !.line = None])
          /\ UNCHANGED <<events, answered>>
      BY <1>4 DEF TcpClosed, EndOfFile
    <2>2. Turns(c, "ready", "closed", 0, conn[c].sid)
      BY <1>0, <2>1, EndsFit
    <2>3. StepOf(c)
      BY <1>0, <2>1, <2>2, ServesSilently DEF Working, Waiting, Busy
    <2>4. UNCHANGED accepting /\ accepting \in BOOLEAN
      BY <1>0, <1>4 DEF TcpClosed, IInv, TypeOK
    <2>5. TcpRule(c)
      BY <2>2, <2>4 DEF TcpRule, Turns, Served
    <2> QED
      BY <2>3, <2>5
  <1>5. CASE TcpFails(c)
    <2>1. PICK from \in {"ready", "process"} : Dies(c, from)
      BY <1>5 DEF TcpFails
    <2>2. Turns(c, from, "closed", 0, conn[c].sid) /\ UNCHANGED <<events, answered>>
      BY <1>0, <2>1, EndsFit DEF Dies
    <2>3. StepOf(c)
      BY <1>0, <2>2, ServesSilently DEF Working, Waiting, Busy
    <2>4. TcpRule(c)
      BY <1>5, <2>1, <2>2 DEF TcpRule, Turns, Served, TcpFails
    <2> QED
      BY <2>3, <2>4
  <1> QED
    BY <1>1, <1>2, <1>3, <1>4, <1>5 DEF Tcp

LEMMA RedisServes ==
  ASSUME IInv, NEW c \in Clients, deployed = "redis", Redis(c), prompts' = prompts
  PROVE  StepOf(c) /\ RedisRule(c)
  <1>0. /\ IInv /\ deployed = "redis" /\ prompts' = prompts
        /\ deployed \in Protocols /\ ConnInv /\ Fit(conn[c]) /\ conn[c] \in Connection
        /\ conn[c].n \in Nat /\ 0 \in Numbers /\ attempt[c] \in Numbers
        /\ prompts \in BOOLEAN /\ (prompts => deployed = "telnet")
    BY Typed
  <1>1. CASE RedisAccept(c)
    <2>1. /\ Moves(c, "queued", [conn[c] EXCEPT !.at = "ready", !.sid = c])
          /\ UNCHANGED <<events, answered>>
      BY <1>1 DEF RedisAccept
    <2>2. Turns(c, "queued", "ready", 0, c)
      BY <1>0, <2>1, Settles
    <2>3. StepOf(c)
      BY <1>0, <2>1, <2>2 DEF StepOf, Steps, Logged, Waiting, Working, Busy
    <2>4. UNCHANGED <<attempt, tried>>
      BY <1>1 DEF RedisAccept, redisVars
    <2>5. conn[c].at \in Busy \/ conn'[c].at \in Busy => conn'[c].n = conn[c].n
      BY <1>0, <2>2 DEF Turns, Busy
    <2>6. RedisRule(c)
      BY <2>2, <2>4, <2>5 DEF RedisRule, Turns, Busy
    <2> QED
      BY <2>3, <2>6
  <1>2. CASE RedisReceive(c)
    <2>1. PICK k : Moves(c, "ready", k) /\ Gulped(c, k)
      <3>1. (conn[c].lost \/ Len(conn[c].inbox) > 1) \in BOOLEAN
        OBVIOUS
      <3> QED
        BY <1>0, <1>2 DEF RedisReceive, Gulped
    <2>2. Turns(c, "ready", "process", 1, conn[c].sid)
      BY <1>0, <1>2, <2>1, TakesAll DEF RedisReceive
    <2>3. Logs(LoginEvent(c, c, attempt[c], FALSE)) /\ UNCHANGED answered
      BY <1>2 DEF RedisReceive
    <2>4. conn[c].sid = c
      BY <1>0, <2>2 DEF IInv, LoginInv, Turns, Fit
    <2>5. HasLogin(c)'
      BY <1>0, <2>2, <2>3, <2>4, LoginIsLogged DEF Turns
    <2>6. Logged(c, "ready")
      BY <1>0, <2>3 DEF Logged
    <2>7. Steps(c, "ready", "process", 1, conn[c].sid)
      BY <1>0, <2>2, <2>3, <2>5, <2>6 DEF Steps, Waiting
    <2>8. StepOf(c)
      BY <2>7 DEF StepOf
    <2>9. UNCHANGED <<attempt, tried>>
      BY <1>2 DEF RedisReceive, redisVars
    <2>10. LastNoted(c)'
      <3> DEFINE l == LoginEvent(c, c, attempt[c], FALSE)
      <3>1. l \in events' /\ l.type = "auth_attempt" /\ l.client = c /\ l.n = attempt[c]
        BY <2>3 DEF Logs, LoginEvent
      <3> HIDE DEF l
      <3> QED
        BY <2>9, <3>1 DEF LastNoted, Noted, Logins
    <2>11. RedisRule(c)
      BY <2>2, <2>9, <2>10 DEF RedisRule, Turns, Busy
    <2> QED
      BY <2>8, <2>11
  <1>3. CASE RedisIncomplete(c)
    <2>1. /\ Moves(c, "ready", [Taking(c) EXCEPT !.at = "ready", !.line = None, !.inbox = <<>>, !.lost = TRUE])
          /\ Arrived(c) /\ UNCHANGED <<events, answered>>
      BY <1>3 DEF RedisIncomplete
    <2>2. Turns(c, "ready", "ready", 1, conn[c].sid)
      BY <1>0, <2>1, Clears
    <2>3. StepOf(c)
      BY <1>0, <2>1, <2>2, ServesSilently DEF Working, Waiting, Busy
    <2>4. UNCHANGED <<attempt, tried>>
      BY <1>3 DEF RedisIncomplete, redisVars
    <2>5. conn[c].at \in Busy \/ conn'[c].at \in Busy => conn'[c].n = conn[c].n
      BY <1>0, <2>2 DEF Turns, Busy
    <2>6. RedisRule(c)
      BY <2>2, <2>4, <2>5 DEF RedisRule, Turns, Busy
    <2> QED
      BY <2>3, <2>6
  <1>4. CASE RedisAuth(c)
    <2>1. Moves(c, "process", [conn[c] EXCEPT !.at = "log"]) /\ UNCHANGED <<events, answered>>
      BY <1>4 DEF RedisAuth, Processes
    <2>2. Turns(c, "process", "log", 0, conn[c].sid)
      BY <1>0, <2>1, GoesOn DEF Busy
    <2>3. StepOf(c)
      BY <1>0, <2>1, <2>2, ServesSilently DEF Working, Waiting, Busy
    <2>4. /\ conn[c].at = "process" /\ attempt' = [attempt EXCEPT ![c] = conn[c].n]
          /\ tried' = tried \cup {<<c, conn[c].n>>} /\ UNCHANGED events
      BY <1>4, <2>1 DEF RedisAuth, Moves
    <2>5. conn'[c].n = conn[c].n /\ conn'[c].at = "log"
      BY <1>0, <2>2 DEF Turns
    <2>6. RedisRule(c)
      BY <2>4, <2>5 DEF RedisRule, Busy
    <2> QED
      BY <2>3, <2>6
  <1>5. CASE RedisSelect(c)
    <2>1. Moves(c, "process", [conn[c] EXCEPT !.at = "log"]) /\ UNCHANGED <<events, answered>>
      BY <1>5 DEF RedisSelect, Processes
    <2>2. Turns(c, "process", "log", 0, conn[c].sid)
      BY <1>0, <2>1, GoesOn DEF Busy
    <2>3. StepOf(c)
      BY <1>0, <2>1, <2>2, ServesSilently DEF Working, Waiting, Busy
    <2>4. UNCHANGED <<attempt, tried>>
      BY <1>5 DEF RedisSelect, redisVars
    <2>5. conn[c].at \in Busy \/ conn'[c].at \in Busy => conn'[c].n = conn[c].n
      BY <1>0, <2>2 DEF Turns, Busy
    <2>6. RedisRule(c)
      BY <2>2, <2>4, <2>5 DEF RedisRule, Turns, Busy
    <2> QED
      BY <2>3, <2>6
  <1>6. CASE RedisSet(c)
    <2>1. Moves(c, "process", [conn[c] EXCEPT !.at = "log"]) /\ UNCHANGED <<events, answered>>
      BY <1>6 DEF RedisSet, Processes
    <2>2. Turns(c, "process", "log", 0, conn[c].sid)
      BY <1>0, <2>1, GoesOn DEF Busy
    <2>3. StepOf(c)
      BY <1>0, <2>1, <2>2, ServesSilently DEF Working, Waiting, Busy
    <2>4. UNCHANGED <<attempt, tried>>
      BY <1>6 DEF RedisSet, Puts, redisVars
    <2>5. conn[c].at \in Busy \/ conn'[c].at \in Busy => conn'[c].n = conn[c].n
      BY <1>0, <2>2 DEF Turns, Busy
    <2>6. RedisRule(c)
      BY <2>2, <2>4, <2>5 DEF RedisRule, Turns, Busy
    <2> QED
      BY <2>3, <2>6
  <1>7. CASE RedisDelete(c)
    <2>1. Moves(c, "process", [conn[c] EXCEPT !.at = "log"]) /\ UNCHANGED <<events, answered>>
      BY <1>7 DEF RedisDelete, Processes
    <2>2. Turns(c, "process", "log", 0, conn[c].sid)
      BY <1>0, <2>1, GoesOn DEF Busy
    <2>3. StepOf(c)
      BY <1>0, <2>1, <2>2, ServesSilently DEF Working, Waiting, Busy
    <2>4. UNCHANGED <<attempt, tried>>
      BY <1>7 DEF RedisDelete, Puts, redisVars
    <2>5. conn[c].at \in Busy \/ conn'[c].at \in Busy => conn'[c].n = conn[c].n
      BY <1>0, <2>2 DEF Turns, Busy
    <2>6. RedisRule(c)
      BY <2>2, <2>4, <2>5 DEF RedisRule, Turns, Busy
    <2> QED
      BY <2>3, <2>6
  <1>8. CASE RedisFlush(c)
    <2>1. Moves(c, "process", [conn[c] EXCEPT !.at = "log"]) /\ UNCHANGED <<events, answered>>
      BY <1>8 DEF RedisFlush, Processes
    <2>2. Turns(c, "process", "log", 0, conn[c].sid)
      BY <1>0, <2>1, GoesOn DEF Busy
    <2>3. StepOf(c)
      BY <1>0, <2>1, <2>2, ServesSilently DEF Working, Waiting, Busy
    <2>4. UNCHANGED <<attempt, tried>>
      BY <1>8 DEF RedisFlush, redisVars
    <2>5. conn[c].at \in Busy \/ conn'[c].at \in Busy => conn'[c].n = conn[c].n
      BY <1>0, <2>2 DEF Turns, Busy
    <2>6. RedisRule(c)
      BY <2>2, <2>4, <2>5 DEF RedisRule, Turns, Busy
    <2> QED
      BY <2>3, <2>6
  <1>9. CASE RedisQuery(c)
    <2>1. Moves(c, "process", [conn[c] EXCEPT !.at = "log"]) /\ UNCHANGED <<events, answered>>
      BY <1>9 DEF RedisQuery, Processes
    <2>2. Turns(c, "process", "log", 0, conn[c].sid)
      BY <1>0, <2>1, GoesOn DEF Busy
    <2>3. StepOf(c)
      BY <1>0, <2>1, <2>2, ServesSilently DEF Working, Waiting, Busy
    <2>4. UNCHANGED <<attempt, tried>>
      BY <1>9 DEF RedisQuery, redisVars
    <2>5. conn[c].at \in Busy \/ conn'[c].at \in Busy => conn'[c].n = conn[c].n
      BY <1>0, <2>2 DEF Turns, Busy
    <2>6. RedisRule(c)
      BY <2>2, <2>4, <2>5 DEF RedisRule, Turns, Busy
    <2> QED
      BY <2>3, <2>6
  <1>10. CASE RedisScan(c)
    <2>1. Moves(c, "process", [conn[c] EXCEPT !.at = "scan"]) /\ UNCHANGED <<events, answered>>
      BY <1>10 DEF RedisScan
    <2>2. Turns(c, "process", "scan", 0, conn[c].sid)
      BY <1>0, <2>1, GoesOn DEF Busy
    <2>3. StepOf(c)
      BY <1>0, <2>1, <2>2, ServesSilently DEF Working, Waiting, Busy
    <2>4. UNCHANGED <<attempt, tried>>
      BY <1>10 DEF RedisScan, redisVars
    <2>5. conn[c].at \in Busy \/ conn'[c].at \in Busy => conn'[c].n = conn[c].n
      BY <1>0, <2>2 DEF Turns, Busy
    <2>6. RedisRule(c)
      BY <2>2, <2>4, <2>5 DEF RedisRule, Turns, Busy
    <2> QED
      BY <2>3, <2>6
  <1>11. CASE RedisScanned(c)
    <2>1. Moves(c, "scan", [conn[c] EXCEPT !.at = "log"]) /\ UNCHANGED <<events, answered>>
      BY <1>11 DEF RedisScanned
    <2>2. Turns(c, "scan", "log", 0, conn[c].sid)
      BY <1>0, <2>1, GoesOn DEF Busy
    <2>3. StepOf(c)
      BY <1>0, <2>1, <2>2, ServesSilently DEF Working, Waiting, Busy
    <2>4. UNCHANGED <<attempt, tried>>
      BY <1>11 DEF RedisScanned, redisVars
    <2>5. conn[c].at \in Busy \/ conn'[c].at \in Busy => conn'[c].n = conn[c].n
      BY <1>0, <2>2 DEF Turns, Busy
    <2>6. RedisRule(c)
      BY <2>2, <2>4, <2>5 DEF RedisRule, Turns, Busy
    <2> QED
      BY <2>3, <2>6
  <1>12. CASE RedisFails(c)
    <2>1. PICK from \in {"process", "scan"} : Dies(c, from)
      BY <1>12 DEF RedisFails
    <2>2. Turns(c, from, "closed", 0, conn[c].sid) /\ UNCHANGED <<events, answered>>
      BY <1>0, <2>1, EndsFit DEF Dies
    <2>3. StepOf(c)
      BY <1>0, <2>2, ServesSilently DEF Working, Waiting, Busy
    <2>4. UNCHANGED <<attempt, tried>>
      BY <1>12 DEF RedisFails, redisVars
    <2>5. conn[c].at \in Busy \/ conn'[c].at \in Busy => conn'[c].n = conn[c].n
      BY <1>0, <2>2 DEF Turns, Busy
    <2>6. RedisRule(c)
      BY <2>2, <2>4, <2>5 DEF RedisRule, Turns, Busy
    <2> QED
      BY <2>3, <2>6
  <1>13. CASE RedisLog(c)
    <2>1. /\ Moves(c, "log", [conn[c] EXCEPT !.at = "reply"])
          /\ Logs(CommandEvent(c, "command")) /\ UNCHANGED answered
      BY <1>13 DEF RedisLog
    <2>2. Turns(c, "log", "reply", 0, conn[c].sid)
      BY <1>0, <2>1, GoesOn DEF Busy
    <2>3. StepOf(c)
      BY <1>0, <2>1, <2>2, ServesCommand DEF Working, Waiting, Busy
    <2>4. UNCHANGED <<attempt, tried>>
      BY <1>13 DEF RedisLog, redisVars
    <2>5. conn[c].at \in Busy \/ conn'[c].at \in Busy => conn'[c].n = conn[c].n
      BY <1>0, <2>2 DEF Turns, Busy
    <2>6. RedisRule(c)
      BY <2>2, <2>4, <2>5 DEF RedisRule, Turns, Busy
    <2> QED
      BY <2>3, <2>6
  <1>14. CASE RedisReply(c)
    <2>1. Moves(c, "reply", Answering(conn[c], "ready")) /\ UNCHANGED events /\ Answers(c)
      BY <1>14 DEF RedisReply
    <2>2. Turns(c, "reply", "ready", 0, conn[c].sid)
      BY <1>0, <2>1, AnswerSent DEF Busy
    <2>3. StepOf(c)
      BY <1>0, <2>1, <2>2, ServesAnswer DEF Working, Waiting, Busy
    <2>4. UNCHANGED <<attempt, tried>>
      BY <1>14 DEF RedisReply, redisVars
    <2>5. conn[c].at \in Busy \/ conn'[c].at \in Busy => conn'[c].n = conn[c].n
      BY <1>0, <2>2 DEF Turns, Busy
    <2>6. RedisRule(c)
      BY <2>2, <2>4, <2>5 DEF RedisRule, Turns, Busy
    <2> QED
      BY <2>3, <2>6
  <1>15. CASE RedisClosed(c)
    <2>1. /\ Moves(c, "ready", [conn[c] EXCEPT !.at = "closed", !.line = None])
          /\ UNCHANGED <<events, answered>>
      BY <1>15 DEF RedisClosed, EndOfFile
    <2>2. Turns(c, "ready", "closed", 0, conn[c].sid)
      BY <1>0, <2>1, EndsFit
    <2>3. StepOf(c)
      BY <1>0, <2>1, <2>2, ServesSilently DEF Working, Waiting, Busy
    <2>4. UNCHANGED <<attempt, tried>>
      BY <1>15 DEF RedisClosed, redisVars
    <2>5. conn[c].at \in Busy \/ conn'[c].at \in Busy => conn'[c].n = conn[c].n
      BY <1>0, <2>2 DEF Turns, Busy
    <2>6. RedisRule(c)
      BY <2>2, <2>4, <2>5 DEF RedisRule, Turns, Busy
    <2> QED
      BY <2>3, <2>6
  <1> QED
    BY <1>1, <1>2, <1>3, <1>4, <1>5, <1>6, <1>7, <1>8, <1>9,
       <1>10, <1>11, <1>12, <1>13, <1>14, <1>15 DEF Redis

LEMMA Cleaned ==
  ASSUME IInv
  PROVE  /\ MaxClock \in Nat /\ clock \in 0..MaxClock
         /\ sessions \in [Addrs -> Kept \cup {None}]
         /\ CleanedUp \in [Addrs -> Kept \cup {None}]
         /\ \A a \in Addrs : CleanedUp[a] # None => CleanedUp[a] = sessions[a]
         /\ now \in [Clients -> 0..MaxClock] /\ \A e \in Clients : now[e] <= clock
         /\ \A e \in Clients : now[e] \in 0..clock
         /\ clock \in 0..clock
         /\ \A e \in Clients : [now EXCEPT ![e] = clock] \in [Clients -> 0..MaxClock]
  BY TelnetAssumption DEF IInv, TypeOK, TelnetInv, CleanedUp, Kept

LEMMA TelnetServes ==
  ASSUME IInv, NEW c \in Clients, deployed = "telnet", Telnet(c), prompts' = prompts
  PROVE  StepOf(c) /\ TelnetRule(c)
  <1>0. /\ IInv /\ deployed = "telnet" /\ prompts' = prompts
        /\ deployed \in Protocols /\ ConnInv /\ Fit(conn[c]) /\ conn[c] \in Connection
        /\ conn[c].n \in Nat /\ 0 \in Numbers /\ attempt[c] \in Numbers
        /\ prompts \in BOOLEAN /\ (prompts => deployed = "telnet")
    BY Typed
  <1>1. CASE TelnetReuse(c)
    <2> DEFINE kept == CleanedUp[conn[c].addr]
    <2>1. /\ kept # None /\ UNCHANGED <<events, answered>>
          /\ Moves(c, "queued", [conn[c] EXCEPT !.at = "ready", !.sid = kept.sid])
      BY <1>1 DEF TelnetReuse
    <2>2. conn[c].addr \in Addrs
      BY <1>0, <2>1 DEF Moves, Fit, Connection
    <2>3. kept = sessions[conn[c].addr] /\ sessions[conn[c].addr] # None
      BY <2>1, <2>2 DEF CleanedUp
    <2>4. kept.sid \in Clients /\ LoggedIn(kept.sid, conn[c].addr)
      BY <1>0, <2>2, <2>3 DEF IInv, TelnetInv, LoginInv
    <2> HIDE DEF kept
    <2>5. Turns(c, "queued", "ready", 0, kept.sid)
      BY <1>0, <2>1, <2>4, Settles
    <2>6. HasLogin(c)'
      BY <2>1, <2>4, <2>5 DEF Turns, HasLogin, LoggedIn, Logins
    <2>7. StepOf(c)
      BY <1>0, <2>1, <2>5, <2>6 DEF StepOf, Steps, Logged, Waiting
    <2>8. TelnetRule(c)
      BY <1>0, <1>1, Cleaned DEF TelnetRule, TelnetReuse
    <2> QED
      BY <2>7, <2>8
  <1>2. CASE TelnetAsk(c)
    <2>1. Moves(c, "queued", [conn[c] EXCEPT !.at = "login"]) /\ UNCHANGED <<events, answered>>
      BY <1>2 DEF TelnetAsk
    <2>2. Turns(c, "queued", "login", 0, conn[c].sid)
      BY <1>0, <2>1, GoesOn DEF Busy
    <2>3. StepOf(c)
      BY <1>0, <2>1, <2>2, ServesSilently DEF Working, Waiting, Busy
    <2>4. TelnetRule(c)
      BY <1>0, <1>2, Cleaned DEF TelnetRule, TelnetAsk
    <2> QED
      BY <2>3, <2>4
  <1>3. CASE TelnetAdmit(c)
    <2>1. /\ Moves(c, "queued", [conn[c] EXCEPT !.at = "ready", !.sid = c])
          /\ Logs(LoginEvent(c, c, 0, FALSE)) /\ ~prompts /\ UNCHANGED answered
      BY <1>3 DEF TelnetAdmit, LogsIn
    <2>2. Turns(c, "queued", "ready", 0, c)
      BY <1>0, <2>1, Settles
    <2>3. StepOf(c)
      BY <1>0, <2>1, <2>2, ServesLogin DEF Working, Waiting
    <2>4. HasLogin(c)'
      BY <1>0, <2>1, <2>2, LoginIsLogged DEF Turns
    <2>5. conn[c].addr \in Addrs /\ conn'[c].addr = conn[c].addr /\ conn'[c].sid = c
      BY <1>0, <2>2 DEF Turns, Fit, Connection
    <2>6. /\ sessions' = [CleanedUp EXCEPT ![conn[c].addr] = [sid |-> c, created |-> clock]]
           /\ clock \in 0..clock /\ now' \in {now, [now EXCEPT ![c] = clock]} /\ clock' = clock
      BY <1>0, <1>3, Cleaned DEF TelnetAdmit, LogsIn
    <2>7. TelnetRule(c)
      BY <1>0, <2>4, <2>5, <2>6, Cleaned DEF TelnetRule, Kept
    <2> QED
      BY <2>3, <2>7
  <1>4. CASE TelnetReject(c)
    <2>1. /\ Moves(c, "login", Answering(Taking(c), "login"))
          /\ Arrived(c) /\ UNCHANGED <<events, answered>>
      BY <1>4 DEF TelnetReject
    <2>2. Turns(c, "login", "login", 1, conn[c].sid)
      BY <1>0, <2>1, Replied DEF Route
    <2>3. StepOf(c)
      BY <1>0, <2>1, <2>2, ServesSilently DEF Working, Waiting, Busy
    <2>4. TelnetRule(c)
      BY <1>0, <1>4, Cleaned DEF TelnetRule, TelnetReject, telnetVars
    <2> QED
      BY <2>3, <2>4
  <1>5. CASE TelnetAccept(c)
    <2>1. /\ Moves(c, "login", [Answering(Taking(c), "ready") EXCEPT !.sid = c])
          /\ Arrived(c) /\ Logs(LoginEvent(c, c, conn'[c].n, TRUE)) /\ UNCHANGED answered
      BY <1>5 DEF TelnetAccept, LogsIn
    <2>2. Turns(c, "login", "ready", 1, c)
      BY <1>0, <2>1, RepliedWithSession
    <2>3. conn'[c].n \in Numbers
      BY <2>2 DEF Turns, Fit, Connection
    <2>4. StepOf(c)
      BY <1>0, <2>1, <2>2, <2>3, ServesLogin DEF Working, Waiting
    <2>5. HasLogin(c)'
      BY <1>0, <2>1, <2>2, LoginIsLogged DEF Turns
    <2>6. conn[c].addr \in Addrs /\ conn'[c].addr = conn[c].addr /\ conn'[c].sid = c
      BY <1>0, <2>2 DEF Turns, Fit, Connection
    <2>7. /\ sessions' = [sessions EXCEPT ![conn[c].addr] = [sid |-> c, created |-> now[c]]]
           /\ now[c] \in 0..clock /\ now' \in {now, [now EXCEPT ![c] = clock]} /\ clock' = clock
      BY <1>0, <1>5, Cleaned DEF TelnetAccept, LogsIn
    <2>8. TelnetRule(c)
      BY <1>0, <2>5, <2>6, <2>7, Cleaned DEF TelnetRule, Kept
    <2> QED
      BY <2>4, <2>8
  <1>6. CASE TelnetCommand(c)
    <2>1. /\ Moves(c, "ready", Answering(Taking(c), "ready"))
          /\ Arrived(c) /\ Logs(CommandEvent(c, "command")) /\ Answers(c)
      BY <1>6 DEF TelnetCommand
    <2>2. Turns(c, "ready", "ready", 1, conn[c].sid)
      BY <1>0, <2>1, Replied DEF Route
    <2>3. StepOf(c)
      BY <1>0, <2>1, <2>2, ServesCommand DEF Working, Waiting
    <2>4. TelnetRule(c)
      BY <1>0, <1>6, Cleaned DEF TelnetRule, TelnetCommand, telnetVars
    <2> QED
      BY <2>3, <2>4
  <1>7. CASE TelnetExit(c)
    <2>1. /\ Moves(c, "ready", Answering(Taking(c), "closed"))
          /\ Arrived(c) /\ Logs(CommandEvent(c, "command")) /\ Answers(c)
      BY <1>7 DEF TelnetExit
    <2>2. Turns(c, "ready", "closed", 1, conn[c].sid)
      BY <1>0, <2>1, Replied DEF Route
    <2>3. StepOf(c)
      BY <1>0, <2>1, <2>2, ServesCommand DEF Working, Waiting
    <2>4. TelnetRule(c)
      BY <1>0, <1>7, Cleaned DEF TelnetRule, TelnetExit, telnetVars
    <2> QED
      BY <2>3, <2>4
  <1>8. CASE TelnetFails(c)
    <2>1. /\ Moves(c, "ready", [Taking(c) EXCEPT !.at = "stuck", !.line = None])
          /\ Arrived(c) /\ UNCHANGED answered
      BY <1>8 DEF TelnetFails
    <2>2. Turns(c, "ready", "stuck", 1, conn[c].sid)
      BY <1>0, <2>1, Dropped DEF Route
    <2>3. ASSUME Logs(CommandEvent(c, "command")) PROVE StepOf(c)
      BY <1>0, <2>1, <2>2, <2>3, ServesCommand DEF Working
    <2>4. ASSUME UNCHANGED events PROVE StepOf(c)
      BY <1>0, <2>1, <2>2, <2>4, ServesSilently DEF Working, Waiting
    <2>5. StepOf(c)
      BY <1>8, <2>3, <2>4 DEF TelnetFails
    <2>6. TelnetRule(c)
      BY <1>0, <1>8, Cleaned DEF TelnetRule, TelnetFails, telnetVars
    <2> QED
      BY <2>5, <2>6
  <1>9. CASE TelnetIdle(c)
    <2>1. /\ Moves(c, "stuck", [conn[c] EXCEPT !.at = "closed", !.line = None])
          /\ UNCHANGED <<events, answered>>
      BY <1>9 DEF TelnetIdle, Dies
    <2>2. Turns(c, "stuck", "closed", 0, conn[c].sid)
      BY <1>0, <2>1, EndsFit
    <2>3. StepOf(c)
      BY <1>0, <2>1, <2>2, ServesSilently DEF Working, Waiting, Busy
    <2>4. TelnetRule(c)
      BY <1>0, <1>9, Cleaned DEF TelnetRule, TelnetIdle, telnetVars
    <2> QED
      BY <2>3, <2>4
  <1>10. CASE TelnetClosed(c)
    <2>1. PICK from \in {"login", "ready"} : EndOfFile(c, from)
      BY <1>10 DEF TelnetClosed
    <2>2. Turns(c, from, "closed", 0, conn[c].sid) /\ UNCHANGED <<events, answered>>
      BY <1>0, <2>1, EndsFit DEF EndOfFile
    <2>3. StepOf(c)
      BY <1>0, <2>2, ServesSilently DEF Working, Waiting, Busy
    <2>4. TelnetRule(c)
      BY <1>0, <1>10, Cleaned DEF TelnetRule, TelnetClosed, telnetVars
    <2> QED
      BY <2>3, <2>4
  <1> QED
    BY <1>1, <1>2, <1>3, <1>4, <1>5, <1>6, <1>7, <1>8, <1>9, <1>10 DEF Telnet

LEMMA PgServes ==
  ASSUME IInv, NEW c \in Clients, deployed = "postgres", Pg(c), prompts' = prompts
  PROVE  StepOf(c)
  <1>0. /\ IInv /\ deployed = "postgres" /\ prompts' = prompts
        /\ deployed \in Protocols /\ ConnInv /\ Fit(conn[c]) /\ conn[c] \in Connection
        /\ conn[c].n \in Nat /\ 0 \in Numbers /\ attempt[c] \in Numbers
        /\ prompts \in BOOLEAN /\ (prompts => deployed = "telnet")
    BY Typed
  <1>1. CASE PgRefuseSsl(c)
    <2>1. /\ Moves(c, "queued", Answering(Taking(c), "retry"))
          /\ Arrived(c) /\ UNCHANGED <<events, answered>>
      BY <1>1 DEF PgRefuseSsl, Replies, PgHandshake
    <2>2. Turns(c, "queued", "retry", 1, conn[c].sid)
      BY <1>0, <2>1, Replied DEF Route
    <2> QED
      BY <1>0, <2>1, <2>2, ServesSilently DEF Working, Waiting, Busy
  <1>2. CASE PgStartup(c)
    <2>1. Arrived(c) /\ UNCHANGED <<events, answered>>
          /\ \E from \in {"queued", "retry"} : Moves(c, from, Answering(Taking(c), "login"))
      BY <1>2 DEF PgStartup, PgHandshake, Replies
    <2>2. PICK from \in {"queued", "retry"} : Moves(c, from, Answering(Taking(c), "login"))
      BY <2>1
    <2>3. Turns(c, from, "login", 1, conn[c].sid)
      BY <1>0, <2>1, <2>2, Replied DEF Route
    <2> QED
      BY <1>0, <2>1, <2>3, ServesSilently DEF Working, Waiting, Busy
  <1>3. CASE PgPassword(c)
    <2>1. /\ Moves(c, "login", [Answering(Taking(c), "ready") EXCEPT !.sid = c])
          /\ Arrived(c) /\ Logs(LoginEvent(c, c, conn'[c].n, FALSE)) /\ UNCHANGED answered
      BY <1>3 DEF PgPassword, PgHandshake
    <2>2. Turns(c, "login", "ready", 1, c)
      BY <1>0, <2>1, RepliedWithSession
    <2>3. conn'[c].n \in Numbers
      BY <2>2 DEF Turns, Fit, Connection
    <2> QED
      BY <1>0, <2>1, <2>2, <2>3, ServesLogin DEF Working, Waiting
  <1>4. CASE PgNoPassword(c)
    <2>1. /\ Moves(c, "login", Answering(Taking(c), "closed"))
          /\ Arrived(c) /\ UNCHANGED <<events, answered>>
      BY <1>4 DEF PgNoPassword, Replies, PgHandshake
    <2>2. Turns(c, "login", "closed", 1, conn[c].sid)
      BY <1>0, <2>1, Replied DEF Route
    <2> QED
      BY <1>0, <2>1, <2>2, ServesSilently DEF Working, Waiting, Busy
  <1>5. CASE PgGarbled(c)
    <2>1. PICK from \in {"queued", "retry", "ready"} : Dies(c, from)
      BY <1>5 DEF PgGarbled
    <2>2. Turns(c, from, "closed", 0, conn[c].sid) /\ UNCHANGED <<events, answered>>
      BY <1>0, <2>1, EndsFit DEF Dies
    <2> QED
      BY <1>0, <2>2, ServesSilently DEF Working, Waiting, Busy
  <1>6. CASE PgQuery(c)
    <2>1. /\ Moves(c, "ready", [Taking(c) EXCEPT !.at = "process"])
          /\ Arrived(c) /\ Logs(CommandEvent(c, "error")) /\ UNCHANGED answered
      BY <1>6 DEF PgQuery, Message
    <2>2. Turns(c, "ready", "process", 1, conn[c].sid)
      BY <1>0, <2>1, Takes
    <2> QED
      BY <1>0, <2>1, <2>2, ServesCommand DEF Working, Waiting
  <1>7. CASE PgResult(c)
    <2>1. Moves(c, "process", Answering(conn[c], "ready")) /\ UNCHANGED events /\ Answers(c)
      BY <1>7 DEF PgResult
    <2>2. Turns(c, "process", "ready", 0, conn[c].sid)
      BY <1>0, <2>1, AnswerSent DEF Busy
    <2> QED
      BY <1>0, <2>1, <2>2, ServesAnswer DEF Working, Waiting, Busy
  <1>8. CASE PgParse(c)
    <2>1. /\ Moves(c, "ready", Answering(Taking(c), "ready"))
          /\ Arrived(c) /\ UNCHANGED <<events, answered>>
      BY <1>8 DEF PgParse, Replies, Message
    <2>2. Turns(c, "ready", "ready", 1, conn[c].sid)
      BY <1>0, <2>1, Replied DEF Route
    <2> QED
      BY <1>0, <2>1, <2>2, ServesSilently DEF Working, Waiting, Busy
  <1>9. CASE PgBind(c)
    <2>1. /\ Moves(c, "ready", Answering(Taking(c), "ready"))
          /\ Arrived(c) /\ UNCHANGED <<events, answered>>
      BY <1>9 DEF PgBind, Replies, Message
    <2>2. Turns(c, "ready", "ready", 1, conn[c].sid)
      BY <1>0, <2>1, Replied DEF Route
    <2> QED
      BY <1>0, <2>1, <2>2, ServesSilently DEF Working, Waiting, Busy
  <1>10. CASE PgDescribe(c)
    <2>1. /\ Moves(c, "ready", Answering(Taking(c), "ready"))
          /\ Arrived(c) /\ UNCHANGED <<events, answered>>
      BY <1>10 DEF PgDescribe, Replies, Message
    <2>2. Turns(c, "ready", "ready", 1, conn[c].sid)
      BY <1>0, <2>1, Replied DEF Route
    <2> QED
      BY <1>0, <2>1, <2>2, ServesSilently DEF Working, Waiting, Busy
  <1>11. CASE PgExecute(c)
    <2>1. Arrived(c) /\ UNCHANGED <<events, answered>>
          /\ \/ Moves(c, "ready", [Taking(c) EXCEPT !.at = "scan"])
             \/ Moves(c, "ready", Answering(Taking(c), "ready"))
      BY <1>11 DEF PgExecute, Message, Replies
    <2>2. CASE Moves(c, "ready", [Taking(c) EXCEPT !.at = "scan"])
      <3>1. Turns(c, "ready", "scan", 1, conn[c].sid)
        BY <1>0, <2>1, <2>2, Takes
      <3> QED
        BY <1>0, <2>1, <3>1, ServesSilently DEF Working, Waiting
    <2>3. CASE Moves(c, "ready", Answering(Taking(c), "ready"))
      <3>1. Turns(c, "ready", "ready", 1, conn[c].sid)
        BY <1>0, <2>1, <2>3, Replied DEF Route
      <3> QED
        BY <1>0, <2>1, <3>1, ServesSilently DEF Working, Waiting
    <2> QED
      BY <2>1, <2>2, <2>3
  <1>12. CASE PgExecuted(c)
    <2>1. Moves(c, "scan", Answering(conn[c], "ready")) /\ UNCHANGED <<events, answered>>
      BY <1>12 DEF PgExecuted
    <2>2. Turns(c, "scan", "ready", 0, conn[c].sid)
      BY <1>0, <2>1, AnswerSent DEF Busy
    <2> QED
      BY <1>0, <2>1, <2>2, ServesSilently DEF Working, Waiting, Busy
  <1>13. CASE PgOther(c)
    <2>1. /\ Moves(c, "ready", Answering(Taking(c), "ready"))
          /\ Arrived(c) /\ UNCHANGED <<events, answered>>
      BY <1>13 DEF PgOther, Replies, Message
    <2>2. Turns(c, "ready", "ready", 1, conn[c].sid)
      BY <1>0, <2>1, Replied DEF Route
    <2> QED
      BY <1>0, <2>1, <2>2, ServesSilently DEF Working, Waiting, Busy
  <1>14. CASE PgTerminate(c)
    <2>1. /\ Moves(c, "ready", [Taking(c) EXCEPT !.at = "closed", !.line = None])
          /\ Arrived(c) /\ UNCHANGED <<events, answered>>
      BY <1>14 DEF PgTerminate, Message
    <2>2. Turns(c, "ready", "closed", 1, conn[c].sid)
      BY <1>0, <2>1, Dropped DEF Route
    <2> QED
      BY <1>0, <2>1, <2>2, ServesSilently DEF Working, Waiting, Busy
  <1>15. CASE PgClosed(c)
    <2>1. PICK from \in {"queued", "midway", "retry", "login", "ready"} : EndOfFile(c, from)
      BY <1>15 DEF PgClosed
    <2>2. Turns(c, from, "closed", 0, conn[c].sid) /\ UNCHANGED <<events, answered>>
      BY <1>0, <2>1, EndsFit DEF EndOfFile
    <2> QED
      BY <1>0, <2>2, ServesSilently DEF Working, Waiting, Busy
  <1>16. CASE PgTakenForStartup(c)
    <2>1. PICK from \in {"queued", "retry"} : \E k : Moves(c, from, k) /\ Misread(c, k)
      <3> DEFINE lost == Len(conn[c].inbox) > 1
                 k == [Answering(Taking(c), "login") EXCEPT !.inbox = <<>>, !.lost = lost]
      <3>1. lost \in BOOLEAN /\ \E from \in {"queued", "retry"} : Moves(c, from, k)
        BY <1>16 DEF PgTakenForStartup
      <3>2. k = [Answering(Taking(c), "login") EXCEPT !.inbox = <<>>, !.lost = lost]
        OBVIOUS
      <3> HIDE DEF lost, k
      <3>3. Misread(c, k)
        BY <3>1, <3>2 DEF Misread
      <3> QED
        BY <3>1, <3>3
    <2>2. PICK k : Moves(c, from, k) /\ Misread(c, k)
      BY <2>1
    <2>3. Arrived(c) /\ UNCHANGED <<events, answered>>
      BY <1>16 DEF PgTakenForStartup, PgHandshake
    <2>4. Turns(c, from, k.at, 1, conn[c].sid) /\ k.at \in {"login", "midway", "closed"}
      BY <1>0, <2>2, <2>3, Misreads
    <2> QED
      BY <1>0, <2>3, <2>4, ServesSilently DEF Working, Waiting, Busy
  <1>17. CASE PgShort(c)
    <2>1. PICK from \in {"queued"} : \E k : Moves(c, from, k) /\ Misread(c, k)
      BY <1>17 DEF PgShort, Misread, Moves
    <2>2. PICK k : Moves(c, from, k) /\ Misread(c, k)
      BY <2>1
    <2>3. Arrived(c) /\ UNCHANGED <<events, answered>>
      BY <1>17 DEF PgShort, PgHandshake
    <2>4. Turns(c, from, k.at, 1, conn[c].sid) /\ k.at \in {"login", "midway", "closed"}
      BY <1>0, <2>2, <2>3, Misreads
    <2> QED
      BY <1>0, <2>3, <2>4, ServesSilently DEF Working, Waiting, Busy
  <1>18. CASE PgCutInTwo(c)
    <2>1. PICK from \in {"midway"} : \E k : Moves(c, from, k) /\ Misread(c, k)
      <3> DEFINE all == [Taking(c) EXCEPT !.line = None, !.inbox = <<>>]
      <3>1. PICK k : /\ Moves(c, "midway", k)
                     /\ k = [all EXCEPT !.at = "closed"] \/ k = [all EXCEPT !.lost = TRUE]
        BY <1>18 DEF PgCutInTwo
      <3>2. Taking(c) \in Connection /\ Taking(c).at = "midway"
        BY <1>0, <1>18, <3>1, TakingFits DEF PgCutInTwo, PgHandshake, Moves
      <3>3. k = [Taking(c) EXCEPT !.line = None, !.inbox = <<>>, !.at = "closed"]
            \/ k = [Taking(c) EXCEPT !.line = None, !.inbox = <<>>, !.lost = TRUE]
        BY <3>1, <3>2 DEF Connection
      <3>4. k = [Taking(c) EXCEPT !.line = None, !.inbox = <<>>, !.lost = TRUE] => k.at = "midway"
        BY <3>2 DEF Connection
      <3>5. Misread(c, k)
        BY <3>3, <3>4 DEF Misread
      <3> QED
        BY <3>1, <3>5
    <2>2. PICK k : Moves(c, from, k) /\ Misread(c, k)
      BY <2>1
    <2>3. Arrived(c) /\ UNCHANGED <<events, answered>>
      BY <1>18 DEF PgCutInTwo, PgHandshake
    <2>4. Turns(c, from, k.at, 1, conn[c].sid) /\ k.at \in {"login", "midway", "closed"}
      BY <1>0, <2>2, <2>3, Misreads
    <2> QED
      BY <1>0, <2>3, <2>4, ServesSilently DEF Working, Waiting, Busy
  <1> QED
    BY <1>1, <1>2, <1>3, <1>4, <1>5, <1>6, <1>7, <1>8, <1>9,
       <1>10, <1>11, <1>12, <1>13, <1>14, <1>15, <1>16, <1>17, <1>18 DEF Pg

LEMMA MysqlServes ==
  ASSUME IInv, NEW c \in Clients, deployed = "mysql", Mysql(c), prompts' = prompts
  PROVE  StepOf(c)
  <1>0. /\ IInv /\ deployed = "mysql" /\ prompts' = prompts
        /\ deployed \in Protocols /\ ConnInv /\ Fit(conn[c]) /\ conn[c] \in Connection
        /\ conn[c].n \in Nat /\ 0 \in Numbers /\ attempt[c] \in Numbers
        /\ prompts \in BOOLEAN /\ (prompts => deployed = "telnet")
    BY Typed
  <1>1. CASE MysqlInitSession(c)
    <2>1. /\ Moves(c, "queued", [conn[c] EXCEPT !.at = "ready", !.sid = c])
          /\ UNCHANGED <<events, answered>>
      BY <1>1 DEF MysqlInitSession
    <2>2. Turns(c, "queued", "ready", 0, c)
      BY <1>0, <2>1, Settles
    <2> QED
      BY <1>0, <2>1, <2>2 DEF StepOf, Steps, Logged, Waiting
  <1>2. CASE MysqlVariable(c)
    <2>1. /\ Moves(c, "ready", Answering(Taking(c), "ready"))
          /\ Arrived(c) /\ Logs(CommandEvent(c, "error")) /\ Answers(c)
      BY <1>2 DEF MysqlVariable, Query
    <2>2. Turns(c, "ready", "ready", 1, conn[c].sid)
      BY <1>0, <2>1, Replied DEF Route
    <2> QED
      BY <1>0, <2>1, <2>2, ServesCommand DEF Working, Waiting
  <1>3. CASE MysqlQuery(c)
    <2>1. /\ Moves(c, "ready", [Taking(c) EXCEPT !.at = "process"])
          /\ Arrived(c) /\ Logs(CommandEvent(c, "error")) /\ UNCHANGED answered
      BY <1>3 DEF MysqlQuery, Query
    <2>2. Turns(c, "ready", "process", 1, conn[c].sid)
      BY <1>0, <2>1, Takes
    <2> QED
      BY <1>0, <2>1, <2>2, ServesCommand DEF Working, Waiting
  <1>4. CASE MysqlResult(c)
    <2>1. Moves(c, "process", Answering(conn[c], "ready")) /\ UNCHANGED events /\ Answers(c)
      BY <1>4 DEF MysqlResult
    <2>2. Turns(c, "process", "ready", 0, conn[c].sid)
      BY <1>0, <2>1, AnswerSent DEF Busy
    <2> QED
      BY <1>0, <2>1, <2>2, ServesAnswer DEF Working, Waiting, Busy
  <1>5. CASE MysqlClosed(c)
    <2>1. /\ Moves(c, "ready", [conn[c] EXCEPT !.at = "closed", !.line = None])
          /\ UNCHANGED <<events, answered>>
      BY <1>5 DEF MysqlClosed, EndOfFile
    <2>2. Turns(c, "ready", "closed", 0, conn[c].sid)
      BY <1>0, <2>1, EndsFit
    <2> QED
      BY <1>0, <2>1, <2>2, ServesSilently DEF Working, Waiting, Busy
  <1> QED
    BY <1>1, <1>2, <1>3, <1>4, <1>5 DEF Mysql

-----------------------------------------------------------------------------
(* What a client's step leaves as it is. *)
ClientRule(c) ==
    /\ UNCHANGED events
    /\ conn'[c].n = conn[c].n
    /\ conn[c].at # "new" => conn'[c].at = conn[c].at
    /\ conn[c].at = "new" => conn'[c].at = "queued"
    /\ conn[c].at = "process" => conn'[c].inbox = conn[c].inbox

LEMMA Repeated ==
  ASSUME NEW S, NEW line \in S, NEW k \in Nat
  PROVE  [i \in 1..k |-> line] \in Seq(S) /\ Len([i \in 1..k |-> line]) = k
  OBVIOUS

LEMMA EmptyBefore ==
  ASSUME NEW S, NEW q \in Seq(S), NEW r \in Seq(S), Len(q) = 0
  PROVE  q \o r \in Seq(S) /\ Len(q \o r) = Len(r)
  OBVIOUS

LEMMA ClientAsks ==
  ASSUME IInv, NEW c \in Clients, Client(c), prompts' = prompts
  PROVE  StepOf(c) /\ ClientRule(c)
  <1>0. /\ IInv /\ prompts' = prompts
        /\ deployed \in Protocols /\ ConnInv /\ Fit(conn[c]) /\ conn[c] \in Connection
        /\ conn \in [Clients -> Connection]
        /\ conn[c].n \in Nat /\ conn[c].owed \in Nat /\ Segments \in Nat /\ MaxLines[deployed] \in Nat
        /\ conn[c].inbox \in Seq(Lines[deployed]) /\ Len(conn[c].inbox) \in Nat
        /\ 0 \in Numbers
    BY Typed, Fitting DEF ConnInv
  <1>1. UNCHANGED <<deployed, events, answered>> /\ conn' = [conn EXCEPT ![c] = conn'[c]]
    BY <1>0 DEF Client, Connect, Send, HangUp
  <1>2. ASSUME NEW a \in Addrs, Connect(c, a)
        PROVE  Turns(c, "new", "queued", 0, conn[c].sid) /\ ClientRule(c)
    <2> DEFINE k == conn'[c]
    <2>1. conn[c].at = "new" /\ k = [Fresh EXCEPT !.addr = a, !.at = "queued"]
      BY <1>0, <1>2 DEF Connect
    <2>2. conn[c].n = 0 /\ conn[c].sid = None
      BY <1>0, <2>1 DEF Fit
    <2> HIDE DEF k
    <2>3. /\ k.addr = a /\ k.at = "queued" /\ k.n = 0 /\ k.sid = None /\ k.owed = 0 /\ k.inbox = <<>>
          /\ k.line = None
      BY <2>1 DEF Fresh
    <2>4. k \in Connection
      <3>1. k = [addr |-> a, at |-> "queued", inbox |-> <<>>, line |-> None,
                 owed |-> 0, n |-> 0, sid |-> None, gone |-> FALSE, lost |-> FALSE]
        BY <2>1 DEF Fresh
      <3>2. <<>> \in Seq(Lines[deployed]) /\ 0 \in 0..Segments
        BY <1>0, Empty
      <3> QED
        BY <1>0, <3>1, <3>2 DEF Connection, Places
    <2>5. a # None
      BY ConnectionsAssumption
    <2>6. k.n + Len(k.inbox) <= MaxLines[deployed] /\ Len(k.inbox) <= k.owed
      BY <1>0, <2>3, Empty
    <2>7. Fit(k)
      BY <2>3, <2>4, <2>5, <2>6 DEF Fit, Busy
    <2> QED
      BY <1>1, <2>1, <2>2, <2>3, <2>7 DEF Turns, ClientRule, k
  <1>3. ASSUME NEW m \in 1..Segments, NEW line \in Lines[deployed], Send(c, [i \in 1..m |-> line])
        PROVE  Turns(c, conn[c].at, conn[c].at, 0, conn[c].sid) /\ ClientRule(c)
    <2> DEFINE k == conn'[c]
               lines == [i \in 1..m |-> line]
    <2>1. lines \in Seq(Lines[deployed]) /\ Len(lines) = m
      BY Repeated
    <2>2. /\ Open(c) /\ conn[c].owed = 0 /\ conn[c].n + Len(lines) <= MaxLines[deployed]
          /\ conn' = [conn EXCEPT ![c].inbox = @ \o lines, ![c].owed = Len(lines)]
      BY <1>3 DEF Send
    <2> HIDE DEF k, lines
    <2>3. Len(conn[c].inbox) = 0 /\ conn[c].at \notin Busy /\ conn[c].at # "new"
      BY <1>0, <2>2 DEF Fit, Open
    <2>4. conn[c].inbox \o lines \in Seq(Lines[deployed]) /\ Len(conn[c].inbox \o lines) = m
      BY <1>0, <2>1, <2>3, EmptyBefore
    <2>5. m \in 0..Segments
      OBVIOUS
    <2>6. /\ k \in Connection /\ k.addr = conn[c].addr /\ k.at = conn[c].at /\ k.n = conn[c].n
          /\ k.sid = conn[c].sid /\ k.line = conn[c].line /\ k.owed = m /\ k.inbox = conn[c].inbox \o lines
      BY <1>0, <2>1, <2>2, <2>4, <2>5 DEF Connection, k
    <2>7. k.n + Len(k.inbox) <= MaxLines[deployed] /\ Len(k.inbox) <= k.owed /\ conn[c].n + 0 = conn[c].n
      BY <1>0, <2>1, <2>2, <2>4, <2>6
    <2>8. Fit(k)
      BY <1>0, <2>3, <2>6, <2>7 DEF Fit
    <2> QED
      BY <1>1, <2>3, <2>6, <2>7, <2>8 DEF Turns, ClientRule, Busy, k
  <1>4. ASSUME HangUp(c)
        PROVE  Turns(c, conn[c].at, conn[c].at, 0, conn[c].sid) /\ ClientRule(c)
    <2> DEFINE k == conn'[c]
    <2>1. conn' = [conn EXCEPT ![c].gone = TRUE] /\ conn[c].at # "new"
      BY <1>4 DEF HangUp, Open
    <2> HIDE DEF k
    <2>2. /\ k \in Connection /\ k.addr = conn[c].addr /\ k.at = conn[c].at /\ k.n = conn[c].n
          /\ k.sid = conn[c].sid /\ k.line = conn[c].line /\ k.owed = conn[c].owed /\ k.inbox = conn[c].inbox
      BY <1>0, <2>1 DEF Connection, k
    <2>3. conn[c].n + 0 = conn[c].n
      BY <1>0
    <2>4. Fit(k)
      BY <1>0, <2>2 DEF Fit
    <2> QED
      BY <1>1, <2>1, <2>2, <2>3, <2>4 DEF Turns, ClientRule, k
  <1>5. CASE \E a \in Addrs : Connect(c, a)
    <2>1. Turns(c, "new", "queued", 0, conn[c].sid) /\ ClientRule(c)
      BY <1>2, <1>5
    <2> QED
      BY <1>0, <1>1, <2>1, ServesSilently DEF Working, Waiting, Busy
  <1>6. CASE HangUp(c) \/ \E m \in 1..Segments, line \in Lines[deployed] : Send(c, [i \in 1..m |-> line])
    <2>1. Turns(c, conn[c].at, conn[c].at, 0, conn[c].sid) /\ ClientRule(c)
      BY <1>3, <1>4, <1>6
    <2>2. Steps(c, conn[c].at, conn[c].at, 0, conn[c].sid)
      BY <1>0, <1>1, <2>1 DEF Steps, Logged
    <2> QED
      BY <2>1, <2>2 DEF StepOf
  <1> QED
    BY <1>5, <1>6 DEF Client

-----------------------------------------------------------------------------
(* What every step of a connection keeps. *)

LEMMA StepKeeps ==
  ASSUME IInv, NEW c \in Clients, StepOf(c)
  PROVE  /\ ConnInv' /\ deployed' = deployed /\ prompts' = prompts
         /\ \A e \in Clients \ {c} : conn'[e] = conn[e]
         /\ events \subseteq events' /\ answered \subseteq answered'
         /\ conn'[c].n \in Nat /\ conn[c].n \in Nat /\ conn[c].n <= conn'[c].n
         /\ conn[c].sid # None => conn'[c].sid = conn[c].sid
         /\ conn[c].addr # None => conn'[c].addr = conn[c].addr
  <1>1. PICK from, to, taken, s : Steps(c, from, to, taken, s)
    BY DEF StepOf
  <1>2. Turns(c, from, to, taken, s) /\ Fit(conn'[c]) /\ taken \in {0, 1}
    BY <1>1 DEF Steps, Turns
  <1>3. /\ deployed \in Protocols /\ ConnInv /\ Fit(conn[c]) /\ conn[c].n \in Nat
        /\ conn'[c] \in Connection /\ conn \in [Clients -> Connection]
    BY <1>2, Typed DEF ConnInv, Fit
  <1>4. /\ deployed' = deployed /\ prompts' = prompts /\ conn' = [conn EXCEPT ![c] = conn'[c]]
        /\ conn[c].at = from /\ conn'[c].n = conn[c].n + taken
    BY <1>1, <1>2 DEF Steps, Turns
  <1>5. conn' \in [Clients -> Connection] /\ \A e \in Clients \ {c} : conn'[e] = conn[e]
    BY <1>3, <1>4
  <1>6. \A e \in Clients : Fit(conn'[e])
    BY <1>2, <1>3, <1>5 DEF ConnInv
  <1>7. ConnInv'
    BY <1>4, <1>5, <1>6 DEF ConnInv, Fit, Connection, Numbers
  <1>8. events \subseteq events' /\ answered \subseteq answered'
    BY <1>1 DEF Steps, Logged, Logs, Answers
  <1>9. conn[c].sid # None => conn'[c].sid = conn[c].sid
    BY <1>1, <1>2, <1>3, <1>4 DEF Steps, Turns, Fit
  <1>10. conn[c].addr # None => conn'[c].addr = conn[c].addr
    BY <1>2, <1>3, <1>4 DEF Turns, Fit
  <1>11. conn'[c].n \in Nat /\ conn[c].n <= conn'[c].n
    BY <1>2, <1>3, <1>4
  <1> QED
    BY <1>3, <1>4, <1>5, <1>7, <1>8, <1>9, <1>10, <1>11

(* A login once in the log stays there. *)
LEMMA LoggedInKept ==
  ASSUME prompts' = prompts, events \subseteq events', NEW s, NEW a, LoggedIn(s, a)
  PROVE  LoggedIn(s, a)'
  BY DEF LoggedIn, Logins

LEMMA NotedKept ==
  ASSUME events \subseteq events', NEW t, Noted(t)
  PROVE  Noted(t)'
  BY DEF Noted, Logins

Event ==
    [type : {"auth_attempt", "command", "error"}, sid : Clients, addr : Addrs,
     client : Clients, n : 0..MaxLines[deployed], ok : BOOLEAN]

(* New in the log is a login, or a command of a connection with a session. *)
LEMMA NewEvents ==
  ASSUME IInv, NEW c \in Clients, StepOf(c), NEW e \in events', e \notin events
  PROVE  /\ e \in Event
         /\ e.type # "auth_attempt" =>
               /\ conn[c].at \in Working /\ e.sid = conn[c].sid /\ e.addr = conn[c].addr
               /\ e.client = c /\ e.n = conn'[c].n
  <1>1. PICK from, to, taken, s : Steps(c, from, to, taken, s)
    BY DEF StepOf
  <1>2. conn[c].at = from /\ Fit(conn'[c]) /\ Fit(conn[c]) /\ Logged(c, from)
    BY <1>1 DEF Steps, Turns, IInv, ConnInv
  <1>3. conn[c] \in Connection /\ conn'[c].n \in Numbers
    BY <1>2 DEF Fit, Connection
  <1>4. from # "new" => conn[c].addr \in Addrs
    BY <1>2, <1>3 DEF Fit, Connection
  <1>5. from \in Working => from # "new" /\ conn[c].sid \in Clients
    BY <1>2, <1>3 DEF Fit, Connection, Working, Busy
  <1>6. CASE from # "new" /\ \E n \in Numbers, ok \in BOOLEAN : e = LoginEvent(c, c, n, ok)
    BY <1>4, <1>6 DEF LoginEvent, Event, Numbers
  <1>7. CASE from \in Working /\ \E type \in {"command", "error"} : e = CommandEvent(c, type)
    BY <1>2, <1>3, <1>4, <1>5, <1>7 DEF CommandEvent, Event, Numbers
  <1> QED
    BY <1>2, <1>6, <1>7 DEF Logged, Logs

LEMMA EventsTyped ==
  ASSUME IInv, NEW c \in Clients, StepOf(c)
  PROVE  events' \subseteq Event /\ answered' \subseteq Clients \X (1..MaxLines[deployed])
  <1>1. events \subseteq Event /\ answered \subseteq Clients \X (1..MaxLines[deployed])
    BY DEF IInv, TypeOK, ConnectionsOK, Event
  <1>2. events' \subseteq Event
    BY <1>1, NewEvents
  <1>3. PICK from, to, taken, s : Steps(c, from, to, taken, s)
    BY DEF StepOf
  <1>4. /\ conn[c].n \in Nat /\ conn'[c].n \in Numbers /\ conn'[c].n = conn[c].n + taken
        /\ MaxLines[deployed] \in Nat /\ taken \in {0, 1}
        /\ from \in Busy => conn[c].n > 0
    BY <1>3, Typed DEF Steps, Turns, Fit, Connection
  <1>5. CASE answered' = answered
    BY <1>1, <1>2, <1>5
  <1>6. CASE answered' # answered
    <2>1. Answers(c) /\ (taken = 1 \/ from \in Busy)
      BY <1>3, <1>6 DEF Steps
    <2>2. conn'[c].n \in 1..MaxLines[deployed]
      BY <1>4, <2>1 DEF Numbers
    <2> QED
      BY <1>1, <1>2, <2>1, <2>2 DEF Answers
  <1> QED
    BY <1>5, <1>6

\* The sessions that are kept stay, or one of this connection joins them.
SessionsKept(c) ==
    \A a \in Addrs : sessions'[a] # None =>
       \/ sessions'[a] = sessions[a]
       \/ /\ a = conn[c].addr /\ conn'[c].addr = a
          /\ sessions'[a].sid = c /\ conn'[c].sid = c /\ HasLogin(c)'

LEMMA LoginKept ==
  ASSUME IInv, NEW c \in Clients, StepOf(c), SessionsKept(c)
  PROVE  LoginInv'
  <1>1. PICK from, to, taken, s : Steps(c, from, to, taken, s)
    BY DEF StepOf
  <1>2. /\ conn[c].at = from /\ conn'[c].at = to /\ conn'[c].sid = s
        /\ deployed' = deployed /\ prompts' = prompts /\ events \subseteq events'
        /\ \A e \in Clients \ {c} : conn'[e] = conn[e]
    BY <1>1, StepKeeps DEF Steps, Turns
  <1>3. LoginInv
    BY DEF IInv
  <1>4. deployed # "telnet" => \A e \in Clients : conn'[e].sid \in {None, e}
    <2> SUFFICES ASSUME deployed # "telnet", NEW e \in Clients PROVE conn'[e].sid \in {None, e}
      OBVIOUS
    <2>1. conn[e].sid \in {None, e}
      BY <1>3 DEF LoginInv
    <2>2. CASE e = c
      BY <1>1, <1>2, <2>1, <2>2 DEF Steps
    <2> QED
      BY <1>2, <2>1, <2>2
  <1>5. ASSUME deployed # "mysql", NEW e \in CommandEvents'
        PROVE  LoggedIn(e.sid, e.addr)'
    <2>1. CASE e \in events
      BY <1>2, <1>3, <1>5, <2>1, LoggedInKept DEF LoginInv, CommandEvents
    <2>2. CASE e \notin events
      <3>1. /\ conn[c].at \in Working /\ e.sid = conn[c].sid /\ e.addr = conn[c].addr
        BY <1>5, <2>2, NewEvents DEF CommandEvents
      <3>2. LoggedIn(e.sid, e.addr)
        BY <1>3, <1>5, <3>1 DEF LoginInv, HasLogin
      <3> QED
        BY <1>2, <3>2, LoggedInKept
    <2> QED
      BY <2>1, <2>2
  <1>6. ASSUME deployed # "mysql", NEW e \in Clients, conn'[e].at \in Working
        PROVE  HasLogin(e)'
    <2>1. ASSUME conn[e].at \in Working, conn'[e].sid = conn[e].sid, conn'[e].addr = conn[e].addr
          PROVE  HasLogin(e)'
      <3>1. LoggedIn(conn[e].sid, conn[e].addr)
        BY <1>3, <1>6, <2>1 DEF LoginInv, HasLogin
      <3>2. LoggedIn(conn[e].sid, conn[e].addr)'
        BY <1>2, <2>1, <3>1 DEF LoggedIn, Logins
      <3> QED
        BY <3>2 DEF HasLogin
    <2>2. CASE e # c
      BY <1>2, <1>6, <2>1, <2>2
    <2>3. CASE e = c
      <3>1. (from \in Working /\ s = conn[c].sid) \/ HasLogin(c)'
        BY <1>1, <1>2, <1>6, <2>3 DEF Steps
      <3>2. from \in Working => conn'[c].addr = conn[c].addr
        BY <1>1 DEF Steps, Turns, Working, Busy
      <3> QED
        BY <1>2, <2>1, <2>3, <3>1, <3>2
    <2> QED
      BY <2>2, <2>3
  <1>7. ASSUME deployed # "mysql", NEW a \in Addrs, sessions'[a] # None
        PROVE  LoggedIn(sessions[a].sid, a)'
    <2>1. CASE sessions'[a] = sessions[a]
      <3>1. LoggedIn(sessions[a].sid, a)
        BY <1>3, <1>7, <2>1 DEF LoginInv
      <3> QED
        BY <1>2, <2>1, <3>1 DEF LoggedIn, Logins
    <2>2. CASE sessions'[a].sid = c /\ conn'[c].sid = c /\ conn'[c].addr = a /\ HasLogin(c)'
      BY <2>2 DEF HasLogin, LoggedIn, Logins
    <2> QED
      BY <1>7, <2>1, <2>2 DEF SessionsKept
  <1>8. Working' = Working
    BY <1>2 DEF Working
  <1> QED
    BY <1>2, <1>3, <1>4, <1>5, <1>6, <1>7, <1>8 DEF LoginInv

LEMMA CommandedKept ==
  ASSUME IInv, NEW c \in Clients, StepOf(c), NEW d \in Clients, NEW n, Commanded(d, n)
  PROVE  Commanded(d, n)'
  <1>1. PICK e \in CommandEvents : e.client = d /\ e.n = n /\ e.sid = conn[d].sid
    BY DEF Commanded
  <1>2. e.sid \in Clients
    BY <1>1 DEF IInv, TypeOK, ConnectionsOK, CommandEvents
  <1>3. conn[d].sid # None
    BY <1>1, <1>2, ConnectionsAssumption
  <1>4. conn'[d].sid = conn[d].sid /\ events \subseteq events'
    BY <1>3, StepKeeps
  <1> QED
    BY <1>1, <1>4 DEF Commanded, CommandEvents

LEMMA AnswerKept ==
  ASSUME IInv, NEW c \in Clients, StepOf(c)
  PROVE  AnswerInv'
  <1>1. PICK from, to, taken, s : Steps(c, from, to, taken, s)
    BY DEF StepOf
  <1>2. /\ conn[c].at = from /\ conn'[c].at = to /\ conn'[c].n = conn[c].n + taken
        /\ conn[c].n \in Nat /\ deployed' = deployed
        /\ \A e \in Clients \ {c} : conn'[e] = conn[e]
    BY <1>1, StepKeeps DEF Steps, Turns
  <1>3. AnswerInv /\ answered \subseteq Clients \X (1..MaxLines[deployed])
    BY DEF IInv, TypeOK, ConnectionsOK
  <1>4. ASSUME answered' # answered \/ to = Waiting
        PROVE  Recorded(c)'
    <2>1. CASE from = Waiting /\ taken = 0
      <3>1. Commanded(c, conn[c].n)'
        BY <1>2, <1>3, <2>1, CommandedKept DEF AnswerInv, Recorded
      <3>2. conn'[c].n = conn[c].n
        BY <1>2, <2>1
      <3> QED
        BY <3>1, <3>2 DEF Recorded, Commanded, CommandEvents
    <2> QED
      BY <1>1, <1>4, <2>1 DEF Steps
  <1>5. ASSUME NEW p \in answered' PROVE Commanded(p[1], p[2])'
    <2>1. CASE p \in answered
      BY <1>3, <2>1, CommandedKept DEF AnswerInv
    <2>2. CASE p \notin answered
      <3>1. Answers(c) /\ p = <<c, conn'[c].n>>
        BY <1>1, <1>5, <2>2 DEF Steps, Answers
      <3>2. Recorded(c)' /\ p[1] = c /\ p[2] = conn'[c].n
        BY <1>4, <1>5, <2>2, <3>1
      <3> QED
        BY <3>2 DEF Recorded, Commanded, CommandEvents
    <2> QED
      BY <2>1, <2>2
  <1>6. ASSUME NEW e \in Clients, conn'[e].at = Waiting PROVE Recorded(e)'
    <2>1. CASE e = c
      BY <1>2, <1>4, <1>6, <2>1
    <2>2. CASE e # c
      <3>1. conn'[e] = conn[e]
        BY <1>2, <2>2
      <3>2. Commanded(e, conn[e].n)
        BY <1>3, <1>6, <3>1 DEF AnswerInv, Recorded
      <3>3. Commanded(e, conn[e].n)'
        BY <3>1, <3>2, CommandedKept
      <3> QED
        BY <3>1, <3>3 DEF Recorded, Commanded, CommandEvents
    <2> QED
      BY <2>1, <2>2
  <1>7. Waiting' = Waiting
    BY <1>2 DEF Waiting
  <1> QED
    BY <1>5, <1>6, <1>7 DEF AnswerInv

(* A new attempt is made by a command that follows a login with the last.  *)
LEMMA TriedKept ==
  ASSUME IInv, NEW c \in Clients, StepOf(c),
         deployed = "redis" => RedisRule(c),
         deployed # "redis" => UNCHANGED <<attempt, tried>>
  PROVE  TriedInv'
  <1>1. /\ deployed' = deployed /\ events \subseteq events' /\ conn[c].n \in Numbers
        /\ conn[c].n \in Nat /\ conn'[c].n \in Nat /\ conn[c].n <= conn'[c].n
        /\ \A d \in Clients \ {c} : conn'[d] = conn[d]
        /\ \A d \in Clients : conn[d].n \in Nat
    BY StepKeeps, Typed DEF Connection
  <1>2. Numbers' = Numbers /\ Numbers \subseteq Nat
    BY <1>1 DEF Numbers
  <1>3. /\ attempt \in [Clients -> Numbers] /\ tried \subseteq Clients \X Numbers
        /\ deployed # "redis" => tried = {}
    BY DEF IInv, TriedInv
  <1>4. events' \subseteq Event /\ events \subseteq Event
    BY EventsTyped DEF IInv, TypeOK, ConnectionsOK, Event
  <1>5. /\ attempt' \in [Clients -> Numbers] /\ tried' \subseteq Clients \X Numbers
        /\ deployed # "redis" => tried' = {}
    BY <1>1, <1>3 DEF RedisRule
  <1>6. ASSUME NEW e \in CommandEvents' PROVE e.n <= conn'[e.client].n
    <2>1. e \in Event
      BY <1>4 DEF CommandEvents
    <2>2. e.client \in Clients /\ e.n \in Numbers
      BY <2>1 DEF Event, Numbers
    <2>3. CASE e \in events
      <3>1. e.n <= conn[e.client].n
        BY <2>3 DEF IInv, TriedInv, CommandEvents
      <3>2. conn[e.client].n <= conn'[e.client].n /\ conn'[e.client].n \in Nat /\ conn[e.client].n \in Nat
        BY <1>1, <2>2
      <3>3. e.n \in Nat
        BY <1>2, <2>2
      <3> QED
        BY <3>1, <3>2, <3>3
    <2>4. CASE e \notin events
      BY <1>1, <2>4, NewEvents DEF CommandEvents
    <2> QED
      BY <2>3, <2>4
  <1>7. ASSUME NEW t \in tried'
        PROVE  /\ t[2] <= conn'[t[1]].n
               /\ Noted(t)' \/ t[2] = attempt'[t[1]]
               /\ conn'[t[1]].at = "process" => t[2] < conn'[t[1]].n
               /\ conn'[t[1]].at \in Busy /\ t[2] < conn'[t[1]].n => Noted(t)'
               /\ \A e \in CommandEvents' : e.client = t[1] /\ t[2] < e.n => Noted(t)'
    <2> DEFINE d == t[1]
    <2>0. /\ deployed = "redis" /\ RedisRule(c)
          /\ d \in Clients /\ t[2] \in Numbers /\ t[2] \in Nat
      <3>1. deployed = "redis"
        BY <1>5, <1>7
      <3>2. t \in Clients \X Numbers
        BY <1>5, <1>7
      <3> QED
        BY <1>2, <3>1, <3>2
    <2>1. ASSUME t \in tried
          PROVE  /\ t[2] <= conn[d].n
                 /\ Noted(t) \/ t[2] = attempt[d]
                 /\ conn[d].at = "process" => t[2] < conn[d].n
                 /\ conn[d].at \in Busy /\ t[2] < conn[d].n => Noted(t)
                 /\ \A e \in CommandEvents : e.client = d /\ t[2] < e.n => Noted(t)
                 /\ Noted(t) => Noted(t)'
      BY <1>1, <2>1, NotedKept DEF IInv, TriedInv
    <2>2. CASE t \in tried /\ d # c
      <3>1. conn'[d] = conn[d] /\ attempt'[d] = attempt[d]
        BY <1>1, <1>3, <2>0, <2>2 DEF RedisRule
      <3>2. ASSUME NEW e \in CommandEvents', e.client = d, t[2] < e.n PROVE Noted(t)'
        <4>1. e \in events
          BY <2>2, <3>2, NewEvents DEF CommandEvents
        <4> QED
          BY <2>1, <2>2, <3>2, <4>1 DEF CommandEvents
      <3> QED
        BY <2>1, <2>2, <3>1, <3>2
    <2>3. CASE t \in tried /\ d = c
      <3>1. t[2] <= conn'[c].n
        BY <1>1, <2>0, <2>1, <2>3
      <3>2. Noted(t)' \/ t[2] = attempt'[c]
        BY <2>0, <2>1, <2>3 DEF RedisRule, Busy
      <3>3. conn'[c].at = "process" => t[2] < conn'[c].n
        BY <1>1, <2>0, <2>1, <2>3 DEF RedisRule, Busy
      <3>4. ASSUME conn'[c].at \in Busy, t[2] < conn'[c].n PROVE Noted(t)'
        <4>1. CASE conn[c].at \in Busy
          BY <2>0, <2>1, <2>3, <3>4, <4>1 DEF RedisRule
        <4>2. CASE conn[c].at \notin Busy
          <5>1. LastNoted(c)'
            BY <2>0, <3>4, <4>2 DEF RedisRule
          <5> QED
            BY <2>0, <2>3, <3>2, <5>1 DEF LastNoted, Noted
        <4> QED
          BY <4>1, <4>2
      <3>5. ASSUME NEW e \in CommandEvents', e.client = c, t[2] < e.n PROVE Noted(t)'
        <4>1. CASE e \in events
          BY <2>1, <2>3, <3>5, <4>1 DEF CommandEvents
        <4>2. CASE e \notin events
          <5>1. conn[c].at \in Busy /\ e.n = conn'[c].n
            BY <2>0, <4>2, NewEvents DEF CommandEvents, Working
          <5>2. conn'[c].n = conn[c].n
            BY <2>0, <5>1 DEF RedisRule
          <5> QED
            BY <2>1, <2>3, <3>5, <5>1, <5>2
        <4> QED
          BY <4>1, <4>2
      <3> QED
        BY <2>3, <3>1, <3>2, <3>3, <3>4, <3>5
    <2>4. CASE t \notin tried
      <3>1. /\ conn[c].at = "process" /\ t = <<c, conn[c].n>> /\ UNCHANGED events
            /\ attempt' = [attempt EXCEPT ![c] = conn[c].n]
        BY <1>7, <2>0, <2>4 DEF RedisRule
      <3>2. conn'[c].n = conn[c].n /\ conn'[c].at # "process"
        BY <1>7, <2>0, <2>4, <3>1 DEF RedisRule, Busy
      <3>3. d = c /\ t[2] = conn[c].n /\ attempt'[c] = conn[c].n
        BY <1>3, <3>1
      <3>4. \A e \in CommandEvents' : e.client = c => e.n <= conn[c].n /\ e.n \in Nat
        <4>1. ASSUME NEW e \in CommandEvents' PROVE e.n \in Nat
          BY <1>2, <1>4 DEF CommandEvents, Event, Numbers
        <4> QED
          BY <1>6, <3>2, <4>1
      <3> QED
        BY <1>1, <3>2, <3>3, <3>4
    <2> QED
      BY <2>2, <2>3, <2>4
  <1> QED
    BY <1>1, <1>2, <1>5, <1>6, <1>7 DEF TriedInv

(* The TCP honeypot accepts a connection when it serves no other. *)
OneServed ==
    deployed = "tcp" =>
        \A c, e \in Clients : {conn[c].at, conn[e].at} \subseteq Served => c = e /\ accepting

LEMMA TcpKept ==
  ASSUME IInv, NEW c \in Clients, StepOf(c),
         deployed = "tcp" => TcpRule(c) \/ (ClientRule(c) /\ UNCHANGED accepting)
  PROVE  TcpInv' /\ OneServed'
  <1>1. deployed' = deployed /\ \A d \in Clients \ {c} : conn'[d] = conn[d]
    BY StepKeeps
  <1>2. SUFFICES ASSUME deployed = "tcp"
                 PROVE  /\ \A d \in Clients : conn'[d].at = "process" => conn'[d].inbox = <<>>
                        /\ \A d, e \in Clients : {conn'[d].at, conn'[e].at} \subseteq Served => d = e /\ accepting'
    BY <1>1 DEF TcpInv, OneServed
  <1>3. /\ \A d \in Clients : conn[d].at = "process" => conn[d].inbox = <<>>
        /\ \A d, e \in Clients : conn[d].at \in Served /\ conn[e].at \in Served => d = e /\ accepting
    BY <1>2 DEF IInv, TcpInv, TypeOK, Served
  <1>4. conn'[c].at = "process" => conn'[c].inbox = <<>>
    BY <1>2, <1>3 DEF TcpRule, ClientRule
  <1>5. ASSUME NEW d \in Clients, NEW e \in Clients, conn'[d].at \in Served, conn'[e].at \in Served
        PROVE  d = e /\ accepting'
    <2>1. CASE TcpRule(c)
      <3>1. ASSUME conn'[c].at \in Served, NEW x \in Clients, conn[x].at \in Served, x # c PROVE FALSE
        BY <1>3, <2>1, <3>1 DEF TcpRule, Serving, Served
      <3>2. d = e
        BY <1>1, <1>3, <1>5, <3>1
      <3>3. CASE d = c
        BY <1>3, <1>5, <2>1, <3>2, <3>3 DEF TcpRule
      <3>4. CASE d # c
        <4>1. conn[d].at \in Served
          BY <1>1, <1>5, <3>4
        <4>2. conn'[c].at \notin Served
          BY <3>1, <3>4, <4>1
        <4>3. conn[c].at \in Served
          BY <2>1, <4>2 DEF TcpRule
        <4> QED
          BY <1>3, <3>4, <4>1, <4>3
      <3> QED
        BY <3>2, <3>3, <3>4
    <2>2. CASE ClientRule(c) /\ UNCHANGED accepting
      <3>1. ASSUME NEW x \in Clients, conn'[x].at \in Served PROVE conn[x].at \in Served
        BY <1>1, <2>2, <3>1 DEF ClientRule, Served
      <3> QED
        BY <1>3, <1>5, <2>2, <3>1
    <2> QED
      BY <1>2, <2>1, <2>2
  <1> QED
    BY <1>1, <1>3, <1>4, <1>5

(* The address of a Telnet session is the one its connection came from. *)
Located ==
    \A a \in Addrs : sessions[a] # None =>
        sessions[a].created \in 0..clock /\ conn[sessions[a].sid].addr = a

LEMMA TelnetKept ==
  ASSUME IInv, NEW c \in Clients, StepOf(c), TelnetRule(c)
  PROVE  /\ TelnetInv' /\ Located' /\ SessionsKept(c)
         /\ clock' \in 0..MaxClock /\ now' \in [Clients -> 0..MaxClock]
  <1>1. /\ clock' = clock /\ clock \in 0..MaxClock /\ MaxClock \in Nat
        /\ sessions \in [Addrs -> Kept \cup {None}]
    BY Cleaned DEF TelnetRule
  <1>2. /\ sessions' \in [Addrs -> Kept \cup {None}]
        /\ now' \in [Clients -> 0..MaxClock] /\ \A e \in Clients : now'[e] <= clock
    BY DEF TelnetRule
  <1>3. ASSUME NEW a \in Addrs, sessions'[a] # None
        PROVE  /\ sessions'[a] \in [sid : Clients, created : 0..clock]
               /\ sessions'[a].created \in 0..clock
               /\ conn'[sessions'[a].sid].addr = a
    <2>1. CASE sessions'[a] = sessions[a]
      <3>1. /\ sessions[a] \in [sid : Clients, created : 0..clock]
            /\ conn[sessions[a].sid].addr = a
        BY <1>3, <2>1 DEF IInv, TelnetInv, TypeOK
      <3>2. sessions[a].sid \in Clients /\ a # None
        BY <3>1, ConnectionsAssumption
      <3>3. conn'[sessions[a].sid].addr = a
        BY <3>1, <3>2, StepKeeps
      <3> QED
        BY <2>1, <3>1, <3>3
    <2>2. CASE sessions'[a] \in [sid : {c}, created : 0..clock] /\ conn'[c].addr = a
      BY <2>2
    <2> QED
      BY <1>3, <2>1, <2>2 DEF TelnetRule
  <1>4. SessionsKept(c)
    BY DEF TelnetRule, SessionsKept
  <1>5. TelnetInv'
    BY <1>1, <1>2, <1>3 DEF TelnetInv, Kept
  <1>6. Located'
    BY <1>1, <1>3 DEF Located
  <1> QED
    BY <1>1, <1>2, <1>4, <1>5, <1>6

\* What the honeypots keep besides.
StoresOK ==
    /\ accepting \in BOOLEAN
    /\ store \in [Databases -> BOOLEAN] /\ db \in [Clients -> Databases]
    /\ loop \in [Clients -> {"none", "live", "resized"}]
    /\ statements \cup portals \cup set \subseteq Clients

LEMMA StepPreserves ==
  ASSUME IInv, NEW c \in Clients, StepOf(c), TelnetRule(c), StoresOK',
         deployed = "redis" => RedisRule(c),
         deployed # "redis" => UNCHANGED <<attempt, tried>>,
         deployed = "tcp" => TcpRule(c) \/ (ClientRule(c) /\ UNCHANGED accepting)
  PROVE  IInv'
  <1>1. ConnInv' /\ deployed' = deployed /\ prompts' = prompts
    BY StepKeeps
  <1>2. TriedInv'
    BY TriedKept
  <1>3. TcpInv' /\ OneServed'
    BY TcpKept
  <1>4. /\ TelnetInv' /\ Located' /\ SessionsKept(c)
        /\ clock' \in 0..MaxClock /\ now' \in [Clients -> 0..MaxClock]
    BY TelnetKept
  <1>5. LoginInv'
    BY <1>4, LoginKept
  <1>6. AnswerInv'
    BY AnswerKept
  <1>7. ConnectionsOK'
    <2>1. events' \subseteq Event /\ answered' \subseteq Clients \X (1..MaxLines[deployed])
      BY EventsTyped
    <2>2. deployed \in Protocols
      BY DEF IInv, TypeOK, ConnectionsOK
    <2>3. \A e \in Clients : Fit(conn[e])'
      BY <1>1 DEF ConnInv
    <2> QED
      BY <1>1, <2>1, <2>2, <2>3 DEF ConnectionsOK, Fit, Connection, Places, Busy, Numbers, Event
  <1>8. TypeOK'
    BY <1>1, <1>3, <1>4, <1>7 DEF TypeOK, StoresOK, OneServed, Located, Served, IInv
  <1> QED
    BY <1>1, <1>2, <1>3, <1>4, <1>5, <1>6, <1>8 DEF IInv

LEMMA TelnetIdles ==
  ASSUME IInv, NEW c \in Clients, UNCHANGED telnetVars
  PROVE  TelnetRule(c)
  BY Cleaned DEF telnetVars, TelnetRule

-----------------------------------------------------------------------------
(* The steps of the honeypots and the clients preserve the invariant. *)

LEMMA StoresTyped == ASSUME IInv PROVE StoresOK
  BY DEF IInv, TypeOK, StoresOK

LEMMA RedisStores ==
  ASSUME IInv, NEW c \in Clients, Redis(c)
  PROVE  /\ store' \in [Databases -> BOOLEAN] /\ db' \in [Clients -> Databases]
         /\ loop' \in [Clients -> {"none", "live", "resized"}]
  <1>0. StoresOK
    BY StoresTyped
  <1>1. CASE UNCHANGED <<store, db, loop>>
    BY <1>0, <1>1 DEF StoresOK
  <1>2. CASE RedisAccept(c)
    BY <1>1, <1>2 DEF RedisAccept, redisVars
  <1>3. CASE RedisReceive(c)
    BY <1>1, <1>3 DEF RedisReceive, redisVars
  <1>4. CASE RedisIncomplete(c)
    BY <1>1, <1>4 DEF RedisIncomplete, redisVars
  <1>5. CASE RedisAuth(c)
    BY <1>1, <1>5 DEF RedisAuth, redisVars
  <1>6. CASE RedisSelect(c)
    BY <1>0, <1>6 DEF RedisSelect, StoresOK
  <1>7. CASE RedisSet(c)
    BY <1>0, <1>7 DEF RedisSet, Puts, StoresOK
  <1>8. CASE RedisDelete(c)
    BY <1>0, <1>8 DEF RedisDelete, Puts, StoresOK
  <1>9. CASE RedisFlush(c)
    BY <1>0, <1>9 DEF RedisFlush, StoresOK
  <1>10. CASE RedisQuery(c)
    BY <1>1, <1>10 DEF RedisQuery, redisVars
  <1>11. CASE RedisScan(c)
    <2>1. loop' = [loop EXCEPT ![c] = "live"] /\ UNCHANGED <<store, db>>
      BY <1>11 DEF RedisScan
    <2> QED
      BY <1>0, <2>1 DEF StoresOK
  <1>12. CASE RedisScanned(c)
    <2>1. loop' = [loop EXCEPT ![c] = "none"] /\ UNCHANGED <<store, db>>
      BY <1>12 DEF RedisScanned
    <2> QED
      BY <1>0, <2>1 DEF StoresOK
  <1>13. CASE RedisFails(c)
    BY <1>1, <1>13 DEF RedisFails, redisVars
  <1>14. CASE RedisLog(c)
    BY <1>1, <1>14 DEF RedisLog, redisVars
  <1>15. CASE RedisReply(c)
    BY <1>1, <1>15 DEF RedisReply, redisVars
  <1>16. CASE RedisClosed(c)
    BY <1>1, <1>16 DEF RedisClosed, redisVars
  <1> QED
    BY <1>2, <1>3, <1>4, <1>5, <1>6, <1>7, <1>8, <1>9, <1>10, <1>11, <1>12, <1>13, <1>14, <1>15,
       <1>16
       DEF Redis

LEMMA PgStores ==
  ASSUME IInv, NEW c \in Clients, Pg(c)
  PROVE  statements' \subseteq Clients /\ portals' \subseteq Clients
  <1>0. statements \subseteq Clients /\ portals \subseteq Clients
    BY StoresTyped DEF StoresOK
  <1>1. CASE PgRefuseSsl(c)
    BY <1>0, <1>1 DEF PgRefuseSsl, PgHandshake, pgVars
  <1>2. CASE PgStartup(c)
    BY <1>0, <1>2 DEF PgStartup, PgHandshake, pgVars
  <1>3. CASE PgPassword(c)
    BY <1>0, <1>3 DEF PgPassword, PgHandshake, pgVars
  <1>4. CASE PgNoPassword(c)
    BY <1>0, <1>4 DEF PgNoPassword, PgHandshake, pgVars
  <1>5. CASE PgGarbled(c)
    BY <1>0, <1>5 DEF PgGarbled, PgHandshake, pgVars
  <1>6. CASE PgQuery(c)
    BY <1>0, <1>6 DEF PgQuery, pgVars
  <1>7. CASE PgResult(c)
    BY <1>0, <1>7 DEF PgResult, pgVars
  <1>8. CASE PgParse(c)
    BY <1>0, <1>8 DEF PgParse, pgVars
  <1>9. CASE PgBind(c)
    BY <1>0, <1>9 DEF PgBind, pgVars
  <1>10. CASE PgDescribe(c)
    BY <1>0, <1>10 DEF PgDescribe, pgVars
  <1>11. CASE PgExecute(c)
    BY <1>0, <1>11 DEF PgExecute, pgVars
  <1>12. CASE PgExecuted(c)
    BY <1>0, <1>12 DEF PgExecuted, pgVars
  <1>13. CASE PgOther(c)
    BY <1>0, <1>13 DEF PgOther, pgVars
  <1>14. CASE PgTerminate(c)
    BY <1>0, <1>14 DEF PgTerminate, pgVars
  <1>15. CASE PgClosed(c)
    BY <1>0, <1>15 DEF PgClosed, pgVars
  <1>16. CASE PgTakenForStartup(c)
    BY <1>0, <1>16 DEF PgTakenForStartup, PgHandshake, pgVars
  <1>17. CASE PgShort(c)
    BY <1>0, <1>17 DEF PgShort, PgHandshake, pgVars
  <1>18. CASE PgCutInTwo(c)
    BY <1>0, <1>18 DEF PgCutInTwo, PgHandshake, pgVars
  <1> QED
    BY <1>1, <1>2, <1>3, <1>4, <1>5, <1>6, <1>7, <1>8, <1>9,
       <1>10, <1>11, <1>12, <1>13, <1>14, <1>15, <1>16, <1>17, <1>18 DEF Pg

LEMMA MysqlStores ==
  ASSUME IInv, NEW c \in Clients, Mysql(c)
  PROVE  set' \subseteq Clients
  <1>0. set \subseteq Clients
    BY StoresTyped DEF StoresOK
  <1>1. CASE MysqlVariable(c)
    <2>1. set' = set \cup {c} \/ UNCHANGED set
      BY <1>1 DEF MysqlVariable
    <2> QED
      BY <1>0, <2>1
  <1>2. CASE MysqlInitSession(c) \/ MysqlQuery(c) \/ MysqlResult(c) \/ MysqlClosed(c)
    BY <1>0, <1>2 DEF MysqlInitSession, MysqlQuery, MysqlResult, MysqlClosed
  <1> QED
    BY <1>1, <1>2 DEF Mysql

LEMMA TelnetPrompts == ASSUME NEW c, Telnet(c) PROVE prompts' = prompts
  BY DEF Telnet, TelnetReuse, TelnetAsk, TelnetAdmit, TelnetReject, TelnetAccept,
         TelnetCommand, TelnetExit, TelnetFails, TelnetIdle, TelnetClosed, telnetVars

LEMMA ServerPreserves ==
  ASSUME IInv, NEW c \in Clients, Server(c)
  PROVE  IInv'
  <1>0. StoresOK
    BY StoresTyped
  <1>1. CASE deployed = "tcp" /\ Tcp(c) /\ UNCHANGED <<redisVars, telnetVars, pgVars, set>>
    <2>1. prompts' = prompts /\ TelnetRule(c)
      BY <1>1, TelnetIdles DEF telnetVars
    <2>2. StepOf(c) /\ TcpRule(c)
      BY <1>1, <2>1, TcpServes
    <2>3. StoresOK'
      BY <1>0, <1>1, <2>2 DEF redisVars, pgVars, StoresOK, TcpRule
    <2> QED
      BY <1>1, <2>1, <2>2, <2>3, StepPreserves DEF redisVars
  <1>2. CASE deployed = "redis" /\ Redis(c) /\ UNCHANGED <<accepting, telnetVars, pgVars, set>>
    <2>1. prompts' = prompts /\ TelnetRule(c)
      BY <1>2, TelnetIdles DEF telnetVars
    <2>2. StepOf(c) /\ RedisRule(c)
      BY <1>2, <2>1, RedisServes
    <2>3. StoresOK'
      BY <1>0, <1>2, <2>2, RedisStores DEF redisVars, pgVars, StoresOK
    <2> QED
      BY <1>2, <2>1, <2>2, <2>3, StepPreserves DEF redisVars
  <1>3. CASE deployed = "telnet" /\ Telnet(c) /\ UNCHANGED <<accepting, redisVars, pgVars, set>>
    <2>1. prompts' = prompts
      BY <1>3, TelnetPrompts
    <2>2. StepOf(c) /\ TelnetRule(c)
      BY <1>3, <2>1, TelnetServes
    <2>3. StoresOK'
      BY <1>0, <1>3, <2>2 DEF redisVars, pgVars, StoresOK
    <2> QED
      BY <1>3, <2>1, <2>2, <2>3, StepPreserves DEF redisVars
  <1>4. CASE deployed = "postgres" /\ Pg(c) /\ UNCHANGED <<accepting, redisVars, telnetVars, set>>
    <2>1. prompts' = prompts /\ TelnetRule(c)
      BY <1>4, TelnetIdles DEF telnetVars
    <2>2. StepOf(c)
      BY <1>4, <2>1, PgServes
    <2>3. StoresOK'
      BY <1>0, <1>4, <2>2, PgStores DEF redisVars, pgVars, StoresOK
    <2> QED
      BY <1>4, <2>1, <2>2, <2>3, StepPreserves DEF redisVars
  <1>5. CASE deployed = "mysql" /\ Mysql(c) /\ UNCHANGED <<accepting, redisVars, telnetVars, pgVars>>
    <2>1. prompts' = prompts /\ TelnetRule(c)
      BY <1>5, TelnetIdles DEF telnetVars
    <2>2. StepOf(c)
      BY <1>5, <2>1, MysqlServes
    <2>3. StoresOK'
      BY <1>0, <1>5, <2>2, MysqlStores DEF redisVars, pgVars, StoresOK
    <2> QED
      BY <1>5, <2>1, <2>2, <2>3, StepPreserves DEF redisVars
  <1> QED
    BY <1>1, <1>2, <1>3, <1>4, <1>5 DEF Server

LEMMA ClientPreserves ==
  ASSUME IInv, NEW c \in Clients, Client(c), UNCHANGED <<accepting, redisVars, telnetVars, pgVars, set>>
  PROVE  IInv'
  <1>1. prompts' = prompts /\ TelnetRule(c) /\ UNCHANGED <<attempt, tried>>
    BY TelnetIdles DEF telnetVars, redisVars
  <1>2. StepOf(c) /\ ClientRule(c)
    BY <1>1, ClientAsks
  <1>3. RedisRule(c)
    BY <1>1, <1>2 DEF RedisRule, ClientRule, Busy
  <1>4. StoresOK'
    BY StoresTyped DEF StoresOK, redisVars, pgVars
  <1> QED
    BY <1>1, <1>2, <1>3, <1>4, StepPreserves

LEMMA TickPreserves ==
  ASSUME IInv, Tick, UNCHANGED <<accepting, redisVars, pgVars, set>>
  PROVE  IInv'
  <1>1. /\ UNCHANGED <<deployed, conn, events, answered, accepting, prompts, sessions, now>>
        /\ UNCHANGED <<store, db, attempt, loop, tried, statements, portals, set>>
        /\ clock' = clock + 1 /\ clock' <= MaxClock
    BY Cleaned DEF Tick, base, redisVars, pgVars
  <1>2. clock' \in 0..MaxClock /\ \A i \in 0..clock : i \in 0..clock'
    BY <1>1, Cleaned
  <1>3. TelnetInv'
    <2>1. \A a \in Addrs : sessions[a] # None => sessions[a] \in [sid : Clients, created : 0..clock']
      BY <1>2 DEF IInv, TelnetInv
    <2>2. \A c \in Clients : now[c] <= clock'
      BY <1>1, Cleaned
    <2> QED
      BY <1>1, <2>1, <2>2 DEF IInv, TelnetInv
  <1>4. Located'
    BY <1>1, <1>2 DEF IInv, TypeOK, Located
  <1>5. TypeOK'
    BY <1>1, <1>2, <1>4 DEF IInv, TypeOK, ConnectionsOK, Located
  <1>6. ConnInv' /\ TcpInv' /\ AnswerInv' /\ TriedInv'
    BY <1>1 DEF IInv, ConnInv, Fit, Connection, Numbers, TcpInv, AnswerInv, Commanded, Recorded,
             CommandEvents, Waiting, TriedInv, Noted, Logins
  <1>7. LoginInv'
    BY <1>1 DEF IInv, LoginInv, LoggedIn, HasLogin, Logins, CommandEvents, Working
  <1> QED
    BY <1>3, <1>5, <1>6, <1>7 DEF IInv

LEMMA Inductive ==
  IInv /\ [Next]_vars => IInv'
  <1> SUFFICES ASSUME IInv, [Next]_vars PROVE IInv'
    OBVIOUS
  <1>1. CASE \E c \in Clients : Server(c)
    BY <1>1, ServerPreserves
  <1>2. CASE \E c \in Clients : Client(c) /\ UNCHANGED <<accepting, redisVars, telnetVars, pgVars, set>>
    BY <1>2, ClientPreserves
  <1>3. CASE Tick /\ UNCHANGED <<accepting, redisVars, pgVars, set>>
    BY <1>3, TickPreserves
  <1>4. CASE UNCHANGED vars
    <2>1. /\ UNCHANGED <<deployed, conn, events, answered, accepting, prompts, sessions, now, clock>>
          /\ UNCHANGED <<store, db, attempt, loop, tried, statements, portals, set>>
      BY <1>4 DEF vars, base, redisVars, telnetVars, pgVars
    <2>2. TypeOK' /\ TelnetInv'
      BY <2>1 DEF IInv, TypeOK, ConnectionsOK, TelnetInv
    <2>3. ConnInv' /\ TcpInv' /\ AnswerInv' /\ TriedInv'
      BY <2>1 DEF IInv, ConnInv, Fit, Connection, Numbers, TcpInv, AnswerInv, Commanded, Recorded,
               CommandEvents, Waiting, TriedInv, Noted, Logins
    <2>4. LoginInv'
      BY <2>1 DEF IInv, LoginInv, LoggedIn, HasLogin, Logins, CommandEvents, Working
    <2> QED
      BY <2>2, <2>3, <2>4 DEF IInv
  <1> QED
    BY <1>1, <1>2, <1>3, <1>4 DEF Next

LEMMA InitIInv ==
  Init => IInv
  <1> SUFFICES ASSUME Init PROVE IInv
    OBVIOUS
  <1>1. /\ deployed \in Protocols /\ conn = [c \in Clients |-> Fresh] /\ events = {} /\ answered = {}
        /\ accepting = TRUE
        /\ store = [d \in Databases |-> FALSE] /\ db = [c \in Clients |-> 0]
        /\ attempt = [c \in Clients |-> 0] /\ loop = [c \in Clients |-> "none"] /\ tried = {}
        /\ prompts \in BOOLEAN /\ sessions = [a \in Addrs |-> None] /\ now = [c \in Clients |-> 0] /\ clock = 0
        /\ statements = {} /\ portals = {} /\ set = {}
        /\ deployed # "telnet" => prompts = FALSE
    BY DEF Init, BaseInit, TcpInit, RedisInit, TelnetInit, PgInit, MysqlInit
  <1>2. /\ Fresh.at = "new" /\ Fresh.n = 0 /\ Fresh.sid = None /\ Fresh.owed = 0 /\ Fresh.inbox = <<>>
        /\ Fresh.line = None /\ Fresh.addr = None
    BY DEF Fresh
  <1>3. MaxLines[deployed] \in Nat /\ Segments \in Nat /\ MaxClock \in Nat /\ 0 \in Databases
    BY <1>1, ConnectionsAssumption, RedisAssumption, TelnetAssumption
  <1>4. 0 \in Numbers /\ 0 \in 0..Segments /\ 0 \in 0..MaxClock /\ 0 \in 0..clock
    BY <1>1, <1>3 DEF Numbers
  <1>5. Fresh \in Connection
    BY <1>4, Empty DEF Fresh, Connection, Places
  <1>6. Fit(Fresh)
    <2>1. Fresh.n + Len(Fresh.inbox) <= MaxLines[deployed] /\ Len(Fresh.inbox) <= Fresh.owed
      BY <1>2, <1>3, Empty
    <2> QED
      BY <1>2, <1>5, <2>1 DEF Fit, Busy
  <1>7. ConnInv
    BY <1>1, <1>5, <1>6 DEF ConnInv
  <1>8. \A c \in Clients : conn[c].at = "new" /\ conn[c].sid = None
    BY <1>1, <1>2
  <1>9. ConnectionsOK
    BY <1>1, <1>7 DEF ConnectionsOK, ConnInv, Fit, Connection, Places, Busy, Numbers
  <1>10. TypeOK
    BY <1>1, <1>3, <1>4, <1>8, <1>9 DEF TypeOK
  <1>11. TcpInv /\ AnswerInv
    BY <1>1, <1>8 DEF TcpInv, AnswerInv, Waiting
  <1>12. TelnetInv
    BY <1>1, <1>4 DEF TelnetInv
  <1>13. LoginInv
    BY <1>1, <1>8 DEF LoginInv, CommandEvents, Working, Busy
  <1>14. TriedInv
    BY <1>1, <1>4 DEF TriedInv, CommandEvents
  <1> QED
    BY <1>7, <1>10, <1>11, <1>12, <1>13, <1>14 DEF IInv

(* Everything stays of its type, a Telnet session is kept for its own       *)
(* address, and the TCP honeypot serves one connection at a time, whichever *)
(* honeypot is deployed and however many connections come and go.           *)
THEOREM TypeCorrect == Spec => []TypeOK
  <1>1. IInv => TypeOK
    BY DEF IInv
  <1> QED
    BY <1>1, InitIInv, Inductive, PTL DEF Spec

(* Nobody's command is in the log without the login of its session, from    *)
(* its address, and, where the honeypot asks for credentials, an accepted   *)
(* one (base_honeypot.py log_login).                                        *)
THEOREM LoginFirst == Spec => []LoginBeforeCommands
  <1>1. IInv => LoginBeforeCommands
    BY DEF IInv, LoginInv, LoggedIn, LoginBeforeCommands, Logins
  <1> QED
    BY <1>1, InitIInv, Inductive, PTL DEF Spec

(* What was answered is in the log, and no attempt made before a command    *)
(* that is in the log is missing there.                                     *)
THEOREM LogIsComplete == Spec => []LogComplete
  <1>1. ASSUME IInv PROVE LogComplete
    <2>1. ASSUME NEW p \in answered
          PROVE  \E e \in CommandEvents : <<e.client, e.n>> = p /\ e.sid = conn[p[1]].sid
      <3>1. p \in Clients \X (1..MaxLines[deployed])
        BY <1>1 DEF IInv, TypeOK, ConnectionsOK
      <3>2. PICK e \in CommandEvents : e.client = p[1] /\ e.n = p[2] /\ e.sid = conn[p[1]].sid
        BY <1>1 DEF IInv, AnswerInv, Commanded
      <3> QED
        BY <3>1, <3>2
    <2>2. ASSUME NEW e \in CommandEvents, NEW t \in tried, e.client = t[1], t[2] < e.n
          PROVE  \E l \in events : l.type = "auth_attempt" /\ <<l.client, l.n>> = t
      <3>1. t \in Clients \X Numbers
        BY <1>1 DEF IInv, TriedInv
      <3>2. Noted(t)
        BY <1>1, <2>2 DEF IInv, TriedInv
      <3> QED
        BY <3>1, <3>2 DEF Noted, Logins
    <2> QED
      BY <2>1, <2>2 DEF LogComplete
  <1> QED
    BY <1>1, InitIInv, Inductive, PTL DEF Spec

=============================================================================
