------------------------- MODULE DispatcherProofs -------------------------
(***************************************************************************)
(* Theorems about Dispatcher.tla, for any visitors, connections, honeypots *)
(* and routes: one request at a time at every listener, a log with exactly *)
(* one login of a session, before its commands, that tells who answered,   *)
(* and pins that only a route moves.                                       *)
(*                                                                         *)
(* A step of the system is put into one of twelve forms first (AnyStep),   *)
(* which say field by field what becomes of a request; each part of the    *)
(* invariant is then kept by every form.                                   *)
(***************************************************************************)
EXTENDS Dispatcher, FiniteSetTheorems, TLAPS

(* A request in the listener's hands, one that the dispatcher routes, and  *)
(* one that is not answered yet.                                           *)
AtFront(k) == k.at \in {"routing", "forwarded"}
UnderWay(k) == k.at \in {"sent", "session", "routing", "forwarded"}
Active(k) == k.at # "idle"

(* Commands, and what backends log, are of visitors, with ids.             *)
Command == [v : Visitors, sid : Ids]
CommandsInv == commands \subseteq Command /\ fallbacks \subseteq Command

(* Nobody listens, and no request is under way, unless the process is      *)
(* starting or up.                                                         *)
ProcessInv ==
    /\ phase \in {"create", "register", "down"} =>
          listening = {} /\ \A c \in Conns : ~Active(conn[c])
    /\ phase = "start" => starting \subseteq registry

(* Where a request is in its handler says what is known of it; the pin of  *)
(* a forwarded one is who answered, if it is registered.                   *)
RequestInv ==
    \A c \in Conns :
        /\ Active(conn[c]) => conn[c].v \in Visitors /\ conn[c].to \in Folders
                              /\ conn[c].path \in Paths
        /\ conn[c].at \in {"sent", "session"} => ~conn[c].set
        /\ AtFront(conn[c]) => conn[c].to = Front /\ conn[c].sid \in Ids
        /\ conn[c].at = "forwarded" =>
              /\ pin[conn[c].sid] # None
              /\ pin[conn[c].sid] \in registry => conn[c].by = pin[conn[c].sid]

(* A request that has been sent makes at most two ids, and one that has    *)
(* its Flask session one more: so the ids suffice.                         *)
SentConns == {c \in Conns : conn[c].at = "sent"}
NewConns == {c \in Conns : conn[c].at = "session"}

CountInv ==
    /\ IsFiniteSet(SentConns) /\ IsFiniteSet(NewConns)
    /\ lastId + 2 * Cardinality(SentConns) + Cardinality(NewConns) <= 2 * sends

(* Flask's cookie is of a session that logged in, or that the dispatcher   *)
(* made.                                                                   *)
Known(i) == i = NoId \/ logins[i] > 0 \/ i \in silent

FlaskInv ==
    /\ \A v \in Visitors : Known(jar[v].flask.id)
    /\ \A c \in Conns :
          /\ Known(conn[c].flask.id)
          /\ conn[c].at \in InService => conn[c].flask.id # NoId

(* A visitor has a session id in its cookie, a request or a command.  No   *)
(* two have one, and none has an id that is not made yet, nor has a login. *)
Has(v, i) ==
    \/ jar[v].sid = i
    \/ \E c \in Conns : Active(conn[c]) /\ conn[c].v = v /\ conn[c].sid = i
    \/ \E e \in commands : e.v = v /\ e.sid = i

OwnInv ==
    /\ \A v \in Visitors, i \in Ids : Has(v, i) => i <= lastId
    /\ \A v, w \in Visitors, i \in Ids : Has(v, i) /\ Has(w, i) => v = w
    /\ \A i \in Ids : i > lastId => logins[i] = 0

(* Unless the visitor loses cookies: a session id that it brings has       *)
(* logged in, and a cookie that remembers a login comes with one.          *)
Careful(v) == "loses" \notin habits[v]
LoggedIn(i) == i # NoId /\ logins[i] > 0

FirstJar(v) ==
    /\ jar[v].sid # NoId => LoggedIn(jar[v].sid)
    /\ jar[v].flask.logged => jar[v].sid # NoId

FirstRequest(k) ==
    /\ UnderWay(k) =>
          /\ k.sid # NoId /\ ~k.set => LoggedIn(k.sid) /\ jar[k.v].sid # NoId
          /\ k.flask.logged => ~k.set /\ k.sid # NoId
          /\ k.set => k.sid # NoId
    /\ k.at = "response" =>
          /\ k.set => LoggedIn(k.sid)
          /\ k.flask.logged => k.set \/ jar[k.v].sid # NoId

FirstInv ==
    /\ \A v \in Visitors : Careful(v) => FirstJar(v)
    /\ \A c \in Conns : Active(conn[c]) /\ Careful(conn[c].v) => FirstRequest(conn[c])

(* A visitor who waits and loses nothing has one request at a time, and a  *)
(* session that has logged in once, or will with that request.             *)
Steady(v) == habits[v] = {}
Once(i) == logins[i] = 1

OnceJar(v) == jar[v].sid # NoId => jar[v].flask.logged /\ Once(jar[v].sid)

OnceRequest(k) ==
    /\ jar[k.v].sid # NoId => k.flask.logged
    /\ UnderWay(k) /\ k.sid # NoId =>
          /\ k.set => ~k.flask.logged /\ logins[k.sid] = 0
          /\ ~k.set => k.flask.logged /\ Once(k.sid)
    /\ k.at = "response" /\ k.set =>
          k.sid # NoId /\ k.modified /\ k.flask.logged /\ Once(k.sid)

OnceInv ==
    /\ \A v \in Visitors : Steady(v) => OnceJar(v)
    /\ \A c \in Conns : Active(conn[c]) /\ Steady(conn[c].v) => OnceRequest(conn[c])
    /\ \A c, d \in Conns :
          Active(conn[c]) /\ Active(conn[d]) /\ conn[c].v = conn[d].v /\ Steady(conn[c].v) => c = d

IInv ==
    /\ TypeOK /\ CommandsInv /\ ProcessInv /\ RequestInv /\ CountInv /\ FlaskInv
    /\ OwnInv /\ FirstInv /\ OnceInv /\ LogTruthful

-----------------------------------------------------------------------------
(* The forms of a step.                                                    *)

Only(c) ==
    /\ conn' \in [Conns -> Request]
    /\ \A d \in Conns : d # c => conn'[d] = conn[d]

\* A request keeps its visitor, its listener and its path.
SameRequest(c) ==
    /\ Only(c)
    /\ conn'[c].v = conn[c].v /\ conn'[c].to = conn[c].to /\ conn'[c].path = conn[c].path

StartUpStep ==
    /\ UNCHANGED <<pin, jar, conn, lastId, logins, commands, requests, entries, fallbacks, cut,
                   silent, habits, sends>>
    /\ phase' \in {"create", "register", "start", "up"} /\ restarts' \in 0..MaxRestarts
    /\ starting' \subseteq Folders /\ registry' \subseteq Folders
    /\ listening' \subseteq Answering \cap registry'
    /\ phase' \in {"create", "register"} => listening' = {} /\ \A c \in Conns : ~Active(conn[c])
    /\ phase' = "start" => starting' \subseteq registry'
    /\ registry' = registry \/ \A c \in Conns : ~Active(conn[c])

StopStep ==
    /\ UNCHANGED <<jar, lastId, logins, commands, requests, entries, fallbacks, silent, habits,
                   sends, restarts>>
    /\ phase' = "down" /\ listening' = {} /\ starting' = {} /\ registry' = {}
    /\ pin' = [i \in Ids |-> None]
    /\ conn' \in [Conns -> Request]
    /\ \A c \in Conns : conn'[c].at = "idle" /\ conn'[c].flask.id = NoId
    /\ cut' = cut \cup {conn[c].sid : c \in {c \in Conns : conn[c].at = "forwarded"}}

SendStep(c, v) ==
    /\ UNCHANGED <<phase, starting, registry, listening, pin, jar, lastId, logins, commands,
                   requests, entries, fallbacks, cut, silent, restarts>>
    /\ Only(c) /\ conn[c].at = "idle" /\ conn'[c].at = "sent"
    /\ conn'[c].v = v /\ conn'[c].to \in listening /\ conn'[c].path \in Paths
    /\ conn'[c].sid = jar[v].sid /\ ~conn'[c].set /\ conn'[c].flask = jar[v].flask
    /\ sends' = sends + 1 /\ sends < MaxRequests
    /\ habits' \in [Visitors -> SUBSET {"together", "loses"}]
    /\ \A w \in Visitors : habits[w] \subseteq habits'[w]
    /\ habits'[v] = {} => \A d \in Conns : conn[d].v # v

ReceiveStep(c) ==
    /\ UNCHANGED <<phase, starting, registry, listening, pin, lastId, logins, commands, requests,
                   entries, fallbacks, cut, silent, habits, sends, restarts>>
    /\ Only(c) /\ conn[c].at = "response" /\ conn'[c].at = "idle" /\ conn'[c].flask.id = NoId
    /\ jar' \in [Visitors -> [sid : Ids \cup {NoId}, flask : Cookie]]
    /\ \A w \in Visitors : w # conn[c].v => jar'[w] = jar[w]
    /\ jar'[conn[c].v].sid = IF conn[c].set THEN conn[c].sid ELSE jar[conn[c].v].sid
    /\ jar'[conn[c].v].flask = IF conn[c].modified THEN conn[c].flask ELSE jar[conn[c].v].flask

LeaveStep(c) ==
    /\ UNCHANGED <<phase, starting, registry, listening, pin, jar, lastId, logins, commands,
                   requests, entries, fallbacks, cut, silent, habits, sends, restarts>>
    /\ Only(c) /\ conn[c].at \in {"sent", "response"}
    /\ conn'[c].at = "idle" /\ conn'[c].flask.id = NoId

LoseStep(v) ==
    /\ UNCHANGED <<phase, starting, registry, listening, pin, conn, lastId, logins, commands,
                   requests, entries, fallbacks, cut, silent, sends, restarts>>
    /\ jar' \in [Visitors -> [sid : Ids \cup {NoId}, flask : Cookie]]
    /\ jar'[v].sid = NoId /\ jar'[v].flask = jar[v].flask
    /\ habits' \in [Visitors -> SUBSET {"together", "loses"}] /\ "loses" \in habits'[v]
    /\ \A w \in Visitors : w # v => jar'[w] = jar[w] /\ habits'[w] = habits[w]

SessionStep(c) ==
    /\ UNCHANGED <<phase, starting, registry, listening, pin, jar, commands, requests, entries,
                   fallbacks, cut, habits, sends, restarts>>
    /\ SameRequest(c) /\ conn[c].at = "sent" /\ conn'[c].at = "session"
    /\ \A d \in Conns : conn[d].to = conn[c].to => conn[d].at \notin InService
    /\ conn'[c].sid = conn[c].sid /\ conn'[c].set = conn[c].set
    /\ conn'[c].flask.logged = conn[c].flask.logged
    /\ logins' \in [Ids -> Nat]
    /\ \/ /\ conn[c].flask.id # NoId /\ conn'[c].flask.id = conn[c].flask.id
          /\ UNCHANGED <<lastId, logins, silent>>
       \/ /\ lastId' = lastId + 1 /\ lastId + 1 \in Ids /\ conn'[c].flask.id = lastId + 1
          /\ \A i \in Ids : i # lastId + 1 => logins'[i] = logins[i]
          /\ \/ logins'[lastId + 1] = logins[lastId + 1] + 1 /\ silent' = silent
             \/ logins' = logins /\ silent' = silent \cup {lastId + 1}

AnswerStep(c) ==
    /\ UNCHANGED <<phase, starting, registry, listening, pin, jar, lastId, logins, commands,
                   entries, fallbacks, cut, silent, habits, sends, restarts>>
    /\ SameRequest(c) /\ conn[c].at = "session" /\ conn'[c].at = "response"
    /\ conn'[c].sid = conn[c].sid /\ conn'[c].set = conn[c].set /\ conn'[c].flask = conn[c].flask
    /\ requests' \in {requests, requests \cup {conn[c].flask.id}}

ExtractStep(c) ==
    /\ UNCHANGED <<phase, starting, registry, listening, pin, jar, logins, commands, requests,
                   entries, fallbacks, cut, silent, habits, sends, restarts>>
    /\ SameRequest(c) /\ conn[c].at = "session" /\ conn'[c].at = "routing"
    /\ conn[c].to = Front /\ conn'[c].flask = conn[c].flask /\ conn'[c].sid \in Ids
    /\ \/ /\ conn[c].sid # NoId /\ conn'[c].sid = conn[c].sid /\ ~conn'[c].set
          /\ lastId' = lastId
       \/ /\ conn[c].sid = NoId /\ conn'[c].sid = lastId + 1 /\ conn'[c].set
          /\ lastId' = lastId + 1

\* What the dispatcher does to the session's pin.
PinStep(c) ==
    /\ pin' \in [Ids -> Names \cup {None}]
    /\ \A i \in Ids : i # conn[c].sid => pin'[i] = pin[i]

ForwardStep(c) ==
    /\ UNCHANGED <<phase, starting, registry, listening, jar, lastId, logins, commands, requests,
                   entries, cut, silent, habits, sends, restarts>>
    /\ SameRequest(c) /\ conn[c].at = "routing" /\ conn'[c].at = "forwarded"
    /\ conn'[c].sid = conn[c].sid /\ conn'[c].set = conn[c].set /\ conn'[c].flask = conn[c].flask
    /\ PinStep(c) /\ pin'[conn[c].sid] # None
    /\ pin'[conn[c].sid] \in registry => conn'[c].by = pin'[conn[c].sid]
    /\ fallbacks' \in {fallbacks, fallbacks \cup {Fallback(c)}}

FailStep(c) ==
    /\ UNCHANGED <<phase, starting, registry, listening, jar, lastId, logins, commands, requests,
                   entries, fallbacks, cut, silent, habits, sends, restarts>>
    /\ SameRequest(c) /\ conn[c].at = "routing" /\ conn'[c].at = "response"
    /\ conn'[c].sid = conn[c].sid /\ ~conn'[c].set /\ conn'[c].flask = conn[c].flask
    /\ PinStep(c)

LoginStep(c, e) ==
    /\ UNCHANGED <<phase, starting, registry, listening, pin, jar, lastId, requests, fallbacks, cut,
                   silent, habits, sends, restarts>>
    /\ SameRequest(c) /\ conn[c].at = "forwarded" /\ conn'[c].at = "response"
    /\ conn'[c].sid = conn[c].sid /\ conn'[c].set = conn[c].set
    /\ conn'[c].flask.id = conn[c].flask.id /\ conn'[c].flask.logged
    /\ ~conn[c].flask.logged => conn'[c].modified
    /\ logins' \in [Ids -> Nat]
    /\ \A i \in Ids : i # conn[c].sid => logins'[i] = logins[i]
    /\ conn[c].flask.logged => logins' = logins
    /\ ~conn[c].flask.logged => logins'[conn[c].sid] = logins[conn[c].sid] + 1
    /\ commands' = commands \cup {e} /\ e \in Command
    /\ e.v = conn[c].v /\ e.sid = conn[c].sid
    /\ \A d \in entries' \ entries :
           /\ d.name = pin[conn[c].sid] /\ d.by = conn[c].by
           /\ d.known => pin[conn[c].sid] \in registry

AnyStep ==
    \/ StartUpStep \/ StopStep
    \/ \E c \in Conns, v \in Visitors : SendStep(c, v)
    \/ \E v \in Visitors : LoseStep(v)
    \/ \E c \in Conns :
          \/ ReceiveStep(c) \/ LeaveStep(c) \/ SessionStep(c) \/ AnswerStep(c) \/ ExtractStep(c)
          \/ ForwardStep(c) \/ FailStep(c)
          \/ \E e \in Command : LoginStep(c, e)


-----------------------------------------------------------------------------
(* Ids, and the records of requests. *)

LEMMA IdFacts ==
  /\ MaxRequests \in Nat /\ Ids \subseteq Nat /\ NoId \in Nat /\ NoId \notin Ids
  /\ \A i \in Ids : i > NoId
  BY DispatcherAssumption DEF Ids, NoId

LEMMA NameFacts ==
  /\ None \notin Folders /\ Front \in Folders /\ Front \in Answering /\ Answering \subseteq Folders
  /\ Folders \subseteq Names
  BY DispatcherAssumption DEF Folders, Names

LEMMA FlaskSessionRecord ==
  ASSUME NEW k \in Request, NEW i \in Ids \cup {NoId}, NEW r, r = WithFlaskSession(k, i)
  PROVE  /\ r \in Request /\ r.at = "session" /\ r.v = k.v /\ r.to = k.to /\ r.path = k.path
         /\ r.sid = k.sid /\ r.set = k.set /\ r.flask.id = i /\ r.flask.logged = k.flask.logged
         /\ r.modified = (k.flask.id = NoId)
  <1> DEFINE b == k.flask.id = NoId
             f == [k.flask EXCEPT !.id = i]
  <1>1. b \in BOOLEAN /\ r = [k EXCEPT !.at = "session", !.modified = b, !.flask = f]
    BY DEF WithFlaskSession
  <1>2. k.flask \in Cookie
    BY DEF Request
  <1>3. f \in Cookie /\ f.id = i /\ f.logged = k.flask.logged
    BY <1>2 DEF Cookie
  <1> HIDE DEF b, f
  <1>4. r \in Request
    BY <1>1, <1>3 DEF Request, InService
  <1>5. /\ r.at = "session" /\ r.v = k.v /\ r.to = k.to /\ r.path = k.path
         /\ r.sid = k.sid /\ r.set = k.set /\ r.flask = f
         /\ r.modified = b
    BY <1>1 DEF Request
  <1> QED
    BY <1>3, <1>4, <1>5 DEF b

LEMMA SessionRecord ==
  ASSUME NEW k \in Request, NEW i \in Ids \cup {NoId}, NEW r, r = WithSession(k, i)
  PROVE  /\ r \in Request /\ r.at = "routing" /\ r.v = k.v /\ r.to = k.to /\ r.path = k.path
         /\ r.sid = i /\ r.set = (k.sid = NoId) /\ r.flask = k.flask /\ r.modified = k.modified /\ r.by = k.by
  <1> DEFINE b == k.sid = NoId
  <1>1. b \in BOOLEAN /\ r = [k EXCEPT !.at = "routing", !.set = b, !.sid = i]
    BY DEF WithSession
  <1> HIDE DEF b
  <1>2. r \in Request
    BY <1>1 DEF Request, InService
  <1>3. /\ r.at = "routing" /\ r.v = k.v /\ r.to = k.to /\ r.path = k.path
         /\ r.sid = i /\ r.set = b /\ r.flask = k.flask /\ r.modified = k.modified /\ r.by = k.by
    BY <1>1 DEF Request
  <1> QED
    BY <1>2, <1>3 DEF b

LEMMA LoginRecord ==
  ASSUME NEW k \in Request, NEW r, r = WithLogin(k)
  PROVE  /\ r \in Request /\ r.at = "response" /\ r.v = k.v /\ r.to = k.to /\ r.path = k.path
         /\ r.sid = k.sid /\ r.set = k.set /\ r.flask.id = k.flask.id /\ r.flask.logged = TRUE
         /\ r.modified \in BOOLEAN /\ (~k.flask.logged => r.modified) /\ r.by = k.by
  <1> DEFINE b == k.modified \/ ~k.flask.logged
             f == [k.flask EXCEPT !.logged = TRUE]
  <1>1. b \in BOOLEAN /\ r = [k EXCEPT !.at = "response", !.flask = f, !.modified = b]
    BY DEF WithLogin, LogsLogin
  <1>2. k.flask \in Cookie
    BY DEF Request
  <1>3. f \in Cookie /\ f.id = k.flask.id /\ f.logged = TRUE
    BY <1>2 DEF Cookie
  <1> HIDE DEF b, f
  <1>4. r \in Request
    BY <1>1, <1>3 DEF Request, InService
  <1>5. /\ r.at = "response" /\ r.v = k.v /\ r.to = k.to /\ r.path = k.path
         /\ r.sid = k.sid /\ r.set = k.set /\ r.flask = f
         /\ r.modified = b /\ r.by = k.by
    BY <1>1 DEF Request
  <1> QED
    BY <1>1, <1>3, <1>4, <1>5 DEF b


\* A request that only moves on.
LEMMA MovedRecord ==
  ASSUME NEW k \in Request, NEW a \in {"idle", "sent", "response"} \cup InService,
         NEW r, r = [k EXCEPT !.at = a]
  PROVE  /\ r \in Request /\ r.at = a /\ r.v = k.v /\ r.to = k.to /\ r.path = k.path
         /\ r.sid = k.sid /\ r.set = k.set /\ r.flask = k.flask /\ r.modified = k.modified
         /\ r.by = k.by
  BY DEF Request

LEMMA FailedRecord ==
  ASSUME NEW k \in Request, NEW r, r = [k EXCEPT !.at = "response", !.set = FALSE]
  PROVE  /\ r \in Request /\ r.at = "response" /\ r.v = k.v /\ r.to = k.to /\ r.path = k.path
         /\ r.sid = k.sid /\ ~r.set /\ r.flask = k.flask
  BY DEF Request, InService

LEMMA IdleRecord ==
  /\ Idle \in Request /\ Idle.at = "idle" /\ Idle.flask.id = NoId
  BY DEF Idle, Request, NoFlask, Cookie

(* One connection moves, and so becomes what Moves says. *)
LEMMA OnlyOne ==
  ASSUME conn \in [Conns -> Request], NEW c \in Conns, NEW r \in Request,
         conn' = [conn EXCEPT ![c] = r]
  PROVE  Only(c) /\ conn'[c] = r
  BY DEF Only

LEMMA MovesOne ==
  ASSUME conn \in [Conns -> Request], NEW c \in Conns, NEW r \in Request, NEW from,
         Moves(c, from, r)
  PROVE  Only(c) /\ conn'[c] = r /\ conn[c].at = from
  BY OnlyOne DEF Moves

-----------------------------------------------------------------------------
(* The ids suffice: a request that is sent, or has its session, can make one. *)
LEMMA Fresh ==
  ASSUME IInv, NEW c \in Conns, conn[c].at \in {"sent", "session"}
  PROVE  lastId + 1 \in Ids /\ lastId + 1 # NoId /\ lastId \in Nat
  <1>1. lastId \in Nat /\ sends \in Nat /\ sends <= MaxRequests
    BY IdFacts DEF IInv, TypeOK
  <1>2. IsFiniteSet(SentConns) /\ IsFiniteSet(NewConns)
    BY DEF IInv, CountInv
  <1>3. c \in SentConns \/ c \in NewConns
    BY DEF SentConns, NewConns
  <1>4. Cardinality(SentConns) \in Nat /\ Cardinality(NewConns) \in Nat
    BY <1>2, FS_CardinalityType
  <1>5. Cardinality(SentConns) # 0 \/ Cardinality(NewConns) # 0
    BY <1>2, <1>3, FS_EmptySet
  <1>6. lastId + 2 * Cardinality(SentConns) + Cardinality(NewConns) <= 2 * sends
    BY DEF IInv, CountInv
  <1>7. lastId + 1 <= 2 * MaxRequests
    BY <1>1, <1>4, <1>5, <1>6, IdFacts
  <1> QED
    BY <1>1, <1>7, IdFacts DEF Ids, NoId

-----------------------------------------------------------------------------
(* Every action is of its form. *)

LEMMA StartUpForm ==
  ASSUME IInv, StartUp \/ Restart
  PROVE  StartUpStep
  <1>1. /\ phase \in {"create", "register", "down"} => listening = {} /\ \A c \in Conns : ~Active(conn[c])
        /\ phase = "start" => starting \subseteq registry
    BY DEF IInv, ProcessInv
  <1>2. /\ starting \subseteq Folders /\ registry \subseteq Folders
        /\ listening \subseteq Answering \cap registry /\ restarts \in 0..MaxRestarts
    BY DEF IInv, TypeOK
  <1>3. CASE StartUp
    <2>1. UNCHANGED <<pin, jar, conn, lastId, logins, commands, requests, entries, fallbacks, cut,
                      silent, habits, sends, restarts>>
      BY <1>3 DEF StartUp, log, history
    <2>2. CASE CreateHoneypots
      BY <1>1, <1>2, <2>1, <2>2 DEF CreateHoneypots, StartUpStep
    <2>3. CASE RegisterHoneypots
      BY <1>1, <1>2, <2>1, <2>3 DEF RegisterHoneypots, StartUpStep
    <2>4. CASE StartFront
      BY <1>1, <1>2, <2>1, <2>4, NameFacts DEF StartFront, StartUpStep
    <2>5. CASE \E b \in Backends : StartBackend(b)
      BY <1>1, <1>2, <2>1, <2>5 DEF StartBackend, StartUpStep
    <2> QED
      BY <1>3, <2>2, <2>3, <2>4, <2>5 DEF StartUp
  <1>4. CASE Restart
    <2>1. restarts' \in 0..MaxRestarts
      BY <1>2, <1>4, DispatcherAssumption DEF Restart
    <2> QED
      BY <1>1, <1>2, <1>4, <2>1 DEF Restart, StartUpStep, log
  <1> QED
    BY <1>3, <1>4

LEMMA StopForm ==
  ASSUME Stop
  PROVE  StopStep
  BY IdleRecord DEF Stop, StopStep, log

LEMMA SendForm ==
  ASSUME IInv, NEW c \in Conns, NEW v \in Visitors, NEW to \in Folders, NEW p \in Paths,
         Send(c, v, to, p)
  PROVE  SendStep(c, v)
  <1> DEFINE r == [Idle EXCEPT !.at = "sent", !.v = v, !.to = to, !.path = p,
                               !.sid = jar[v].sid, !.flask = jar[v].flask]
  <1>1. /\ conn \in [Conns -> Request] /\ jar \in [Visitors -> [sid : Ids \cup {NoId}, flask : Cookie]]
        /\ habits \in [Visitors -> SUBSET {"together", "loses"}]
    BY DEF IInv, TypeOK
  <1>2. jar[v].sid \in Ids \cup {NoId} /\ jar[v].flask \in Cookie
    BY <1>1
  <1>3. conn' = [conn EXCEPT ![c] = r]
    BY DEF Send
  <1>4. r = [Idle EXCEPT !.at = "sent", !.v = v, !.to = to, !.path = p,
                         !.sid = jar[v].sid, !.flask = jar[v].flask]
    OBVIOUS
  <1>5. /\ conn[c].at = "idle" /\ to \in listening /\ sends < MaxRequests /\ sends' = sends + 1
        /\ habits' = [habits EXCEPT ![v] = @ \cup {"together" : d \in {d \in Conns : conn[d].v = v}}]
        /\ UNCHANGED <<phase, starting, registry, listening, pin, jar, lastId, logins, commands,
                       requests, entries, fallbacks, cut, silent, restarts>>
    BY DEF Send, process, log
  <1> HIDE DEF r
  <1>6. /\ r \in Request /\ r.at = "sent" /\ r.v = v /\ r.to = to /\ r.path = p
        /\ r.sid = jar[v].sid /\ ~r.set /\ r.flask = jar[v].flask
    BY <1>2, <1>4 DEF Idle, Request
  <1>7. Only(c) /\ conn'[c] = r
    BY <1>1, <1>3, <1>6, OnlyOne
  <1>8. /\ habits' \in [Visitors -> SUBSET {"together", "loses"}]
        /\ \A w \in Visitors : habits[w] \subseteq habits'[w]
    BY <1>1, <1>5
  <1>9. habits'[v] = habits[v] \cup {"together" : d \in {d \in Conns : conn[d].v = v}}
    BY <1>1, <1>5
  <1>10. habits'[v] = {} => \A d \in Conns : conn[d].v # v
    BY <1>9
  <1> QED
    BY <1>5, <1>6, <1>7, <1>8, <1>10 DEF SendStep

LEMMA ReceiveForm ==
  ASSUME IInv, NEW c \in Conns, Receive(c)
  PROVE  ReceiveStep(c)
  <1> DEFINE v == conn[c].v
             cookies == [sid   |-> IF conn[c].set THEN conn[c].sid ELSE jar[v].sid,
                         flask |-> IF conn[c].modified THEN conn[c].flask ELSE jar[v].flask]
  <1>1. /\ conn \in [Conns -> Request] /\ jar \in [Visitors -> [sid : Ids \cup {NoId}, flask : Cookie]]
    BY DEF IInv, TypeOK
  <1>2. /\ conn[c].at = "response" /\ conn' = [conn EXCEPT ![c] = Idle]
        /\ jar' = [jar EXCEPT ![v] = cookies]
        /\ UNCHANGED <<phase, starting, registry, listening, pin, lastId, logins, commands,
                       requests, entries, fallbacks, cut, silent, habits, sends, restarts>>
    BY DEF Receive, process, log, history
  <1>3. Only(c) /\ conn'[c] = Idle
    BY <1>1, <1>2, IdleRecord, OnlyOne
  <1>4. v \in Visitors
    BY <1>2 DEF IInv, RequestInv, Active
  <1>5. conn[c] \in Request
    BY <1>1
  <1>6. conn[c].sid \in Ids \cup {NoId} /\ conn[c].flask \in Cookie
    BY <1>5 DEF Request
  <1>7. jar[v].sid \in Ids \cup {NoId} /\ jar[v].flask \in Cookie
    BY <1>1, <1>4
  <1>8. cookies \in [sid : Ids \cup {NoId}, flask : Cookie]
    BY <1>6, <1>7
  <1>9. /\ cookies.sid = IF conn[c].set THEN conn[c].sid ELSE jar[v].sid
        /\ cookies.flask = IF conn[c].modified THEN conn[c].flask ELSE jar[v].flask
    OBVIOUS
  <1> HIDE DEF v, cookies
  <1>10. /\ jar' \in [Visitors -> [sid : Ids \cup {NoId}, flask : Cookie]]
         /\ jar'[v] = cookies /\ \A w \in Visitors : w # v => jar'[w] = jar[w]
    BY <1>1, <1>2, <1>4, <1>8
  <1> QED
    BY <1>2, <1>3, <1>9, <1>10, IdleRecord DEF ReceiveStep, v

LEMMA LeaveForm ==
  ASSUME IInv, NEW c \in Conns, Disconnect(c)
  PROVE  LeaveStep(c)
  <1>1. conn \in [Conns -> Request]
    BY DEF IInv, TypeOK
  <1>2. /\ conn[c].at \in {"sent", "response"} /\ conn' = [conn EXCEPT ![c] = Idle]
        /\ UNCHANGED <<phase, starting, registry, listening, pin, jar, lastId, logins, commands,
                       requests, entries, fallbacks, cut, silent, habits, sends, restarts>>
    BY DEF Disconnect, process, log, history
  <1>3. Only(c) /\ conn'[c] = Idle
    BY <1>1, <1>2, IdleRecord, OnlyOne
  <1> QED
    BY <1>2, <1>3, IdleRecord DEF LeaveStep

LEMMA LoseForm ==
  ASSUME IInv, NEW v \in Visitors, LoseCookie(v)
  PROVE  LoseStep(v)
  <1>1. /\ jar \in [Visitors -> [sid : Ids \cup {NoId}, flask : Cookie]]
        /\ habits \in [Visitors -> SUBSET {"together", "loses"}]
    BY DEF IInv, TypeOK
  <1>2. /\ jar' = [jar EXCEPT ![v] = [jar[v] EXCEPT !.sid = NoId]]
        /\ habits' = [habits EXCEPT ![v] = @ \cup {"loses"}]
        /\ UNCHANGED <<phase, starting, registry, listening, pin, conn, lastId, logins, commands,
                       requests, entries, fallbacks, cut, silent, sends, restarts>>
    BY DEF LoseCookie, process, log
  <1> DEFINE r == [jar[v] EXCEPT !.sid = NoId]
  <1>3. jar[v] \in [sid : Ids \cup {NoId}, flask : Cookie]
    BY <1>1
  <1>4. r \in [sid : Ids \cup {NoId}, flask : Cookie] /\ r.sid = NoId /\ r.flask = jar[v].flask
    BY <1>3
  <1>5. jar' = [jar EXCEPT ![v] = r]
    BY <1>2
  <1> HIDE DEF r
  <1>6. /\ jar' \in [Visitors -> [sid : Ids \cup {NoId}, flask : Cookie]] /\ jar'[v] = r
        /\ \A w \in Visitors : w # v => jar'[w] = jar[w]
    BY <1>1, <1>4, <1>5
  <1>7. /\ habits' \in [Visitors -> SUBSET {"together", "loses"}] /\ "loses" \in habits'[v]
        /\ \A w \in Visitors : w # v => habits'[w] = habits[w]
    BY <1>1, <1>2
  <1> QED
    BY <1>2, <1>4, <1>6, <1>7 DEF LoseStep

LEMMA SessionForm ==
  ASSUME IInv, NEW c \in Conns, HandleSession(c)
  PROVE  SessionStep(c)
  <1> DEFINE k == conn[c]
             new == k.flask.id = NoId
             i == IF k.flask.id = NoId THEN lastId + 1 ELSE k.flask.id
             r == conn'[c]
  <1>1. conn \in [Conns -> Request] /\ logins \in [Ids -> Nat]
    BY DEF IInv, TypeOK
  <1>2. /\ conn[c].at = "sent" /\ conn' = [conn EXCEPT ![c] = WithFlaskSession(k, i)]
        /\ ~Busy(k.to)
        /\ UNCHANGED <<phase, starting, registry, listening, pin, jar, commands, requests, entries,
                       fallbacks, cut, habits, sends, restarts>>
    BY DEF HandleSession, Moves, process
  <1>3. lastId + 1 \in Ids
    BY <1>2, Fresh
  <1>4. k \in Request /\ i \in Ids \cup {NoId}
    <2>1. k \in Request
      BY <1>1
    <2>2. k.flask.id \in Ids \cup {NoId}
      BY <2>1 DEF Request, Cookie
    <2> QED
      BY <1>3, <2>1, <2>2
  <1>5. r = WithFlaskSession(k, i)
    BY <1>1, <1>2
  <1>6. /\ lastId' = IF new THEN lastId + 1 ELSE lastId
        /\ logins' = IF new /\ k.to # Front THEN [logins EXCEPT ![lastId + 1] = @ + 1] ELSE logins
        /\ silent' = IF new /\ k.to = Front THEN silent \cup {lastId + 1} ELSE silent
    BY DEF HandleSession
  <1>7. \A d \in Conns : conn[d].to = k.to => conn[d].at \notin InService
    BY <1>2 DEF Busy
  <1>8. conn' = [conn EXCEPT ![c] = r]
    BY <1>2, <1>5
  <1>9. i = IF new THEN lastId + 1 ELSE k.flask.id
    OBVIOUS
  <1> HIDE DEF k, i, r
  <1>10. /\ r \in Request /\ r.at = "session" /\ r.v = k.v /\ r.to = k.to /\ r.path = k.path
         /\ r.sid = k.sid /\ r.set = k.set /\ r.flask.id = i /\ r.flask.logged = k.flask.logged
    BY <1>4, <1>5, FlaskSessionRecord
  <1>11. Only(c) /\ conn'[c] = r
    BY <1>1, <1>8, <1>10, OnlyOne
  <1>12. SameRequest(c)
    BY <1>10, <1>11 DEF SameRequest, k
  <1>13. logins' \in [Ids -> Nat]
    BY <1>1, <1>3, <1>6
  <1>14. \/ /\ k.flask.id # NoId /\ r.flask.id = k.flask.id
            /\ UNCHANGED <<lastId, logins, silent>>
         \/ /\ lastId' = lastId + 1 /\ r.flask.id = lastId + 1
            /\ \A j \in Ids : j # lastId + 1 => logins'[j] = logins[j]
            /\ \/ logins'[lastId + 1] = logins[lastId + 1] + 1 /\ silent' = silent
               \/ logins' = logins /\ silent' = silent \cup {lastId + 1}
    <2>1. CASE ~new
      BY <1>6, <1>9, <1>10, <2>1
    <2>2. CASE new /\ k.to = Front
      BY <1>6, <1>9, <1>10, <2>2
    <2>3. CASE new /\ k.to # Front
      <3>1. logins' = [logins EXCEPT ![lastId + 1] = @ + 1] /\ silent' = silent /\ lastId' = lastId + 1
        BY <1>6, <2>3
      <3>2. /\ \A j \in Ids : j # lastId + 1 => logins'[j] = logins[j]
            /\ logins'[lastId + 1] = logins[lastId + 1] + 1
        BY <1>1, <1>3, <3>1
      <3>3. r.flask.id = lastId + 1
        BY <1>9, <1>10, <2>3
      <3> QED
        BY <3>1, <3>2, <3>3
    <2> QED
      BY <2>1, <2>2, <2>3
  <1> QED
    BY <1>2, <1>3, <1>7, <1>10, <1>11, <1>12, <1>13, <1>14 DEF SessionStep, k

LEMMA AnswerForm ==
  ASSUME IInv, NEW c \in Conns, Refuse(c) \/ Answer(c) \/ RefuseMethod(c)
  PROVE  AnswerStep(c)
  <1> DEFINE k == conn[c]
             r == conn'[c]
  <1>1. conn \in [Conns -> Request]
    BY DEF IInv, TypeOK
  <1>2. /\ UNCHANGED <<phase, starting, registry, listening, pin, jar, lastId, logins, commands,
                       entries, fallbacks, cut, silent, habits, sends, restarts>>
        /\ k.at = "session" /\ requests' \in {requests, requests \cup {conn[c].flask.id}}
    BY DEF Refuse, Answer, RefuseMethod, Moves, process, log, history
  <1>3. k \in Request /\ "response" \in {"idle", "sent", "response"} \cup InService
    BY <1>1
  <1>4. k.to \in Folders
    BY <1>2 DEF IInv, RequestInv, Active
  <1>5. Only(c) /\ r.at = "response" /\ r.v = k.v /\ r.to = k.to /\ r.path = k.path
        /\ r.sid = k.sid /\ r.set = k.set /\ r.flask = k.flask
    <2>1. CASE conn' = [conn EXCEPT ![c] = [k EXCEPT !.at = "response"]]
      <3>1. r = [k EXCEPT !.at = "response"]
        BY <1>1, <2>1
      <3>2. conn' = [conn EXCEPT ![c] = r]
        BY <2>1, <3>1
      <3> HIDE DEF k, r
      <3>3. /\ r \in Request /\ r.at = "response" /\ r.v = k.v /\ r.to = k.to /\ r.path = k.path
            /\ r.sid = k.sid /\ r.set = k.set /\ r.flask = k.flask
        BY <1>3, <3>1, MovedRecord
      <3> QED
        BY <1>1, <3>2, <3>3, OnlyOne
    <2>2. CASE conn' = [conn EXCEPT ![c] = [k EXCEPT !.at = "response", !.by = k.to]]
      <3>1. r = [k EXCEPT !.at = "response", !.by = k.to]
        BY <1>1, <2>2
      <3>2. conn' = [conn EXCEPT ![c] = r]
        BY <2>2, <3>1
      <3> HIDE DEF k, r
      <3>3. /\ r \in Request /\ r.at = "response" /\ r.v = k.v /\ r.to = k.to /\ r.path = k.path
            /\ r.sid = k.sid /\ r.set = k.set /\ r.flask = k.flask
        BY <1>3, <1>4, <3>1 DEF Request
      <3> QED
        BY <1>1, <3>2, <3>3, OnlyOne
    <2> QED
      BY <2>1, <2>2 DEF Refuse, Answer, RefuseMethod, Moves
  <1> QED
    BY <1>2, <1>5 DEF AnswerStep, SameRequest

LEMMA ExtractForm ==
  ASSUME IInv, NEW c \in Conns, ExtractSessionId(c)
  PROVE  ExtractStep(c)
  <1> DEFINE k == conn[c]
             i == IF k.sid = NoId THEN lastId + 1 ELSE k.sid
             r == conn'[c]
  <1>1. conn \in [Conns -> Request]
    BY DEF IInv, TypeOK
  <1>2. /\ k.at = "session" /\ k.to = Front
        /\ conn' = [conn EXCEPT ![c] = WithSession(k, i)]
        /\ lastId' = IF k.sid = NoId THEN lastId + 1 ELSE lastId
        /\ UNCHANGED <<phase, starting, registry, listening, pin, jar, logins, commands, requests,
                       entries, fallbacks, cut, silent, habits, sends, restarts>>
    BY DEF ExtractSessionId, Moves, process, log, history
  <1>3. lastId + 1 \in Ids
    BY <1>2, Fresh
  <1>4. k \in Request
    BY <1>1
  <1>5. i \in Ids
    <2>1. k.sid \in Ids \cup {NoId}
      BY <1>4 DEF Request
    <2> QED
      BY <1>3, <2>1
  <1>6. r = WithSession(k, i)
    BY <1>1, <1>2
  <1>7. conn' = [conn EXCEPT ![c] = r]
    BY <1>2, <1>6
  <1>8. i = IF k.sid = NoId THEN lastId + 1 ELSE k.sid
    OBVIOUS
  <1> HIDE DEF k, i, r
  <1>9. /\ r \in Request /\ r.at = "routing" /\ r.v = k.v /\ r.to = k.to /\ r.path = k.path
        /\ r.sid = i /\ r.set = (k.sid = NoId) /\ r.flask = k.flask
    BY <1>4, <1>5, <1>6, SessionRecord
  <1>10. Only(c) /\ conn'[c] = r
    BY <1>1, <1>7, <1>9, OnlyOne
  <1>11. SameRequest(c)
    BY <1>9, <1>10 DEF SameRequest, k
  <1> QED
    BY <1>2, <1>5, <1>8, <1>9, <1>10, <1>11 DEF ExtractStep, k

LEMMA ForwardForm ==
  ASSUME IInv, NEW c \in Conns, NEW name \in Names, Forward(c, name),
         UNCHANGED <<process, jar, lastId, logins, entries, commands, requests, history>>,
         PinStep(c), pin'[conn[c].sid] = name
  PROVE  ForwardStep(c) \/ FailStep(c)
  <1> DEFINE k == conn[c]
             r == conn'[c]
  <1>1. conn \in [Conns -> Request] /\ registry \subseteq Folders
    BY DEF IInv, TypeOK
  <1>2. k \in Request /\ name # None
    BY <1>1 DEF Names
  <1>3. UNCHANGED <<phase, starting, registry, listening, jar, lastId, logins, commands, requests,
                    entries, cut, silent, habits, sends, restarts>>
    BY DEF process, history
  <1>4. ASSUME NEW b \in Answers(name),
               Moves(c, "routing", [k EXCEPT !.at = "forwarded", !.by = b]),
               fallbacks' \in {fallbacks, fallbacks \cup {Fallback(c)}}
        PROVE  ForwardStep(c)
    <2>1. b \in Folders /\ (name \in registry => b = name)
      BY NameFacts DEF Answers, Candidates
    <2>2. conn' = [conn EXCEPT ![c] = [k EXCEPT !.at = "forwarded", !.by = b]] /\ k.at = "routing"
      BY <1>4 DEF Moves
    <2>3. r = [k EXCEPT !.at = "forwarded", !.by = b]
      BY <1>1, <2>2
    <2>4. conn' = [conn EXCEPT ![c] = r]
      BY <2>2, <2>3
    <2>5. "forwarded" \in {"idle", "sent", "response"} \cup InService
      BY DEF InService
    <2> HIDE DEF k, r
    <2>6. /\ r \in Request /\ r.at = "forwarded" /\ r.v = k.v /\ r.to = k.to /\ r.path = k.path
          /\ r.sid = k.sid /\ r.set = k.set /\ r.flask = k.flask /\ r.by = b
      BY <1>2, <2>1, <2>3, <2>5 DEF Request
    <2>7. Only(c)
      BY <1>1, <2>4, <2>6, OnlyOne
    <2> QED
      BY <1>2, <1>3, <1>4, <2>1, <2>2, <2>6, <2>7 DEF ForwardStep, SameRequest, k, r
  <1>5. ASSUME Moves(c, "routing", [k EXCEPT !.at = "response", !.set = FALSE]), UNCHANGED fallbacks
        PROVE  FailStep(c)
    <2>1. conn' = [conn EXCEPT ![c] = [k EXCEPT !.at = "response", !.set = FALSE]] /\ k.at = "routing"
      BY <1>5 DEF Moves
    <2>2. r = [k EXCEPT !.at = "response", !.set = FALSE]
      BY <1>1, <2>1
    <2>3. conn' = [conn EXCEPT ![c] = r]
      BY <2>1, <2>2
    <2> HIDE DEF k, r
    <2>4. /\ r \in Request /\ r.at = "response" /\ r.v = k.v /\ r.to = k.to /\ r.path = k.path
          /\ r.sid = k.sid /\ ~r.set /\ r.flask = k.flask
      BY <1>2, <2>2, FailedRecord
    <2>5. Only(c)
      BY <1>1, <2>3, <2>4, OnlyOne
    <2> QED
      BY <1>3, <1>5, <2>1, <2>4, <2>5 DEF FailStep, SameRequest, k, r
  <1> QED
    BY <1>4, <1>5 DEF Forward

LEMMA DispatchForm ==
  ASSUME IInv, NEW c \in Conns, Dispatch(c)
  PROVE  ForwardStep(c) \/ FailStep(c)
  <1> DEFINE i == conn[c].sid
             chosen == Choice(conn[c].path)
  <1>1. pin \in [Ids -> Names \cup {None}] /\ registry \subseteq Folders
    BY DEF IInv, TypeOK
  <1>2. /\ conn[c].at = "routing"
        /\ UNCHANGED <<process, jar, lastId, logins, entries, commands, requests, history>>
    BY DEF Dispatch
  <1>3. i \in Ids /\ conn[c].path \in Paths
    BY <1>2 DEF IInv, RequestInv, Active, AtFront
  <1>4. chosen \in Names \cup {None}
    BY <1>3 DEF Names
  <1>5. CASE DispatchChosen(c, chosen)
    <2>1. chosen \in Names
      BY <1>4, <1>5 DEF DispatchChosen, Names
    <2>2. pin' = [pin EXCEPT ![i] = chosen] /\ Forward(c, chosen)
      BY <1>5 DEF DispatchChosen
    <2> HIDE DEF i, chosen
    <2>3. pin' \in [Ids -> Names \cup {None}] /\ pin'[i] = chosen /\ \A j \in Ids : j # i => pin'[j] = pin[j]
      BY <1>1, <1>3, <2>1, <2>2
    <2>4. PinStep(c) /\ pin'[conn[c].sid] = chosen
      BY <2>3 DEF PinStep, i
    <2> QED
      BY <1>2, <2>1, <2>2, <2>4, ForwardForm
  <1>6. CASE DispatchPinned(c)
    <2>1. pin[i] \in Names
      BY <1>1, <1>3, <1>6 DEF DispatchPinned, Names
    <2>2. PinStep(c) /\ pin'[conn[c].sid] = pin[i] /\ Forward(c, pin[i])
      BY <1>1, <1>6 DEF DispatchPinned, PinStep
    <2> HIDE DEF i
    <2> QED
      BY <1>2, <2>1, <2>2, ForwardForm
  <1>7. CASE DispatchRandom(c)
    <2>1. PICK name \in registry : pin' = [pin EXCEPT ![i] = name] /\ Forward(c, name)
      BY <1>7 DEF DispatchRandom
    <2>2. name \in Names
      BY <1>1, NameFacts
    <2> HIDE DEF i
    <2>3. pin' \in [Ids -> Names \cup {None}] /\ pin'[i] = name /\ \A j \in Ids : j # i => pin'[j] = pin[j]
      BY <1>1, <1>3, <2>1, <2>2
    <2>4. PinStep(c) /\ pin'[conn[c].sid] = name
      BY <2>3 DEF PinStep, i
    <2> QED
      BY <1>2, <2>1, <2>2, <2>4, ForwardForm
  <1> QED
    BY <1>5, <1>6, <1>7 DEF Dispatch

LEMMA LoginForm ==
  ASSUME IInv, NEW c \in Conns, LogDispatch(c)
  PROVE  \E e \in Command : LoginStep(c, e)
  <1> DEFINE k == conn[c]
             r == conn'[c]
             e == [v |-> k.v, sid |-> k.sid]
  <1>1. /\ conn \in [Conns -> Request] /\ logins \in [Ids -> Nat]
        /\ pin \in [Ids -> Names \cup {None}]
    BY DEF IInv, TypeOK
  <1>2. /\ k.at = "forwarded" /\ conn' = [conn EXCEPT ![c] = WithLogin(k)]
        /\ logins' = IF ~k.flask.logged THEN [logins EXCEPT ![k.sid] = @ + 1] ELSE logins
        /\ UNCHANGED <<phase, starting, registry, listening, pin, jar, lastId, requests, fallbacks,
                       cut, silent, habits, sends, restarts>>
    BY DEF LogDispatch, Moves, LogsLogin, process, history
  <1>3. commands' = commands \cup {e}
    BY DEF LogDispatch
  <1>4. k.v \in Visitors /\ k.sid \in Ids
    BY <1>2 DEF IInv, RequestInv, Active, AtFront
  <1>5. k \in Request
    BY <1>1
  <1>6. \A d \in entries' \ entries :
            d.name = pin[k.sid] /\ d.by = k.by /\ (d.known => pin[k.sid] \in registry)
    <2> DEFINE n == [sid |-> k.sid, name |-> pin[k.sid], by |-> k.by, known |-> pin[k.sid] \in registry]
    <2>1. entries' = entries \/ entries' = entries \cup {n}
      BY DEF LogDispatch
    <2>2. n.name = pin[k.sid] /\ n.by = k.by /\ (n.known => pin[k.sid] \in registry)
      OBVIOUS
    <2> HIDE DEF n, k
    <2> QED
      BY <2>1, <2>2
  <1>7. r = WithLogin(k)
    BY <1>1, <1>2
  <1>8. conn' = [conn EXCEPT ![c] = r]
    BY <1>2, <1>7
  <1>9. e \in Command /\ e.v = k.v /\ e.sid = k.sid
    BY <1>4 DEF Command
  <1> HIDE DEF k, r, e
  <1>10. /\ r \in Request /\ r.at = "response" /\ r.v = k.v /\ r.to = k.to /\ r.path = k.path
         /\ r.sid = k.sid /\ r.set = k.set /\ r.flask.id = k.flask.id /\ r.flask.logged
         /\ (~k.flask.logged => r.modified)
    BY <1>5, <1>7, LoginRecord
  <1>11. Only(c)
    BY <1>1, <1>8, <1>10, OnlyOne
  <1>12. /\ logins' \in [Ids -> Nat] /\ \A i \in Ids : i # k.sid => logins'[i] = logins[i]
         /\ k.flask.logged => logins' = logins
         /\ ~k.flask.logged => logins'[k.sid] = logins[k.sid] + 1
    BY <1>1, <1>2, <1>4
  <1>13. LoginStep(c, e)
    BY <1>2, <1>3, <1>6, <1>9, <1>10, <1>11, <1>12 DEF LoginStep, SameRequest, k, r
  <1> QED
    BY <1>9, <1>13

LEMMA NextForm ==
  ASSUME IInv, Next
  PROVE  AnyStep
  <1>1. CASE StartUp \/ Restart
    BY <1>1, StartUpForm DEF AnyStep
  <1>2. CASE Stop
    BY <1>2, StopForm DEF AnyStep
  <1>3. CASE \E c \in Conns, v \in Visitors, to \in Folders, p \in Paths : Send(c, v, to, p)
    BY <1>3, SendForm DEF AnyStep
  <1>4. CASE \E v \in Visitors : LoseCookie(v)
    BY <1>4, LoseForm DEF AnyStep
  <1>5. ASSUME NEW c \in Conns, Receive(c) \/ Disconnect(c) \/ Serve(c)
        PROVE  AnyStep
    <2>1. CASE Receive(c)
      BY <2>1, ReceiveForm DEF AnyStep
    <2>2. CASE Disconnect(c)
      BY <2>2, LeaveForm DEF AnyStep
    <2>3. CASE HandleSession(c)
      BY <2>3, SessionForm DEF AnyStep
    <2>4. CASE Refuse(c) \/ Answer(c) \/ RefuseMethod(c)
      BY <2>4, AnswerForm DEF AnyStep
    <2>5. CASE ExtractSessionId(c)
      BY <2>5, ExtractForm DEF AnyStep
    <2>6. CASE Dispatch(c)
      BY <2>6, DispatchForm DEF AnyStep
    <2>7. CASE LogDispatch(c)
      BY <2>7, LoginForm DEF AnyStep
    <2> QED
      BY <1>5, <2>1, <2>2, <2>3, <2>4, <2>5, <2>6, <2>7 DEF Serve
  <1> QED
    BY <1>1, <1>2, <1>3, <1>4, <1>5 DEF Next


LEMMA FlaskIds ==
  ASSUME conn \in [Conns -> Request], NEW c \in Conns
  PROVE  conn[c].flask.id \in Ids \cup {NoId} /\ conn[c].sid \in Ids \cup {NoId}
  <1>1. conn[c] \in Request
    OBVIOUS
  <1> QED
    BY <1>1 DEF Request, Cookie


-----------------------------------------------------------------------------
(* Each part of the invariant is kept by every form of step.               *)

LEMMA CommandsStep ==
  ASSUME IInv, AnyStep
  PROVE  CommandsInv'
  <1>1. commands \subseteq Command /\ fallbacks \subseteq Command
    BY DEF IInv, CommandsInv
  <1>2. ASSUME StartUpStep
        PROVE  CommandsInv'
    BY <1>1, <1>2 DEF StartUpStep, CommandsInv
  <1>3. ASSUME StopStep
        PROVE  CommandsInv'
    BY <1>1, <1>3 DEF StopStep, CommandsInv
  <1>4. ASSUME NEW c \in Conns, NEW v \in Visitors, SendStep(c, v)
        PROVE  CommandsInv'
    BY <1>1, <1>4 DEF SendStep, CommandsInv
  <1>5. ASSUME NEW v \in Visitors, LoseStep(v)
        PROVE  CommandsInv'
    BY <1>1, <1>5 DEF LoseStep, CommandsInv
  <1>6. ASSUME NEW c \in Conns, ReceiveStep(c)
        PROVE  CommandsInv'
    BY <1>1, <1>6 DEF ReceiveStep, CommandsInv
  <1>7. ASSUME NEW c \in Conns, LeaveStep(c)
        PROVE  CommandsInv'
    BY <1>1, <1>7 DEF LeaveStep, CommandsInv
  <1>8. ASSUME NEW c \in Conns, SessionStep(c)
        PROVE  CommandsInv'
    BY <1>1, <1>8 DEF SessionStep, CommandsInv
  <1>9. ASSUME NEW c \in Conns, AnswerStep(c)
        PROVE  CommandsInv'
    BY <1>1, <1>9 DEF AnswerStep, CommandsInv
  <1>10. ASSUME NEW c \in Conns, ExtractStep(c)
        PROVE  CommandsInv'
    BY <1>1, <1>10 DEF ExtractStep, CommandsInv
  <1>11. ASSUME NEW c \in Conns, ForwardStep(c)
        PROVE  CommandsInv'
    <2>1. conn[c].v \in Visitors /\ conn[c].sid \in Ids
      BY <1>11 DEF ForwardStep, IInv, RequestInv, Active, AtFront
    <2>2. Fallback(c) \in Command
      BY <2>1 DEF Fallback, Command
    <2> QED
      BY <1>1, <1>11, <2>2 DEF ForwardStep, CommandsInv
  <1>12. ASSUME NEW c \in Conns, FailStep(c)
        PROVE  CommandsInv'
    BY <1>1, <1>12 DEF FailStep, CommandsInv
  <1>13. ASSUME NEW c \in Conns, NEW e \in Command, LoginStep(c, e)
        PROVE  CommandsInv'
    BY <1>1, <1>13 DEF LoginStep, CommandsInv
  <1> QED
    BY <1>2, <1>3, <1>4, <1>5, <1>6, <1>7, <1>8, <1>9, <1>10, <1>11, <1>12, <1>13 DEF AnyStep

LEMMA TypeStep ==
  ASSUME IInv, AnyStep
  PROVE  TypeOK'
  <1>1. /\ phase \in {"create", "register", "start", "up", "down"}
        /\ starting \subseteq Folders /\ registry \subseteq Folders
        /\ listening \subseteq Answering \cap registry
        /\ pin \in [Ids -> Names \cup {None}]
        /\ jar \in [Visitors -> [sid : Ids \cup {NoId}, flask : Cookie]]
        /\ conn \in [Conns -> Request]
        /\ lastId \in Ids \cup {NoId}
        /\ logins \in [Ids -> Nat]
        /\ requests \subseteq Ids /\ silent \subseteq Ids /\ cut \subseteq Ids
        /\ habits \in [Visitors -> SUBSET {"together", "loses"}]
        /\ sends \in 0..MaxRequests /\ restarts \in 0..MaxRestarts
    BY DEF IInv, TypeOK
  <1>2. \A b, d \in Conns :
           conn[b].at \in InService /\ conn[d].at \in InService /\ conn[b].to = conn[d].to => b = d
    BY DEF IInv, TypeOK
  <1>0. commands' \cup fallbacks' \subseteq [v : Visitors, sid : Ids]
    BY CommandsStep DEF CommandsInv, Command
  <1>3. ASSUME StartUpStep
        PROVE  TypeOK'
    BY <1>0, <1>1, <1>2, <1>3 DEF StartUpStep, TypeOK, Only, SameRequest, PinStep, InService
  <1>4. ASSUME StopStep
        PROVE  TypeOK'
    <2>1. \A c \in Conns : conn[c].at = "forwarded" => conn[c].sid \in Ids
      BY DEF IInv, RequestInv, AtFront
    <2> QED
      BY <1>0, <1>1, <1>2, <1>4, <2>1 DEF StopStep, TypeOK, InService
  <1>5. ASSUME NEW c \in Conns, NEW v \in Visitors, SendStep(c, v)
        PROVE  TypeOK'
    <2>1. conn' \in [Conns -> Request]
      BY <1>5 DEF SendStep, Only
    <2>2. \A b, d \in Conns :
             conn'[b].at \in InService /\ conn'[d].at \in InService /\ conn'[b].to = conn'[d].to => b = d
      BY <1>2, <1>5 DEF SendStep, Only, InService
    <2>3. sends' \in 0..MaxRequests
      BY <1>1, <1>5, DispatcherAssumption DEF SendStep
    <2> QED
      BY <1>0, <1>1, <1>5, <2>1, <2>2, <2>3 DEF SendStep, TypeOK
  <1>6. ASSUME NEW v \in Visitors, LoseStep(v)
        PROVE  TypeOK'
    BY <1>0, <1>1, <1>2, <1>6 DEF LoseStep, TypeOK, Only, SameRequest, PinStep, InService
  <1>7. ASSUME NEW c \in Conns, ReceiveStep(c)
        PROVE  TypeOK'
    BY <1>0, <1>1, <1>2, <1>7 DEF ReceiveStep, TypeOK, Only, SameRequest, PinStep, InService
  <1>8. ASSUME NEW c \in Conns, LeaveStep(c)
        PROVE  TypeOK'
    BY <1>0, <1>1, <1>2, <1>8 DEF LeaveStep, TypeOK, Only, SameRequest, PinStep, InService
  <1>9. ASSUME NEW c \in Conns, SessionStep(c)
        PROVE  TypeOK'
    BY <1>0, <1>1, <1>2, <1>9 DEF SessionStep, TypeOK, Only, SameRequest, PinStep, InService
  <1>10. ASSUME NEW c \in Conns, AnswerStep(c)
        PROVE  TypeOK'
    <2>1. conn[c].flask.id \in Ids
      BY <1>1, <1>2, <1>10, FlaskIds DEF AnswerStep, IInv, FlaskInv, InService
    <2> QED
      BY <1>0, <1>1, <1>2, <1>10, <2>1 DEF AnswerStep, TypeOK, Only, SameRequest, InService
  <1>11. ASSUME NEW c \in Conns, ExtractStep(c)
        PROVE  TypeOK'
    BY <1>0, <1>1, <1>2, <1>11 DEF ExtractStep, TypeOK, Only, SameRequest, PinStep, InService
  <1>12. ASSUME NEW c \in Conns, ForwardStep(c)
        PROVE  TypeOK'
    BY <1>0, <1>1, <1>2, <1>12 DEF ForwardStep, TypeOK, Only, SameRequest, PinStep, InService
  <1>13. ASSUME NEW c \in Conns, FailStep(c)
        PROVE  TypeOK'
    BY <1>0, <1>1, <1>2, <1>13 DEF FailStep, TypeOK, Only, SameRequest, PinStep, InService
  <1>14. ASSUME NEW c \in Conns, NEW e \in Command, LoginStep(c, e)
        PROVE  TypeOK'
    <2>1. \A b, d \in Conns : conn'[b].at \in InService /\ conn'[d].at \in InService
                              /\ conn'[b].to = conn'[d].to => b = d
      BY <1>2, <1>14 DEF LoginStep, Only, SameRequest, InService
    <2>2. conn' \in [Conns -> Request] /\ logins' \in [Ids -> Nat]
      BY <1>14 DEF LoginStep, Only, SameRequest
    <2>3. UNCHANGED <<phase, starting, registry, listening, pin, jar, lastId, requests, cut,
                      silent, habits, sends, restarts>>
      BY <1>14 DEF LoginStep
    <2> QED
      BY <1>0, <1>1, <2>1, <2>2, <2>3 DEF TypeOK
  <1> QED
    BY <1>3, <1>4, <1>5, <1>6, <1>7, <1>8, <1>9, <1>10, <1>11, <1>12, <1>13, <1>14 DEF AnyStep

LEMMA ProcessStep ==
  ASSUME IInv, AnyStep
  PROVE  ProcessInv'
  <1>1. /\ phase \in {"create", "register", "down"} =>
              listening = {} /\ \A d \in Conns : ~Active(conn[d])
        /\ phase = "start" => starting \subseteq registry
    BY DEF IInv, ProcessInv
  <1>2. ASSUME StartUpStep
        PROVE  ProcessInv'
    BY <1>1, <1>2 DEF StartUpStep, ProcessInv, Active, Only, SameRequest, InService
  <1>3. ASSUME StopStep
        PROVE  ProcessInv'
    BY <1>1, <1>3 DEF StopStep, ProcessInv, Active, Only, SameRequest, InService
  <1>4. ASSUME NEW c \in Conns, NEW v \in Visitors, SendStep(c, v)
        PROVE  ProcessInv'
    BY <1>1, <1>4 DEF SendStep, ProcessInv, Active, Only, SameRequest, InService
  <1>5. ASSUME NEW v \in Visitors, LoseStep(v)
        PROVE  ProcessInv'
    BY <1>1, <1>5 DEF LoseStep, ProcessInv, Active, Only, SameRequest, InService
  <1>6. ASSUME NEW c \in Conns, ReceiveStep(c)
        PROVE  ProcessInv'
    BY <1>1, <1>6 DEF ReceiveStep, ProcessInv, Active, Only, SameRequest, InService
  <1>7. ASSUME NEW c \in Conns, LeaveStep(c)
        PROVE  ProcessInv'
    BY <1>1, <1>7 DEF LeaveStep, ProcessInv, Active, Only, SameRequest, InService
  <1>8. ASSUME NEW c \in Conns, SessionStep(c)
        PROVE  ProcessInv'
    BY <1>1, <1>8 DEF SessionStep, ProcessInv, Active, Only, SameRequest, InService
  <1>9. ASSUME NEW c \in Conns, AnswerStep(c)
        PROVE  ProcessInv'
    BY <1>1, <1>9 DEF AnswerStep, ProcessInv, Active, Only, SameRequest, InService
  <1>10. ASSUME NEW c \in Conns, ExtractStep(c)
        PROVE  ProcessInv'
    BY <1>1, <1>10 DEF ExtractStep, ProcessInv, Active, Only, SameRequest, InService
  <1>11. ASSUME NEW c \in Conns, ForwardStep(c)
        PROVE  ProcessInv'
    BY <1>1, <1>11 DEF ForwardStep, ProcessInv, Active, Only, SameRequest, InService
  <1>12. ASSUME NEW c \in Conns, FailStep(c)
        PROVE  ProcessInv'
    BY <1>1, <1>12 DEF FailStep, ProcessInv, Active, Only, SameRequest, InService
  <1>13. ASSUME NEW c \in Conns, NEW e \in Command, LoginStep(c, e)
        PROVE  ProcessInv'
    BY <1>1, <1>13 DEF LoginStep, ProcessInv, Active, Only, SameRequest, InService
  <1> QED
    BY <1>2, <1>3, <1>4, <1>5, <1>6, <1>7, <1>8, <1>9, <1>10, <1>11, <1>12, <1>13 DEF AnyStep

LEMMA RequestStep ==
  ASSUME IInv, AnyStep
  PROVE  RequestInv'
  <1>1. \A d \in Conns :
           /\ Active(conn[d]) => conn[d].v \in Visitors /\ conn[d].to \in Folders
                                 /\ conn[d].path \in Paths
           /\ conn[d].at \in {"sent", "session"} => ~conn[d].set
           /\ AtFront(conn[d]) => conn[d].to = Front /\ conn[d].sid \in Ids
           /\ conn[d].at = "forwarded" =>
                 /\ pin[conn[d].sid] # None
                 /\ pin[conn[d].sid] \in registry => conn[d].by = pin[conn[d].sid]
    BY DEF IInv, RequestInv
  <1>2. /\ listening \subseteq Folders
        /\ \A b, d \in Conns :
              conn[b].at \in InService /\ conn[d].at \in InService /\ conn[b].to = conn[d].to => b = d
    BY NameFacts DEF IInv, TypeOK
  <1>3. ASSUME StartUpStep
        PROVE  RequestInv'
    BY <1>1, <1>2, <1>3 DEF StartUpStep, RequestInv, Active, AtFront, Only, SameRequest,
                            InService, PinStep
  <1>4. ASSUME StopStep
        PROVE  RequestInv'
    BY <1>1, <1>2, <1>4 DEF StopStep, RequestInv, Active, AtFront, Only, SameRequest, InService,
                            PinStep
  <1>5. ASSUME NEW c \in Conns, NEW v \in Visitors, SendStep(c, v)
        PROVE  RequestInv'
    BY <1>1, <1>2, <1>5 DEF SendStep, RequestInv, Active, AtFront, Only, SameRequest, InService,
                            PinStep
  <1>6. ASSUME NEW v \in Visitors, LoseStep(v)
        PROVE  RequestInv'
    BY <1>1, <1>2, <1>6 DEF LoseStep, RequestInv, Active, AtFront, Only, SameRequest, InService,
                            PinStep
  <1>7. ASSUME NEW c \in Conns, ReceiveStep(c)
        PROVE  RequestInv'
    BY <1>1, <1>2, <1>7 DEF ReceiveStep, RequestInv, Active, AtFront, Only, SameRequest,
                            InService, PinStep
  <1>8. ASSUME NEW c \in Conns, LeaveStep(c)
        PROVE  RequestInv'
    BY <1>1, <1>2, <1>8 DEF LeaveStep, RequestInv, Active, AtFront, Only, SameRequest, InService,
                            PinStep
  <1>9. ASSUME NEW c \in Conns, SessionStep(c)
        PROVE  RequestInv'
    BY <1>1, <1>2, <1>9 DEF SessionStep, RequestInv, Active, AtFront, Only, SameRequest,
                            InService, PinStep
  <1>10. ASSUME NEW c \in Conns, AnswerStep(c)
        PROVE  RequestInv'
    BY <1>1, <1>2, <1>10 DEF AnswerStep, RequestInv, Active, AtFront, Only, SameRequest,
                             InService, PinStep
  <1>11. ASSUME NEW c \in Conns, ExtractStep(c)
        PROVE  RequestInv'
    BY <1>1, <1>2, <1>11 DEF ExtractStep, RequestInv, Active, AtFront, Only, SameRequest,
                             InService, PinStep
  <1>12. ASSUME NEW c \in Conns, ForwardStep(c)
        PROVE  RequestInv'
    BY <1>1, <1>2, <1>12 DEF ForwardStep, RequestInv, Active, AtFront, Only, SameRequest,
                             InService, PinStep
  <1>13. ASSUME NEW c \in Conns, FailStep(c)
        PROVE  RequestInv'
    BY <1>1, <1>2, <1>13 DEF FailStep, RequestInv, Active, AtFront, Only, SameRequest, InService,
                             PinStep
  <1>14. ASSUME NEW c \in Conns, NEW e \in Command, LoginStep(c, e)
        PROVE  RequestInv'
    BY <1>1, <1>2, <1>14 DEF LoginStep, RequestInv, Active, AtFront, Only, SameRequest, InService,
                             PinStep
  <1> QED
    BY <1>3, <1>4, <1>5, <1>6, <1>7, <1>8, <1>9, <1>10, <1>11, <1>12, <1>13, <1>14 DEF AnyStep


LEMMA OneMore ==
  ASSUME NEW S, IsFiniteSet(S), NEW c
  PROVE  /\ IsFiniteSet(S \cup {c}) /\ IsFiniteSet(S \ {c})
         /\ Cardinality(S) \in Nat
         /\ c \notin S => Cardinality(S \cup {c}) = Cardinality(S) + 1
         /\ c \in S => Cardinality(S \ {c}) = Cardinality(S) - 1
         /\ Cardinality(S \ {c}) <= Cardinality(S) /\ Cardinality(S \ {c}) \in Nat
  <1>1. Cardinality(S) \in Nat
    BY FS_CardinalityType
  <1>2. IsFiniteSet(S \cup {c}) /\ (c \notin S => Cardinality(S \cup {c}) = Cardinality(S) + 1)
    BY FS_AddElement
  <1>3. CASE c \in S
    <2>1. IsFiniteSet(S \ {c}) /\ Cardinality(S \ {c}) = Cardinality(S) - 1
      BY <1>3, FS_RemoveElement
    <2>2. Cardinality(S \ {c}) \in Nat
      BY <2>1, FS_CardinalityType
    <2> QED
      BY <1>1, <1>2, <1>3, <2>1, <2>2
  <1>4. CASE c \notin S
    <2>1. S \ {c} = S
      BY <1>4
    <2> QED
      BY <1>1, <1>2, <1>4, <2>1
  <1> QED
    BY <1>3, <1>4

LEMMA NoneLeft ==
  IsFiniteSet({}) /\ Cardinality({}) = 0
  BY FS_EmptySet

LEMMA CountStep ==
  ASSUME IInv, AnyStep
  PROVE  CountInv'
  <1>1. /\ IsFiniteSet(SentConns) /\ IsFiniteSet(NewConns)
        /\ lastId + 2 * Cardinality(SentConns) + Cardinality(NewConns) <= 2 * sends
    BY DEF IInv, CountInv
  <1>2. lastId \in Nat /\ sends \in Nat
    BY IdFacts DEF IInv, TypeOK
  <1>3. Cardinality(SentConns) \in Nat /\ Cardinality(NewConns) \in Nat
    BY <1>1, FS_CardinalityType
  <1>4. ASSUME StartUpStep
        PROVE  CountInv'
    <2>1. SentConns' = SentConns /\ NewConns' = NewConns
      BY <1>4 DEF StartUpStep, SentConns, NewConns, Only, SameRequest
    <2> QED
      BY <1>1, <1>2, <1>3, <1>4, <2>1 DEF StartUpStep, CountInv
  <1>5. ASSUME StopStep
        PROVE  CountInv'
    <2>1. SentConns' = {} /\ NewConns' = {}
      BY <1>5 DEF StopStep, SentConns, NewConns
    <2> QED
      BY <1>1, <1>2, <1>3, <1>5, <2>1, NoneLeft DEF StopStep, CountInv
  <1>6. ASSUME NEW c \in Conns, NEW v \in Visitors, SendStep(c, v)
        PROVE  CountInv'
    <2>1. SentConns' = SentConns \cup {c} /\ c \notin SentConns /\ NewConns' = NewConns
      BY <1>6 DEF SendStep, SentConns, NewConns, Only
    <2>2. IsFiniteSet(SentConns') /\ Cardinality(SentConns') = Cardinality(SentConns) + 1
      BY <1>1, <2>1, OneMore
    <2> QED
      BY <1>1, <1>2, <1>3, <1>6, <2>1, <2>2 DEF SendStep, CountInv
  <1>7. ASSUME NEW v \in Visitors, LoseStep(v)
        PROVE  CountInv'
    <2>1. SentConns' = SentConns /\ NewConns' = NewConns
      BY <1>7 DEF LoseStep, SentConns, NewConns, Only, SameRequest
    <2> QED
      BY <1>1, <1>2, <1>3, <1>7, <2>1 DEF LoseStep, CountInv
  <1>8. ASSUME NEW c \in Conns, ReceiveStep(c)
        PROVE  CountInv'
    <2>1. SentConns' = SentConns /\ NewConns' = NewConns
      BY <1>8 DEF ReceiveStep, SentConns, NewConns, Only, SameRequest
    <2> QED
      BY <1>1, <1>2, <1>3, <1>8, <2>1 DEF ReceiveStep, CountInv
  <1>9. ASSUME NEW c \in Conns, LeaveStep(c)
        PROVE  CountInv'
    <2>1. SentConns' = SentConns \ {c} /\ NewConns' = NewConns
      BY <1>9 DEF LeaveStep, SentConns, NewConns, Only
    <2>2. /\ IsFiniteSet(SentConns') /\ Cardinality(SentConns') <= Cardinality(SentConns)
          /\ Cardinality(SentConns') \in Nat
      BY <1>1, <2>1, OneMore
    <2> QED
      BY <1>1, <1>2, <1>3, <1>9, <2>1, <2>2 DEF LeaveStep, CountInv
  <1>10. ASSUME NEW c \in Conns, SessionStep(c)
        PROVE  CountInv'
    <2>1. /\ SentConns' = SentConns \ {c} /\ c \in SentConns
          /\ NewConns' = NewConns \cup {c} /\ c \notin NewConns
      BY <1>10 DEF SessionStep, SentConns, NewConns, Only, SameRequest
    <2>2. /\ IsFiniteSet(SentConns') /\ Cardinality(SentConns') = Cardinality(SentConns) - 1
      BY <1>1, <2>1, OneMore
    <2>3. /\ IsFiniteSet(NewConns') /\ Cardinality(NewConns') = Cardinality(NewConns) + 1
      BY <1>1, <2>1, OneMore
    <2>4. lastId' \in {lastId, lastId + 1} /\ sends' = sends
      BY <1>10 DEF SessionStep
    <2> QED
      BY <1>1, <1>2, <1>3, <2>2, <2>3, <2>4 DEF CountInv
  <1>11. ASSUME NEW c \in Conns, AnswerStep(c)
        PROVE  CountInv'
    <2>1. NewConns' = NewConns \ {c} /\ c \in NewConns /\ SentConns' = SentConns
      BY <1>11 DEF AnswerStep, SentConns, NewConns, Only, SameRequest
    <2>2. /\ IsFiniteSet(NewConns') /\ Cardinality(NewConns') = Cardinality(NewConns) - 1
      BY <1>1, <2>1, OneMore
    <2>3. lastId' \in {lastId, lastId + 1} /\ sends' = sends
      BY <1>11 DEF AnswerStep
    <2> QED
      BY <1>1, <1>2, <1>3, <2>1, <2>2, <2>3 DEF CountInv
  <1>12. ASSUME NEW c \in Conns, ExtractStep(c)
        PROVE  CountInv'
    <2>1. NewConns' = NewConns \ {c} /\ c \in NewConns /\ SentConns' = SentConns
      BY <1>12 DEF ExtractStep, SentConns, NewConns, Only, SameRequest
    <2>2. /\ IsFiniteSet(NewConns') /\ Cardinality(NewConns') = Cardinality(NewConns) - 1
      BY <1>1, <2>1, OneMore
    <2>3. lastId' \in {lastId, lastId + 1} /\ sends' = sends
      BY <1>12 DEF ExtractStep
    <2> QED
      BY <1>1, <1>2, <1>3, <2>1, <2>2, <2>3 DEF CountInv
  <1>13. ASSUME NEW c \in Conns, ForwardStep(c)
        PROVE  CountInv'
    <2>1. SentConns' = SentConns /\ NewConns' = NewConns
      BY <1>13 DEF ForwardStep, SentConns, NewConns, Only, SameRequest
    <2> QED
      BY <1>1, <1>2, <1>3, <1>13, <2>1 DEF ForwardStep, CountInv
  <1>14. ASSUME NEW c \in Conns, FailStep(c)
        PROVE  CountInv'
    <2>1. SentConns' = SentConns /\ NewConns' = NewConns
      BY <1>14 DEF FailStep, SentConns, NewConns, Only, SameRequest
    <2> QED
      BY <1>1, <1>2, <1>3, <1>14, <2>1 DEF FailStep, CountInv
  <1>15. ASSUME NEW c \in Conns, NEW e \in Command, LoginStep(c, e)
        PROVE  CountInv'
    <2>1. SentConns' = SentConns /\ NewConns' = NewConns
      BY <1>15 DEF LoginStep, SentConns, NewConns, Only, SameRequest
    <2> QED
      BY <1>1, <1>2, <1>3, <1>15, <2>1 DEF LoginStep, CountInv
  <1> QED
    BY <1>4, <1>5, <1>6, <1>7, <1>8, <1>9, <1>10, <1>11, <1>12, <1>13, <1>14, <1>15 DEF AnyStep

LEMMA FlaskStep ==
  ASSUME IInv, AnyStep
  PROVE  FlaskInv'
  <1>1. /\ \A v \in Visitors : Known(jar[v].flask.id)
        /\ \A d \in Conns :
              /\ Known(conn[d].flask.id)
              /\ conn[d].at \in InService => conn[d].flask.id # NoId
    BY DEF IInv, FlaskInv
  <1>2. /\ logins \in [Ids -> Nat] /\ lastId \in Nat
        /\ \A v \in Visitors : jar[v].flask.id \in Ids \cup {NoId}
        /\ \A d \in Conns : conn[d].flask.id \in Ids \cup {NoId}
    BY FlaskIds, IdFacts DEF IInv, TypeOK, Cookie
  <1>3. \A d \in Conns : Active(conn[d]) => conn[d].v \in Visitors
    BY DEF IInv, RequestInv
  <1>4. ASSUME StartUpStep
        PROVE  FlaskInv'
    BY <1>1, <1>2, <1>3, <1>4, IdFacts DEF StartUpStep, FlaskInv, Known, Active, Only,
           SameRequest, InService
  <1>5. ASSUME StopStep
        PROVE  FlaskInv'
    BY <1>1, <1>2, <1>3, <1>5, IdFacts DEF StopStep, FlaskInv, Known, Active, Only, SameRequest,
           InService
  <1>6. ASSUME NEW c \in Conns, NEW v \in Visitors, SendStep(c, v)
        PROVE  FlaskInv'
    BY <1>1, <1>2, <1>3, <1>6, IdFacts DEF SendStep, FlaskInv, Known, Active, Only, SameRequest,
           InService
  <1>7. ASSUME NEW v \in Visitors, LoseStep(v)
        PROVE  FlaskInv'
    BY <1>1, <1>2, <1>3, <1>7, IdFacts DEF LoseStep, FlaskInv, Known, Active, Only, SameRequest,
           InService
  <1>8. ASSUME NEW c \in Conns, ReceiveStep(c)
        PROVE  FlaskInv'
    BY <1>1, <1>2, <1>3, <1>8, IdFacts DEF ReceiveStep, FlaskInv, Known, Active, Only,
           SameRequest, InService
  <1>9. ASSUME NEW c \in Conns, LeaveStep(c)
        PROVE  FlaskInv'
    BY <1>1, <1>2, <1>3, <1>9, IdFacts DEF LeaveStep, FlaskInv, Known, Active, Only, SameRequest,
           InService
  <1>10. ASSUME NEW c \in Conns, SessionStep(c)
        PROVE  FlaskInv'
    <2>1. /\ \A i \in Ids : logins'[i] = logins[i] \/ logins'[i] = logins[i] + 1
          /\ silent \subseteq silent'
      BY <1>2, <1>10 DEF SessionStep
    <2>2. ASSUME NEW i \in Ids \cup {NoId}, Known(i)
          PROVE  Known(i)'
      <3>1. CASE i = NoId
        BY <3>1 DEF Known
      <3>2. CASE i \in Ids /\ logins[i] > 0
        <4>1. logins[i] \in Nat /\ logins'[i] \in {logins[i], logins[i] + 1}
          BY <1>2, <2>1, <3>2
        <4>2. logins'[i] > 0
          BY <3>2, <4>1
        <4> QED
          BY <4>2 DEF Known
      <3>3. CASE i \in silent
        BY <2>1, <3>3 DEF Known
      <3> QED
        BY <2>2, <3>1, <3>2, <3>3 DEF Known
    <2>3. Known(conn[c].flask.id)' /\ conn'[c].flask.id # NoId
      <3>1. CASE conn[c].flask.id # NoId /\ conn'[c].flask.id = conn[c].flask.id
        BY <1>1, <1>2, <2>2, <3>1
      <3>2. CASE /\ conn'[c].flask.id = lastId + 1 /\ lastId + 1 \in Ids
                 /\ logins'[lastId + 1] = logins[lastId + 1] + 1 \/ lastId + 1 \in silent'
        BY <1>2, <3>2, IdFacts DEF Known
      <3> QED
        BY <1>10, <3>1, <3>2 DEF SessionStep
    <2>4. Only(c) /\ conn'[c].at = "session" /\ jar' = jar
      BY <1>10 DEF SessionStep, SameRequest
    <2> QED
      BY <1>1, <1>2, <2>2, <2>3, <2>4 DEF FlaskInv, Only, InService
  <1>11. ASSUME NEW c \in Conns, AnswerStep(c)
        PROVE  FlaskInv'
    BY <1>1, <1>2, <1>3, <1>11, IdFacts DEF AnswerStep, FlaskInv, Known, Active, Only,
           SameRequest, InService
  <1>12. ASSUME NEW c \in Conns, ExtractStep(c)
        PROVE  FlaskInv'
    BY <1>1, <1>2, <1>3, <1>12, IdFacts DEF ExtractStep, FlaskInv, Known, Active, Only,
           SameRequest, InService
  <1>13. ASSUME NEW c \in Conns, ForwardStep(c)
        PROVE  FlaskInv'
    BY <1>1, <1>2, <1>3, <1>13, IdFacts DEF ForwardStep, FlaskInv, Known, Active, Only,
           SameRequest, InService
  <1>14. ASSUME NEW c \in Conns, FailStep(c)
        PROVE  FlaskInv'
    BY <1>1, <1>2, <1>3, <1>14, IdFacts DEF FailStep, FlaskInv, Known, Active, Only, SameRequest,
           InService
  <1>15. ASSUME NEW c \in Conns, NEW e \in Command, LoginStep(c, e)
        PROVE  FlaskInv'
    <2>1. \A i \in Ids : logins'[i] = logins[i] \/ logins'[i] = logins[i] + 1
      <3>1. \A i \in Ids : i # conn[c].sid => logins'[i] = logins[i]
        BY <1>15 DEF LoginStep
      <3>2. logins'[conn[c].sid] = logins[conn[c].sid] \/ logins'[conn[c].sid] = logins[conn[c].sid] + 1
        BY <1>15 DEF LoginStep
      <3> QED
        BY <3>1, <3>2
    <2>2. silent' = silent /\ jar' = jar
      BY <1>15 DEF LoginStep
    <2>3. \A i \in Ids \cup {NoId} : Known(i) => Known(i)'
      <3>1. \A i \in Ids : logins[i] \in Nat /\ (logins[i] > 0 => logins'[i] > 0)
        BY <1>2, <2>1
      <3> QED
        BY <2>2, <3>1 DEF Known
    <2>4. Only(c) /\ conn'[c].at = "response" /\ conn'[c].flask.id = conn[c].flask.id
      BY <1>15 DEF LoginStep, SameRequest
    <2> QED
      BY <1>1, <1>2, <2>2, <2>3, <2>4 DEF FlaskInv, Only, InService
  <1> QED
    BY <1>4, <1>5, <1>6, <1>7, <1>8, <1>9, <1>10, <1>11, <1>12, <1>13, <1>14, <1>15 DEF AnyStep


LEMMA OwnKept ==
  ASSUME IInv, lastId' \in {lastId, lastId + 1}, NEW w,
         \A v \in Visitors, i \in Ids :
             Has(v, i)' => Has(v, i) \/ (v = w /\ i = lastId + 1 /\ lastId' = lastId + 1),
         \A i \in Ids : i > lastId' => logins'[i] = 0
  PROVE  OwnInv'
  <1>1. lastId \in Nat /\ Ids \subseteq Nat
    BY IdFacts DEF IInv, TypeOK
  <1>2. /\ \A v \in Visitors, i \in Ids : Has(v, i) => i <= lastId
        /\ \A v, u \in Visitors, i \in Ids : Has(v, i) /\ Has(u, i) => v = u
    BY DEF IInv, OwnInv
  <1>3. \A v \in Visitors, i \in Ids : Has(v, i)' => i <= lastId'
    BY <1>1, <1>2
  <1>4. \A v, u \in Visitors, i \in Ids : Has(v, i)' /\ Has(u, i)' => v = u
    BY <1>1, <1>2
  <1> QED
    BY <1>3, <1>4 DEF OwnInv

LEMMA OwnStep ==
  ASSUME IInv, AnyStep
  PROVE  OwnInv'
  <1>1. \A i \in Ids : i > lastId => logins[i] = 0
    BY DEF IInv, OwnInv
  <1>2. /\ lastId \in Nat /\ Ids \subseteq Nat /\ NoId \notin Ids /\ logins \in [Ids -> Nat]
    BY IdFacts DEF IInv, TypeOK
  <1>3. \A d \in Conns : Active(conn[d]) => conn[d].v \in Visitors
    BY DEF IInv, RequestInv
  <1>4. ASSUME StartUpStep
        PROVE  OwnInv'
    <2>1. \A v \in Visitors, i \in Ids : Has(v, i)' => Has(v, i)
      BY <1>4, <1>2, <1>3 DEF StartUpStep, Has, Active, Only, SameRequest
    <2>2. lastId' = lastId /\ logins' = logins
      BY <1>4 DEF StartUpStep
    <2> QED
      BY <1>1, <2>1, <2>2, OwnKept
  <1>5. ASSUME StopStep
        PROVE  OwnInv'
    <2>1. \A v \in Visitors, i \in Ids : Has(v, i)' => Has(v, i)
      BY <1>5, <1>2 DEF StopStep, Has, Active
    <2>2. lastId' = lastId /\ logins' = logins
      BY <1>5 DEF StopStep
    <2> QED
      BY <1>1, <2>1, <2>2, OwnKept
  <1>6. ASSUME NEW c \in Conns, NEW v \in Visitors, SendStep(c, v)
        PROVE  OwnInv'
    <2>1. \A w \in Visitors, i \in Ids : Has(w, i)' => Has(w, i)
      BY <1>6, <1>2, <1>3 DEF SendStep, Has, Active, Only, SameRequest
    <2>2. lastId' = lastId /\ logins' = logins
      BY <1>6 DEF SendStep
    <2> QED
      BY <1>1, <2>1, <2>2, OwnKept
  <1>7. ASSUME NEW v \in Visitors, LoseStep(v)
        PROVE  OwnInv'
    <2>1. \A w \in Visitors, i \in Ids : Has(w, i)' => Has(w, i)
      BY <1>7, <1>2, <1>3 DEF LoseStep, Has, Active, Only, SameRequest
    <2>2. lastId' = lastId /\ logins' = logins
      BY <1>7 DEF LoseStep
    <2> QED
      BY <1>1, <2>1, <2>2, OwnKept
  <1>8. ASSUME NEW c \in Conns, ReceiveStep(c)
        PROVE  OwnInv'
    <2>1. \A v \in Visitors, i \in Ids : Has(v, i)' => Has(v, i)
      BY <1>8, <1>2, <1>3 DEF ReceiveStep, Has, Active, Only, SameRequest
    <2>2. lastId' = lastId /\ logins' = logins
      BY <1>8 DEF ReceiveStep
    <2> QED
      BY <1>1, <2>1, <2>2, OwnKept
  <1>9. ASSUME NEW c \in Conns, LeaveStep(c)
        PROVE  OwnInv'
    <2>1. \A v \in Visitors, i \in Ids : Has(v, i)' => Has(v, i)
      BY <1>9, <1>2, <1>3 DEF LeaveStep, Has, Active, Only, SameRequest
    <2>2. lastId' = lastId /\ logins' = logins
      BY <1>9 DEF LeaveStep
    <2> QED
      BY <1>1, <2>1, <2>2, OwnKept
  <1>10. ASSUME NEW c \in Conns, SessionStep(c)
        PROVE  OwnInv'
    <2>1. \A v \in Visitors, i \in Ids : Has(v, i)' => Has(v, i)
      BY <1>10, <1>2 DEF SessionStep, Has, Active, Only, SameRequest
    <2>2. \/ lastId' = lastId /\ logins' = logins
          \/ lastId' = lastId + 1 /\ \A i \in Ids : i # lastId + 1 => logins'[i] = logins[i]
      <3>1. \/ UNCHANGED <<lastId, logins, silent>>
            \/ lastId' = lastId + 1 /\ \A i \in Ids : i # lastId + 1 => logins'[i] = logins[i]
        BY <1>10 DEF SessionStep
      <3> QED
        BY <3>1
    <2>3. lastId' \in {lastId, lastId + 1} /\ \A i \in Ids : i > lastId' => logins'[i] = 0
      BY <1>1, <1>2, <2>2
    <2> QED
      BY <2>1, <2>3, OwnKept
  <1>11. ASSUME NEW c \in Conns, AnswerStep(c)
        PROVE  OwnInv'
    <2>1. \A v \in Visitors, i \in Ids : Has(v, i)' => Has(v, i)
      BY <1>11, <1>2, <1>3 DEF AnswerStep, Has, Active, Only, SameRequest
    <2>2. lastId' = lastId /\ logins' = logins
      BY <1>11 DEF AnswerStep
    <2> QED
      BY <1>1, <2>1, <2>2, OwnKept
  <1>12. ASSUME NEW c \in Conns, ExtractStep(c)
        PROVE  OwnInv'
    <2>1. \A v \in Visitors, i \in Ids : Has(v, i)' => Has(v, i) \/ (v = conn[c].v /\ i = lastId + 1 /\ lastId' = lastId + 1)
      BY <1>12, <1>2 DEF ExtractStep, Has, Active, Only, SameRequest
    <2>2. lastId' \in {lastId, lastId + 1} /\ \A i \in Ids : i > lastId' => logins'[i] = 0
      BY <1>12, <1>1, <1>2 DEF ExtractStep
    <2> QED
      BY <2>1, <2>2, OwnKept
  <1>13. ASSUME NEW c \in Conns, ForwardStep(c)
        PROVE  OwnInv'
    <2>1. \A v \in Visitors, i \in Ids : Has(v, i)' => Has(v, i)
      BY <1>13, <1>2, <1>3 DEF ForwardStep, Has, Active, Only, SameRequest
    <2>2. lastId' = lastId /\ logins' = logins
      BY <1>13 DEF ForwardStep
    <2> QED
      BY <1>1, <2>1, <2>2, OwnKept
  <1>14. ASSUME NEW c \in Conns, FailStep(c)
        PROVE  OwnInv'
    <2>1. \A v \in Visitors, i \in Ids : Has(v, i)' => Has(v, i)
      BY <1>14, <1>2, <1>3 DEF FailStep, Has, Active, Only, SameRequest
    <2>2. lastId' = lastId /\ logins' = logins
      BY <1>14 DEF FailStep
    <2> QED
      BY <1>1, <2>1, <2>2, OwnKept
  <1>15. ASSUME NEW c \in Conns, NEW e \in Command, LoginStep(c, e)
        PROVE  OwnInv'
    <2>1. \A v \in Visitors, i \in Ids : Has(v, i)' => Has(v, i)
      BY <1>15, <1>2 DEF LoginStep, Has, Active, Only, SameRequest
    <2>2. conn[c].sid \in Ids /\ conn[c].sid <= lastId
      <3>1. conn[c].sid \in Ids /\ conn[c].v \in Visitors /\ Active(conn[c])
        BY <1>15 DEF LoginStep, IInv, RequestInv, Active, AtFront
      <3>2. Has(conn[c].v, conn[c].sid)
        BY <3>1 DEF Has
      <3> QED
        BY <3>1, <3>2 DEF IInv, OwnInv
    <2>3. lastId' = lastId /\ \A i \in Ids : i > lastId' => logins'[i] = 0
      BY <1>15, <1>1, <1>2, <2>2 DEF LoginStep
    <2> QED
      BY <2>1, <2>3, OwnKept
  <1> QED
    BY <1>4, <1>5, <1>6, <1>7, <1>8, <1>9, <1>10, <1>11, <1>12, <1>13, <1>14, <1>15 DEF AnyStep

LEMMA FirstStep ==
  ASSUME IInv, AnyStep
  PROVE  FirstInv'
  <1>1. \A v \in Visitors : Careful(v) => FirstJar(v)
    BY DEF IInv, FirstInv
  <1>2. \A d \in Conns : Active(conn[d]) /\ Careful(conn[d].v) => FirstRequest(conn[d])
    BY DEF IInv, FirstInv
  <1>3. \A d \in Conns :
           /\ Active(conn[d]) => conn[d].v \in Visitors
           /\ conn[d].at \in {"sent", "session"} => ~conn[d].set
           /\ AtFront(conn[d]) => conn[d].sid \in Ids
    BY DEF IInv, RequestInv
  <1>4. /\ logins \in [Ids -> Nat] /\ lastId \in Nat /\ NoId \notin Ids /\ lastId + 1 # NoId
        /\ \A v \in Visitors : jar[v].sid \in Ids \cup {NoId}
        /\ \A d \in Conns : conn[d].sid \in Ids \cup {NoId}
    BY FlaskIds, IdFacts DEF IInv, TypeOK, NoId
  <1>5. ASSUME StartUpStep
        PROVE  FirstInv'
    BY <1>1, <1>2, <1>3, <1>4, <1>5 DEF StartUpStep, FirstInv, FirstJar, FirstRequest, LoggedIn,
                                        UnderWay, AtFront, Careful, Active, Only, SameRequest
  <1>6. ASSUME StopStep
        PROVE  FirstInv'
    BY <1>1, <1>2, <1>3, <1>4, <1>6 DEF StopStep, FirstInv, FirstJar, FirstRequest, LoggedIn,
                                        UnderWay, AtFront, Careful, Active, Only, SameRequest
  <1>7. ASSUME NEW c \in Conns, NEW v \in Visitors, SendStep(c, v)
        PROVE  FirstInv'
    BY <1>1, <1>2, <1>3, <1>4, <1>7 DEF SendStep, FirstInv, FirstJar, FirstRequest, LoggedIn,
                                        UnderWay, AtFront, Careful, Active, Only, SameRequest
  <1>8. ASSUME NEW v \in Visitors, LoseStep(v)
        PROVE  FirstInv'
    BY <1>1, <1>2, <1>3, <1>4, <1>8 DEF LoseStep, FirstInv, FirstJar, FirstRequest, LoggedIn,
                                        UnderWay, AtFront, Careful, Active, Only, SameRequest
  <1>9. ASSUME NEW c \in Conns, ReceiveStep(c)
        PROVE  FirstInv'
    BY <1>1, <1>2, <1>3, <1>4, <1>9 DEF ReceiveStep, FirstInv, FirstJar, FirstRequest, LoggedIn,
                                        UnderWay, AtFront, Careful, Active, Only, SameRequest
  <1>10. ASSUME NEW c \in Conns, LeaveStep(c)
        PROVE  FirstInv'
    BY <1>1, <1>2, <1>3, <1>4, <1>10 DEF LeaveStep, FirstInv, FirstJar, FirstRequest, LoggedIn,
           UnderWay, AtFront, Careful, Active, Only, SameRequest
  <1>11. ASSUME NEW c \in Conns, SessionStep(c)
        PROVE  FirstInv'
    BY <1>1, <1>2, <1>3, <1>4, <1>11 DEF SessionStep, FirstInv, FirstJar, FirstRequest, LoggedIn,
           UnderWay, AtFront, Careful, Active, Only, SameRequest
  <1>12. ASSUME NEW c \in Conns, AnswerStep(c)
        PROVE  FirstInv'
    BY <1>1, <1>2, <1>3, <1>4, <1>12 DEF AnswerStep, FirstInv, FirstJar, FirstRequest, LoggedIn,
           UnderWay, AtFront, Careful, Active, Only, SameRequest
  <1>13. ASSUME NEW c \in Conns, ExtractStep(c)
        PROVE  FirstInv'
    BY <1>1, <1>2, <1>3, <1>4, <1>13 DEF ExtractStep, FirstInv, FirstJar, FirstRequest, LoggedIn,
           UnderWay, AtFront, Careful, Active, Only, SameRequest
  <1>14. ASSUME NEW c \in Conns, ForwardStep(c)
        PROVE  FirstInv'
    BY <1>1, <1>2, <1>3, <1>4, <1>14 DEF ForwardStep, FirstInv, FirstJar, FirstRequest, LoggedIn,
           UnderWay, AtFront, Careful, Active, Only, SameRequest
  <1>15. ASSUME NEW c \in Conns, FailStep(c)
        PROVE  FirstInv'
    BY <1>1, <1>2, <1>3, <1>4, <1>15 DEF FailStep, FirstInv, FirstJar, FirstRequest, LoggedIn,
           UnderWay, AtFront, Careful, Active, Only, SameRequest
  <1>16. ASSUME NEW c \in Conns, NEW e \in Command, LoginStep(c, e)
        PROVE  FirstInv'
    BY <1>1, <1>2, <1>3, <1>4, <1>16 DEF LoginStep, FirstInv, FirstJar, FirstRequest, LoggedIn,
           UnderWay, AtFront, Careful, Active, Only, SameRequest
  <1> QED
    BY <1>5, <1>6, <1>7, <1>8, <1>9, <1>10, <1>11, <1>12, <1>13, <1>14, <1>15, <1>16 DEF AnyStep


LEMMA OnceFrame ==
  ASSUME NEW d \in Conns, OnceRequest(conn[d]), conn'[d] = conn[d],
         jar'[conn[d].v] = jar[conn[d].v],
         conn[d].sid # NoId => logins'[conn[d].sid] = logins[conn[d].sid]
  PROVE  OnceRequest(conn[d])'
  <1> DEFINE k == conn[d]
  <1>1. conn'[d] = k
    OBVIOUS
  <1>2. /\ jar[k.v].sid # NoId => k.flask.logged
        /\ UnderWay(k) /\ k.sid # NoId =>
              /\ k.set => ~k.flask.logged /\ logins[k.sid] = 0
              /\ ~k.set => k.flask.logged /\ Once(k.sid)
        /\ k.at = "response" /\ k.set =>
              k.sid # NoId /\ k.modified /\ k.flask.logged /\ Once(k.sid)
    BY DEF OnceRequest
  <1>3. OnceRequest(conn[d])' <=>
           /\ jar'[k.v].sid # NoId => k.flask.logged
           /\ UnderWay(k) /\ k.sid # NoId =>
                 /\ k.set => ~k.flask.logged /\ logins'[k.sid] = 0
                 /\ ~k.set => k.flask.logged /\ logins'[k.sid] = 1
           /\ k.at = "response" /\ k.set =>
                 k.sid # NoId /\ k.modified /\ k.flask.logged /\ logins'[k.sid] = 1
    BY <1>1 DEF OnceRequest, Once, UnderWay
  <1>4. jar'[k.v] = jar[k.v] /\ (k.sid # NoId => logins'[k.sid] = logins[k.sid])
    OBVIOUS
  <1> HIDE DEF k
  <1> QED
    BY <1>2, <1>3, <1>4 DEF Once

LEMMA OnceParts ==
  ASSUME \A v \in Visitors : Steady(v)' => OnceJar(v)',
         \A d \in Conns : Active(conn[d])' /\ Steady(conn[d].v)' => OnceRequest(conn[d])',
         \A b, d \in Conns :
            Active(conn[b])' /\ Active(conn[d])' /\ conn'[b].v = conn'[d].v /\ Steady(conn[b].v)' => b = d
  PROVE  OnceInv'
  BY DEF OnceInv

LEMMA OnceStep ==
  ASSUME IInv, AnyStep
  PROVE  OnceInv'
  <1>1. \A v \in Visitors : Steady(v) => OnceJar(v)
    BY DEF IInv, OnceInv
  <1>2. \A d \in Conns : Active(conn[d]) /\ Steady(conn[d].v) => OnceRequest(conn[d])
    BY DEF IInv, OnceInv
  <1>3. \A b, d \in Conns :
           Active(conn[b]) /\ Active(conn[d]) /\ conn[b].v = conn[d].v /\ Steady(conn[b].v) => b = d
    BY DEF IInv, OnceInv
  <1>4. \A d \in Conns :
           /\ Active(conn[d]) => conn[d].v \in Visitors
           /\ conn[d].at \in {"sent", "session"} => ~conn[d].set
           /\ AtFront(conn[d]) => conn[d].sid \in Ids
    BY DEF IInv, RequestInv
  <1>5. /\ logins \in [Ids -> Nat] /\ lastId \in Nat /\ NoId \notin Ids /\ lastId + 1 # NoId
        /\ \A v \in Visitors : jar[v].sid \in Ids \cup {NoId}
        /\ \A d \in Conns : conn[d].sid \in Ids \cup {NoId}
    BY FlaskIds, IdFacts DEF IInv, TypeOK, NoId
  <1>6. \A v \in Visitors : habits[v] \subseteq {"together", "loses"}
    BY DEF IInv, TypeOK
  <1>7. \A d \in Conns : Active(conn[d]) /\ Careful(conn[d].v) => FirstRequest(conn[d])
    BY DEF IInv, FirstInv
  <1>8. /\ \A v \in Visitors : jar[v].sid # NoId => Has(v, jar[v].sid)
        /\ \A d \in Conns : Active(conn[d]) /\ conn[d].sid # NoId => Has(conn[d].v, conn[d].sid)
    BY DEF Has
  <1>9. /\ \A v \in Visitors, i \in Ids : Has(v, i) => i <= lastId
        /\ \A v, w \in Visitors, i \in Ids : Has(v, i) /\ Has(w, i) => v = w
        /\ \A i \in Ids : i > lastId => logins[i] = 0
    BY DEF IInv, OwnInv
  <1>10. ASSUME StartUpStep
        PROVE  OnceInv'
    BY <1>1, <1>2, <1>3, <1>4, <1>5, <1>6, <1>7, <1>10 DEF StartUpStep, OnceInv, OnceJar,
           OnceRequest, FirstRequest, Once, UnderWay, AtFront, Careful, Steady, Active, Only,
           SameRequest
  <1>11. ASSUME StopStep
        PROVE  OnceInv'
    BY <1>1, <1>2, <1>3, <1>4, <1>5, <1>6, <1>7, <1>11 DEF StopStep, OnceInv, OnceJar,
           OnceRequest, FirstRequest, Once, UnderWay, AtFront, Careful, Steady, Active, Only,
           SameRequest
  <1>12. ASSUME NEW c \in Conns, NEW v \in Visitors, SendStep(c, v)
        PROVE  OnceInv'
    BY <1>1, <1>2, <1>3, <1>4, <1>5, <1>6, <1>7, <1>12 DEF SendStep, OnceInv, OnceJar,
           OnceRequest, FirstRequest, Once, UnderWay, AtFront, Careful, Steady, Active, Only,
           SameRequest
  <1>13. ASSUME NEW v \in Visitors, LoseStep(v)
        PROVE  OnceInv'
    BY <1>1, <1>2, <1>3, <1>4, <1>5, <1>6, <1>7, <1>13 DEF LoseStep, OnceInv, OnceJar,
           OnceRequest, FirstRequest, Once, UnderWay, AtFront, Careful, Steady, Active, Only,
           SameRequest
  <1>14. ASSUME NEW c \in Conns, ReceiveStep(c)
        PROVE  OnceInv'
    <2> DEFINE u == conn[c].v
    <2>1. u \in Visitors /\ Active(conn[c]) /\ conn[c].at = "response"
      BY <1>4, <1>14 DEF ReceiveStep, Active
    <2>2. ASSUME NEW v \in Visitors, Steady(v)'
          PROVE  OnceJar(v)'
      <3>1. Steady(v)
        BY <2>2, <1>14 DEF ReceiveStep, Steady
      <3>2. CASE v # u
        BY <1>1, <3>1, <3>2, <1>14 DEF ReceiveStep, OnceJar, Once
      <3>3. CASE v = u
        <4>1. OnceRequest(conn[c]) /\ OnceJar(u)
          BY <1>1, <1>2, <2>1, <3>1, <3>3
        <4>2. /\ conn[c].set => conn[c].modified /\ conn[c].flask.logged /\ Once(conn[c].sid)
              /\ jar[u].sid # NoId => conn[c].flask.logged /\ jar[u].flask.logged /\ Once(jar[u].sid)
          BY <2>1, <4>1 DEF OnceRequest, OnceJar
        <4>3. /\ jar'[u].sid = IF conn[c].set THEN conn[c].sid ELSE jar[u].sid
              /\ jar'[u].flask = IF conn[c].modified THEN conn[c].flask ELSE jar[u].flask
              /\ logins' = logins
          BY <1>14 DEF ReceiveStep
        <4> QED
          BY <3>3, <4>2, <4>3 DEF OnceJar, Once
      <3> QED
        BY <3>2, <3>3
    <2>3. ASSUME NEW d \in Conns, Active(conn[d])', Steady(conn[d].v)'
          PROVE  OnceRequest(conn[d])'
      <3>1. d # c /\ conn'[d] = conn[d] /\ Steady(conn[d].v) /\ Active(conn[d]) /\ logins' = logins
        BY <2>3, <1>14 DEF ReceiveStep, Only, Active, Steady
      <3>2. conn[d].v # u /\ conn[d].v \in Visitors
        BY <1>3, <1>4, <2>1, <3>1
      <3>3. jar'[conn[d].v] = jar[conn[d].v]
        BY <3>2, <1>14 DEF ReceiveStep
      <3> QED
        BY <1>2, <3>1, <3>3, OnceFrame
    <2>4. \A b, d \in Conns :
              Active(conn[b])' /\ Active(conn[d])' /\ conn'[b].v = conn'[d].v /\ Steady(conn[b].v)' => b = d
      BY <1>3, <1>14 DEF ReceiveStep, Only, Active, Steady
    <2> QED
      BY <2>2, <2>3, <2>4, OnceParts
  <1>15. ASSUME NEW c \in Conns, LeaveStep(c)
        PROVE  OnceInv'
    <2>1. \A v \in Visitors : Steady(v)' => OnceJar(v)'
      BY <1>1, <1>15 DEF LeaveStep, Steady, OnceJar, Once
    <2>2. ASSUME NEW d \in Conns, Active(conn[d])', Steady(conn[d].v)'
          PROVE  OnceRequest(conn[d])'
      <3>1. d # c /\ conn'[d] = conn[d] /\ Steady(conn[d].v) /\ Active(conn[d]) /\ jar' = jar /\ logins' = logins
        BY <2>2, <1>15 DEF LeaveStep, Only, Active, Steady
      <3> QED
        BY <1>2, <3>1, OnceFrame
    <2>3. \A b, d \in Conns :
              Active(conn[b])' /\ Active(conn[d])' /\ conn'[b].v = conn'[d].v /\ Steady(conn[b].v)' => b = d
      BY <1>3, <1>15 DEF LeaveStep, Only, Active, Steady
    <2> QED
      BY <2>1, <2>2, <2>3, OnceParts
  <1>16. ASSUME NEW c \in Conns, SessionStep(c)
        PROVE  OnceInv'
    <2>1. /\ \A d \in Conns : d # c => conn'[d] = conn[d]
          /\ conn'[c].v = conn[c].v /\ conn'[c].sid = conn[c].sid /\ conn'[c].set = conn[c].set
          /\ conn'[c].flask.logged = conn[c].flask.logged
          /\ conn[c].at = "sent" /\ conn'[c].at = "session" /\ jar' = jar /\ habits' = habits
      BY <1>16 DEF SessionStep, SameRequest, Only
    <2>2. ASSUME NEW i \in Ids, i <= lastId
          PROVE  logins'[i] = logins[i]
      BY <1>5, <2>2, IdFacts, <1>16 DEF SessionStep
    <2>3. \A v \in Visitors : Steady(v)' => OnceJar(v)'
      BY <1>1, <1>5, <1>8, <1>9, <2>1, <2>2 DEF Steady, OnceJar, Once
    <2>4. ASSUME NEW d \in Conns, Active(conn[d])', Steady(conn[d].v)'
          PROVE  OnceRequest(conn[d])'
      <3>1. Active(conn[d]) /\ Steady(conn[d].v) /\ OnceRequest(conn[d]) /\ conn[d].v \in Visitors
        BY <1>2, <1>4, <2>1, <2>4 DEF Active, Steady
      <3>2. conn[d].sid # NoId => logins'[conn[d].sid] = logins[conn[d].sid]
        BY <1>5, <1>8, <1>9, <2>2, <3>1
      <3>3. CASE d # c
        BY <2>1, <3>1, <3>2, <3>3, OnceFrame
      <3>4. CASE d = c
        BY <2>1, <3>1, <3>2, <3>4 DEF OnceRequest, Once, UnderWay
      <3> QED
        BY <3>3, <3>4
    <2>5. \A b, d \in Conns :
              Active(conn[b])' /\ Active(conn[d])' /\ conn'[b].v = conn'[d].v /\ Steady(conn[b].v)' => b = d
      BY <1>3, <2>1 DEF Active, Steady
    <2> QED
      BY <2>3, <2>4, <2>5, OnceParts
  <1>17. ASSUME NEW c \in Conns, AnswerStep(c)
        PROVE  OnceInv'
    BY <1>1, <1>2, <1>3, <1>4, <1>5, <1>6, <1>7, <1>17 DEF AnswerStep, OnceInv, OnceJar,
           OnceRequest, FirstRequest, Once, UnderWay, AtFront, Careful, Steady, Active, Only,
           SameRequest
  <1>18. ASSUME NEW c \in Conns, ExtractStep(c)
        PROVE  OnceInv'
    <2>1. /\ \A d \in Conns : d # c => conn'[d] = conn[d]
          /\ conn'[c].v = conn[c].v /\ conn'[c].flask = conn[c].flask
          /\ conn[c].at = "session" /\ conn'[c].at = "routing" /\ jar' = jar /\ habits' = habits
          /\ logins' = logins
      BY <1>18 DEF ExtractStep, SameRequest, Only
    <2>2. \/ conn[c].sid # NoId /\ conn'[c].sid = conn[c].sid /\ ~conn'[c].set
          \/ conn[c].sid = NoId /\ conn'[c].sid = lastId + 1 /\ conn'[c].set /\ lastId + 1 \in Ids
      BY <1>18 DEF ExtractStep
    <2>3. \A v \in Visitors : Steady(v)' => OnceJar(v)'
      BY <1>1, <2>1 DEF Steady, OnceJar, Once
    <2>4. ASSUME NEW d \in Conns, Active(conn[d])', Steady(conn[d].v)'
          PROVE  OnceRequest(conn[d])'
      <3>1. Active(conn[d]) /\ Steady(conn[d].v) /\ OnceRequest(conn[d]) /\ conn[d].v \in Visitors
        BY <1>2, <1>4, <2>1, <2>4 DEF Active, Steady
      <3>2. CASE d # c
        BY <2>1, <3>1, <3>2, OnceFrame
      <3>3. CASE d = c
        <4>1. FirstRequest(conn[c]) /\ ~conn[c].set /\ UnderWay(conn[c])
          BY <1>4, <1>7, <2>1, <3>1, <3>3 DEF Careful, Steady, UnderWay
        <4>2. /\ jar[conn[c].v].sid # NoId => conn[c].flask.logged
              /\ conn[c].sid # NoId => conn[c].flask.logged /\ Once(conn[c].sid)
          BY <3>1, <3>3, <4>1 DEF OnceRequest
        <4>3. conn[c].sid = NoId => ~conn[c].flask.logged
          BY <4>1 DEF FirstRequest
        <4>4. lastId + 1 \in Ids => logins[lastId + 1] = 0
          BY <1>5, <1>9
        <4> QED
          BY <1>5, <2>1, <2>2, <3>3, <4>2, <4>3, <4>4 DEF OnceRequest, Once, UnderWay
      <3> QED
        BY <3>2, <3>3
    <2>5. \A b, d \in Conns :
              Active(conn[b])' /\ Active(conn[d])' /\ conn'[b].v = conn'[d].v /\ Steady(conn[b].v)' => b = d
      BY <1>3, <2>1 DEF Active, Steady
    <2> QED
      BY <2>3, <2>4, <2>5, OnceParts
  <1>19. ASSUME NEW c \in Conns, ForwardStep(c)
        PROVE  OnceInv'
    BY <1>1, <1>2, <1>3, <1>4, <1>5, <1>6, <1>7, <1>19 DEF ForwardStep, OnceInv, OnceJar,
           OnceRequest, FirstRequest, Once, UnderWay, AtFront, Careful, Steady, Active, Only,
           SameRequest
  <1>20. ASSUME NEW c \in Conns, FailStep(c)
        PROVE  OnceInv'
    BY <1>1, <1>2, <1>3, <1>4, <1>5, <1>6, <1>7, <1>20 DEF FailStep, OnceInv, OnceJar,
           OnceRequest, FirstRequest, Once, UnderWay, AtFront, Careful, Steady, Active, Only,
           SameRequest
  <1>21. ASSUME NEW c \in Conns, NEW e \in Command, LoginStep(c, e)
        PROVE  OnceInv'
    <2> DEFINE u == conn[c].v
    <2>1. /\ \A d \in Conns : d # c => conn'[d] = conn[d]
          /\ conn'[c].v = conn[c].v /\ conn'[c].sid = conn[c].sid /\ conn'[c].set = conn[c].set
          /\ conn'[c].flask.logged /\ (~conn[c].flask.logged => conn'[c].modified)
          /\ conn[c].at = "forwarded" /\ conn'[c].at = "response" /\ jar' = jar /\ habits' = habits
      BY <1>21 DEF LoginStep, SameRequest, Only
    <2>2. Active(conn[c]) /\ conn[c].sid \in Ids /\ u \in Visitors
      BY <1>4, <2>1 DEF Active, AtFront
    <2>3. ASSUME NEW v \in Visitors, NEW i \in Ids, v # u, Has(v, i)
          PROVE  logins'[i] = logins[i]
      <3>1. i # conn[c].sid
        BY <1>5, <1>8, <1>9, <2>2, <2>3
      <3> QED
        BY <3>1, <1>21 DEF LoginStep
    <2>4. ASSUME Steady(u)
          PROVE  /\ jar[u].sid # NoId => conn[c].flask.logged
                 /\ conn[c].set => ~conn[c].flask.logged /\ logins[conn[c].sid] = 0
                 /\ ~conn[c].set => conn[c].flask.logged
      <3>1. OnceRequest(conn[c]) /\ UnderWay(conn[c])
        BY <1>2, <2>1, <2>2, <2>4 DEF UnderWay
      <3> QED
        BY <1>5, <2>2, <3>1 DEF OnceRequest
    <2>5. /\ conn[c].flask.logged => logins' = logins
          /\ ~conn[c].flask.logged => logins'[conn[c].sid] = logins[conn[c].sid] + 1
      BY <1>21 DEF LoginStep
    <2>6. ASSUME NEW v \in Visitors, Steady(v)'
          PROVE  OnceJar(v)'
      <3>1. Steady(v) /\ OnceJar(v)
        BY <1>1, <2>1, <2>6 DEF Steady
      <3>2. CASE v # u
        <4>1. jar[v].sid # NoId => logins'[jar[v].sid] = logins[jar[v].sid]
          BY <1>5, <1>8, <2>3, <3>2
        <4> QED
          BY <2>1, <3>1, <4>1 DEF OnceJar, Once
      <3>3. CASE v = u
        BY <2>1, <2>4, <2>5, <3>1, <3>3 DEF OnceJar, Once
      <3> QED
        BY <3>2, <3>3
    <2>7. ASSUME NEW d \in Conns, Active(conn[d])', Steady(conn[d].v)'
          PROVE  OnceRequest(conn[d])'
      <3>1. Active(conn[d]) /\ Steady(conn[d].v) /\ OnceRequest(conn[d]) /\ conn[d].v \in Visitors
        BY <1>2, <1>4, <2>1, <2>7 DEF Active, Steady
      <3>2. CASE d # c
        <4>1. conn[d].v # u
          BY <1>3, <2>2, <3>1, <3>2
        <4>2. conn[d].sid # NoId => logins'[conn[d].sid] = logins[conn[d].sid]
          BY <1>5, <1>8, <2>3, <3>1, <4>1
        <4> QED
          BY <2>1, <3>1, <3>2, <4>2, OnceFrame
      <3>3. CASE d = c
        <4>1. Steady(u)
          BY <3>1, <3>3
        <4>2. conn[c].set => logins'[conn[c].sid] = 1
          BY <2>4, <2>5, <4>1
        <4>3. conn[c].set => conn'[c].modified
          BY <2>1, <2>4, <4>1
        <4> QED
          BY <1>5, <2>1, <2>2, <3>3, <4>2, <4>3 DEF OnceRequest, Once, UnderWay
      <3> QED
        BY <3>2, <3>3
    <2>8. \A b, d \in Conns :
              Active(conn[b])' /\ Active(conn[d])' /\ conn'[b].v = conn'[d].v /\ Steady(conn[b].v)' => b = d
      BY <1>3, <2>1 DEF Active, Steady
    <2> QED
      BY <2>6, <2>7, <2>8, OnceParts
  <1> QED
    BY <1>10, <1>11, <1>12, <1>13, <1>14, <1>15, <1>16, <1>17, <1>18, <1>19, <1>20, <1>21
       DEF AnyStep

(* While the requests that were forwarded stay so, and with them what the  *)
(* visitor and the session are, the logins of what backends log follow.    *)
LEMMA StillFollows ==
  ASSUME IInv, fallbacks' = fallbacks, cut' = cut,
         \A j \in Ids : logins[j] > 0 => logins'[j] > 0,
         \A w \in Visitors : habits[w] \subseteq habits'[w],
         \A d \in Conns : conn[d].at = "forwarded" =>
            conn'[d].at = "forwarded" /\ conn'[d].v = conn[d].v /\ conn'[d].sid = conn[d].sid
  PROVE  LoginFollows'
  <1> SUFFICES ASSUME NEW e \in fallbacks, "loses" \notin habits'[e.v]
               PROVE  \/ logins'[e.sid] > 0 \/ e.sid \in cut
                      \/ \E c \in Conns : conn'[c].at = "forwarded" /\ Fallback(c)' = e
    BY DEF LoginFollows
  <1>1. e.v \in Visitors /\ e.sid \in Ids
    BY DEF IInv, CommandsInv, Command
  <1>2. \/ logins[e.sid] > 0 \/ e.sid \in cut
        \/ \E c \in Conns : conn[c].at = "forwarded" /\ Fallback(c) = e
    BY <1>1 DEF IInv, LogTruthful, LoginFollows
  <1> QED
    BY <1>1, <1>2 DEF Fallback

LEMMA FollowsStep ==
  ASSUME IInv, AnyStep
  PROVE  LoginFollows'
  <1>1. /\ logins \in [Ids -> Nat] /\ LoginFollows /\ fallbacks \subseteq Command
        /\ habits \in [Visitors -> SUBSET {"together", "loses"}]
    BY DEF IInv, TypeOK, CommandsInv, LogTruthful
  <1>2. CASE StartUpStep
    BY <1>2, StillFollows DEF StartUpStep
  <1>3. CASE StopStep
    <2> SUFFICES ASSUME NEW e \in fallbacks, "loses" \notin habits[e.v]
                 PROVE  logins[e.sid] > 0 \/ e.sid \in cut'
      BY <1>3 DEF StopStep, LoginFollows
    <2>1. \/ logins[e.sid] > 0 \/ e.sid \in cut
          \/ \E c \in Conns : conn[c].at = "forwarded" /\ Fallback(c) = e
      BY <1>1 DEF LoginFollows
    <2> QED
      BY <1>3, <2>1 DEF StopStep, Fallback
  <1>4. CASE \E c \in Conns, v \in Visitors : SendStep(c, v)
    BY <1>4, StillFollows DEF SendStep, Only
  <1>5. CASE \E v \in Visitors : LoseStep(v)
    <2>1. PICK v \in Visitors : LoseStep(v)
      BY <1>5
    <2> SUFFICES ASSUME NEW e \in fallbacks, "loses" \notin habits'[e.v]
                 PROVE  \/ logins[e.sid] > 0 \/ e.sid \in cut
                        \/ \E c \in Conns : conn[c].at = "forwarded" /\ Fallback(c) = e
      BY <2>1 DEF LoseStep, LoginFollows, Fallback
    <2>2. e.v \in Visitors /\ e.v # v
      BY <1>1, <2>1 DEF LoseStep, Command
    <2> QED
      BY <1>1, <2>1, <2>2 DEF LoseStep, LoginFollows
  <1>6. CASE \E c \in Conns : ReceiveStep(c) \/ LeaveStep(c)
    BY <1>6, StillFollows DEF ReceiveStep, LeaveStep, Only
  <1>7. CASE \E c \in Conns : SessionStep(c)
    <2>1. PICK c \in Conns : SessionStep(c)
      BY <1>7
    <2>2. \A j \in Ids : logins[j] > 0 => logins'[j] > 0
      BY <1>1, <2>1 DEF SessionStep
    <2> QED
      BY <2>1, <2>2, StillFollows DEF SessionStep, SameRequest, Only
  <1>8. CASE \E c \in Conns : AnswerStep(c) \/ ExtractStep(c) \/ FailStep(c)
    BY <1>8, StillFollows DEF AnswerStep, ExtractStep, FailStep, SameRequest, Only
  <1>9. CASE \E c \in Conns : ForwardStep(c)
    <2>1. PICK c \in Conns : ForwardStep(c)
      BY <1>9
    <2>2. /\ conn'[c].at = "forwarded" /\ Fallback(c)' = Fallback(c)
          /\ \A d \in Conns : conn[d].at = "forwarded" =>
                conn'[d].at = "forwarded" /\ Fallback(d)' = Fallback(d)
          /\ fallbacks' \in {fallbacks, fallbacks \cup {Fallback(c)}}
          /\ UNCHANGED <<logins, cut, habits>>
      BY <2>1 DEF ForwardStep, SameRequest, Only, Fallback
    <2> QED
      BY <1>1, <2>2 DEF LoginFollows
  <1>10. CASE \E c \in Conns, e \in Command : LoginStep(c, e)
    <2>1. PICK c \in Conns, f \in Command : LoginStep(c, f)
      BY <1>10
    <2> SUFFICES ASSUME NEW e \in fallbacks, Careful(e.v)
                 PROVE  \/ logins'[e.sid] > 0 \/ e.sid \in cut
                        \/ \E d \in Conns : conn'[d].at = "forwarded" /\ Fallback(d)' = e
      BY <2>1 DEF LoginStep, LoginFollows, Careful
    <2>2. /\ conn[c].at = "forwarded" /\ conn[c].v \in Visitors /\ conn[c].sid \in Ids
          /\ Active(conn[c])
      BY <2>1 DEF LoginStep, IInv, RequestInv, AtFront, Active
    <2>3. /\ \A j \in Ids : j # conn[c].sid => logins'[j] = logins[j]
          /\ conn[c].flask.logged => logins' = logins
          /\ ~conn[c].flask.logged => logins'[conn[c].sid] = logins[conn[c].sid] + 1
      BY <2>1 DEF LoginStep
    <2>4. \A j \in Ids : logins[j] \in Nat /\ (logins[j] > 0 => logins'[j] > 0)
      BY <1>1, <2>2, <2>3
    <2>5. e.sid \in Ids
      BY <1>1 DEF Command
    <2>6. CASE logins[e.sid] > 0 \/ e.sid \in cut
      BY <2>4, <2>5, <2>6
    <2>7. ASSUME NEW d \in Conns, conn[d].at = "forwarded", Fallback(d) = e, d # c
          PROVE  conn'[d].at = "forwarded" /\ Fallback(d)' = e
      BY <2>1, <2>7 DEF LoginStep, SameRequest, Only, Fallback
    <2>8. ASSUME Fallback(c) = e
          PROVE  logins'[e.sid] > 0
      <3>1. e.sid = conn[c].sid /\ FirstRequest(conn[c])
        BY <2>2, <2>8 DEF IInv, FirstInv, Fallback
      <3>2. conn[c].flask.logged => logins[conn[c].sid] > 0
        BY <2>2, <3>1 DEF FirstRequest, UnderWay, LoggedIn
      <3> QED
        BY <2>2, <2>3, <2>4, <3>1, <3>2
    <2>9. \/ logins[e.sid] > 0 \/ e.sid \in cut
          \/ \E d \in Conns : conn[d].at = "forwarded" /\ Fallback(d) = e
      BY <1>1 DEF LoginFollows, Careful
    <2> QED
      BY <2>6, <2>7, <2>8, <2>9
  <1> QED
    BY <1>2, <1>3, <1>4, <1>5, <1>6, <1>7, <1>8, <1>9, <1>10 DEF AnyStep

LEMMA TruthStep ==
  ASSUME IInv, AnyStep
  PROVE  LogTruthful'
  <1>1. LoggedAsAnswered /\ LoginFirst /\ LoginOnce /\ LoginFollows'
    BY FollowsStep DEF IInv, LogTruthful
  <1>2. /\ logins \in [Ids -> Nat] /\ lastId \in Nat /\ requests \subseteq Ids /\ NoId \notin Ids
        /\ registry \subseteq Folders /\ None \notin Folders /\ commands \subseteq Command
        /\ habits \in [Visitors -> SUBSET {"together", "loses"}]
    BY IdFacts, NameFacts DEF IInv, TypeOK, CommandsInv
  <1>3. \A d \in commands : d.v \in Visitors /\ d.sid \in Ids
    BY <1>2 DEF Command
  <1>4. \A d \in commands : d.sid <= lastId
    BY <1>3 DEF IInv, OwnInv, Has
  <1>5. ASSUME StartUpStep
        PROVE  LogTruthful'
    BY <1>1, <1>2, <1>3, <1>4, <1>5 DEF StartUpStep, LogTruthful, LoggedAsAnswered, LoginFirst,
                                        LoginOnce, Only, SameRequest
  <1>6. ASSUME StopStep
        PROVE  LogTruthful'
    BY <1>1, <1>2, <1>3, <1>4, <1>6 DEF StopStep, LogTruthful, LoggedAsAnswered, LoginFirst,
                                        LoginOnce, Only, SameRequest
  <1>7. ASSUME NEW c \in Conns, NEW v \in Visitors, SendStep(c, v)
        PROVE  LogTruthful'
    BY <1>1, <1>2, <1>3, <1>4, <1>7 DEF SendStep, LogTruthful, LoggedAsAnswered, LoginFirst,
                                        LoginOnce, Only, SameRequest
  <1>8. ASSUME NEW v \in Visitors, LoseStep(v)
        PROVE  LogTruthful'
    BY <1>1, <1>2, <1>3, <1>4, <1>8 DEF LoseStep, LogTruthful, LoggedAsAnswered, LoginFirst,
                                        LoginOnce, Only, SameRequest
  <1>9. ASSUME NEW c \in Conns, ReceiveStep(c)
        PROVE  LogTruthful'
    BY <1>1, <1>2, <1>3, <1>4, <1>9 DEF ReceiveStep, LogTruthful, LoggedAsAnswered, LoginFirst,
                                        LoginOnce, Only, SameRequest
  <1>10. ASSUME NEW c \in Conns, LeaveStep(c)
        PROVE  LogTruthful'
    BY <1>1, <1>2, <1>3, <1>4, <1>10 DEF LeaveStep, LogTruthful, LoggedAsAnswered, LoginFirst,
           LoginOnce, Only, SameRequest
  <1>11. ASSUME NEW c \in Conns, SessionStep(c)
        PROVE  LogTruthful'
    BY <1>1, <1>2, <1>3, <1>4, <1>11 DEF SessionStep, LogTruthful, LoggedAsAnswered, LoginFirst,
           LoginOnce, Only, SameRequest
  <1>12. ASSUME NEW c \in Conns, AnswerStep(c)
        PROVE  LogTruthful'
    <2>1. LoggedAsAnswered' /\ LoginOnce'
      BY <1>1, <1>12 DEF AnswerStep, LoggedAsAnswered, LoginOnce
    <2>2. conn[c].flask.id # NoId /\ Known(conn[c].flask.id)
      BY <1>12 DEF AnswerStep, IInv, FlaskInv, InService
    <2>3. LoginFirst'
      BY <1>1, <2>2, <1>12 DEF AnswerStep, LoginFirst, Known
    <2> QED
      BY <1>1, <2>1, <2>3 DEF LogTruthful
  <1>13. ASSUME NEW c \in Conns, ExtractStep(c)
        PROVE  LogTruthful'
    BY <1>1, <1>2, <1>3, <1>4, <1>13 DEF ExtractStep, LogTruthful, LoggedAsAnswered, LoginFirst,
           LoginOnce, Only, SameRequest
  <1>14. ASSUME NEW c \in Conns, ForwardStep(c)
        PROVE  LogTruthful'
    BY <1>1, <1>2, <1>3, <1>4, <1>14 DEF ForwardStep, LogTruthful, LoggedAsAnswered, LoginFirst,
           LoginOnce, Only, SameRequest
  <1>15. ASSUME NEW c \in Conns, FailStep(c)
        PROVE  LogTruthful'
    BY <1>1, <1>2, <1>3, <1>4, <1>15 DEF FailStep, LogTruthful, LoggedAsAnswered, LoginFirst,
           LoginOnce, Only, SameRequest
  <1>16. ASSUME NEW c \in Conns, NEW e \in Command, LoginStep(c, e)
        PROVE  LogTruthful'
    <2> DEFINE i == conn[c].sid
    <2>1. /\ conn[c].at = "forwarded" /\ commands' = commands \cup {e}
          /\ e.v = conn[c].v /\ e.sid = i
          /\ requests' = requests /\ silent' = silent /\ habits' = habits
      BY <1>16 DEF LoginStep
    <2>2. /\ i \in Ids /\ pin[i] # None /\ (pin[i] \in registry => conn[c].by = pin[i])
          /\ conn[c].v \in Visitors /\ Active(conn[c])
      BY <2>1 DEF IInv, RequestInv, AtFront, Active
    <2>3. LoggedAsAnswered'
      <3>1. \A d \in entries' \ entries :
                d.name = pin[i] /\ d.by = conn[c].by /\ (d.known => pin[i] \in registry)
        BY <1>16 DEF LoginStep
      <3> QED
        BY <1>1, <2>2, <3>1 DEF LoggedAsAnswered
    <2>4. /\ \A j \in Ids : j # i => logins'[j] = logins[j]
          /\ conn[c].flask.logged => logins' = logins
          /\ ~conn[c].flask.logged => logins'[i] = logins[i] + 1
      BY <1>16 DEF LoginStep
    <2>5. \A j \in Ids : logins[j] \in Nat /\ (logins[j] > 0 => logins'[j] > 0)
      BY <1>2, <2>2, <2>4
    <2>6. Careful(conn[c].v) => logins'[i] > 0
      <3>1. Careful(conn[c].v) => FirstRequest(conn[c])
        BY <2>2 DEF IInv, FirstInv
      <3>2. Careful(conn[c].v) /\ conn[c].flask.logged => logins[i] > 0
        BY <1>2, <2>1, <2>2, <3>1 DEF FirstRequest, UnderWay, LoggedIn
      <3> QED
        BY <2>2, <2>4, <2>5, <3>2
    <2>7. LoginFirst'
      <3>1. \A d \in commands' : "loses" \notin habits'[d.v] => logins'[d.sid] > 0
        BY <1>1, <1>3, <2>1, <2>5, <2>6 DEF LoginFirst, Careful
      <3>2. \A j \in requests' : logins'[j] > 0 \/ j \in silent'
        BY <1>1, <1>2, <2>1, <2>5 DEF LoginFirst
      <3> QED
        BY <3>1, <3>2 DEF LoginFirst
    <2>8. ASSUME NEW d \in commands', habits'[d.v] = {}
          PROVE  logins'[d.sid] = 1
      <3>1. CASE d.v = conn[c].v
        <4>1. Steady(conn[c].v)
          BY <2>1, <2>8, <3>1 DEF Steady
        <4>2. OnceRequest(conn[c])
          BY <2>2, <4>1 DEF IInv, OnceInv
        <4>3. /\ conn[c].set => ~conn[c].flask.logged /\ logins[i] = 0
              /\ ~conn[c].set => conn[c].flask.logged /\ logins[i] = 1
          BY <1>2, <2>1, <2>2, <4>2 DEF OnceRequest, UnderWay, Once
        <4>4. CASE d \in commands
          <5>1. logins[d.sid] = 1 /\ d.sid \in Ids
            BY <1>1, <1>3, <2>1, <2>8, <4>4 DEF LoginOnce
          <5>2. CASE conn[c].flask.logged
            BY <2>4, <5>1, <5>2
          <5>3. CASE ~conn[c].flask.logged
            BY <2>4, <4>3, <5>1, <5>3
          <5> QED
            BY <5>2, <5>3
        <4>5. CASE d = e
          BY <2>1, <2>4, <4>3, <4>5
        <4> QED
          BY <2>1, <4>4, <4>5
      <3>2. CASE d.v # conn[c].v
        <4>1. d \in commands /\ logins[d.sid] = 1 /\ d.sid \in Ids /\ d.v \in Visitors
          BY <1>1, <1>3, <2>1, <2>8, <3>2 DEF LoginOnce
        <4>2. Has(d.v, d.sid) /\ Has(conn[c].v, i)
          BY <2>2, <4>1 DEF Has
        <4>3. d.sid # i
          BY <2>2, <3>2, <4>1, <4>2 DEF IInv, OwnInv
        <4> QED
          BY <2>4, <4>1, <4>3
      <3> QED
        BY <3>1, <3>2
    <2>9. LoginOnce'
      BY <2>8 DEF LoginOnce
    <2> QED
      BY <1>1, <2>3, <2>7, <2>9 DEF LogTruthful
  <1> QED
    BY <1>5, <1>6, <1>7, <1>8, <1>9, <1>10, <1>11, <1>12, <1>13, <1>14, <1>15, <1>16 DEF AnyStep

-----------------------------------------------------------------------------
(* The invariant. *)

LEMMA InitIInv == Init => IInv
  <1> SUFFICES ASSUME Init PROVE IInv
    OBVIOUS
  <1>1. /\ phase = "create" /\ starting = {} /\ registry = {} /\ listening = {}
        /\ pin = [i \in Ids |-> None]
        /\ jar = [v \in Visitors |-> [sid |-> NoId, flask |-> NoFlask]]
        /\ conn = [c \in Conns |-> Idle]
        /\ lastId = NoId /\ logins = [i \in Ids |-> 0] /\ commands = {} /\ requests = {}
        /\ entries = {} /\ fallbacks = {} /\ cut = {} /\ silent = {} /\ habits = [v \in Visitors |-> {}] /\ sends = 0 /\ restarts = 0
    BY DEF Init
  <1>2. NoFlask \in Cookie /\ NoFlask.id = NoId /\ ~NoFlask.logged
    BY DEF NoFlask, Cookie
  <1>3. /\ \A c \in Conns : conn[c] = Idle
        /\ \A v \in Visitors : jar[v].sid = NoId /\ jar[v].flask = NoFlask
    BY <1>1
  <1>4. 0 \in 0..MaxRequests /\ 0 \in 0..MaxRestarts
    BY DispatcherAssumption
  <1>5. TypeOK
    <2>1. jar \in [Visitors -> [sid : Ids \cup {NoId}, flask : Cookie]] /\ conn \in [Conns -> Request]
      BY <1>1, <1>2, IdleRecord
    <2>2. \A c \in Conns : conn[c].at \notin InService
      BY <1>3, IdleRecord DEF InService
    <2>3. /\ pin \in [Ids -> Names \cup {None}] /\ logins \in [Ids -> Nat]
          /\ habits \in [Visitors -> SUBSET {"together", "loses"}]
      BY <1>1
    <2> QED
      BY <1>1, <1>4, <2>1, <2>2, <2>3 DEF TypeOK
  <1>6. CommandsInv /\ ProcessInv /\ RequestInv
    BY <1>1, <1>3, IdleRecord DEF CommandsInv, ProcessInv, RequestInv, Active, AtFront
  <1>7. CountInv
    <2>1. SentConns = {} /\ NewConns = {}
      BY <1>3, IdleRecord DEF SentConns, NewConns
    <2> QED
      BY <1>1, <2>1, NoneLeft DEF CountInv, NoId
  <1>8. FlaskInv
    BY <1>2, <1>3, IdleRecord DEF FlaskInv, Known, InService
  <1>9. OwnInv
    <2>1. \A v \in Visitors, i \in Ids : ~Has(v, i)
      BY <1>1, <1>3, IdFacts, IdleRecord DEF Has, Active
    <2>2. \A i \in Ids : logins[i] = 0
      BY <1>1
    <2> QED
      BY <2>1, <2>2 DEF OwnInv
  <1>10. FirstInv /\ OnceInv
    BY <1>2, <1>3, IdleRecord DEF FirstInv, FirstJar, OnceInv, OnceJar, Active
  <1>11. LogTruthful
    BY <1>1 DEF LogTruthful, LoggedAsAnswered, LoginFirst, LoginFollows, LoginOnce
  <1> QED
    BY <1>5, <1>6, <1>7, <1>8, <1>9, <1>10, <1>11 DEF IInv

LEMMA Inductive == IInv /\ [Next]_vars => IInv'
  <1> SUFFICES ASSUME IInv, [Next]_vars PROVE IInv'
    OBVIOUS
  <1>1. CASE Next
    <2>1. AnyStep
      BY <1>1, NextForm
    <2> QED
      BY <2>1, TypeStep, CommandsStep, ProcessStep, RequestStep, CountStep, FlaskStep, OwnStep,
         FirstStep, OnceStep, TruthStep DEF IInv
  <1>2. CASE UNCHANGED vars
    <2>1. UNCHANGED <<phase, starting, registry, listening, pin, jar, conn, lastId, logins,
                      commands, requests, entries, fallbacks, cut, silent, habits, sends, restarts>>
      BY <1>2 DEF vars, process, log, history
    <2>2. TypeOK'
      BY <2>1 DEF IInv, TypeOK
    <2>3. CommandsInv' /\ ProcessInv' /\ RequestInv'
      BY <2>1 DEF IInv, CommandsInv, ProcessInv, RequestInv
    <2>4. CountInv'
      <3>1. SentConns' = SentConns /\ NewConns' = NewConns
        BY <2>1 DEF SentConns, NewConns
      <3> QED
        BY <2>1, <3>1 DEF IInv, CountInv
    <2>5. FlaskInv'
      BY <2>1 DEF IInv, FlaskInv, Known
    <2>6. OwnInv'
      BY <2>1 DEF IInv, OwnInv, Has
    <2>7. FirstInv'
      BY <2>1 DEF IInv, FirstInv, FirstJar, FirstRequest, Careful, LoggedIn
    <2>8. OnceInv'
      BY <2>1 DEF IInv, OnceInv, OnceJar, OnceRequest, Steady, Once
    <2>9. LogTruthful'
      BY <2>1 DEF IInv, LogTruthful, LoggedAsAnswered, LoginFirst, LoginFollows, LoginOnce, Fallback
    <2> QED
      BY <2>2, <2>3, <2>4, <2>5, <2>6, <2>7, <2>8, <2>9 DEF IInv
  <1> QED
    BY <1>1, <1>2

(* The pin of a session moves in Dispatch, and goes with the process.      *)
LEMMA PinMoves ==
  ASSUME IInv, Next, NEW i \in Ids, pin[i] \notin {None, pin'[i]}
  PROVE  phase' = "down" \/ pin'[i] \in {Choice(p) : p \in Paths} \ {None}
  <1>1. pin \in [Ids -> Names \cup {None}]
    BY DEF IInv, TypeOK
  <1>2. ASSUME NEW c \in Conns, Dispatch(c)
        PROVE  pin'[i] \in {Choice(p) : p \in Paths} \ {None}
    <2>1. conn[c].path \in Paths
      BY <1>2 DEF IInv, RequestInv, Active, Dispatch
    <2>2. CASE DispatchChosen(c, Choice(conn[c].path))
      BY <1>1, <2>1, <2>2 DEF DispatchChosen
    <2>3. CASE DispatchPinned(c)
      BY <2>3 DEF DispatchPinned
    <2>4. CASE DispatchRandom(c)
      BY <1>1, <2>4 DEF DispatchRandom
    <2> QED
      BY <1>2, <2>2, <2>3, <2>4 DEF Dispatch
  <1>3. CASE Stop
    BY <1>3 DEF Stop
  <1>4. CASE StartUp \/ Restart
    BY <1>4 DEF StartUp, Restart
  <1>5. CASE \E c \in Conns, v \in Visitors, to \in Folders, p \in Paths : Send(c, v, to, p)
    BY <1>5 DEF Send
  <1>6. CASE \E v \in Visitors : LoseCookie(v)
    BY <1>6 DEF LoseCookie
  <1>7. ASSUME NEW c \in Conns, Receive(c) \/ Disconnect(c) \/ HandleSession(c) \/ Refuse(c)
               \/ Answer(c) \/ RefuseMethod(c) \/ ExtractSessionId(c) \/ LogDispatch(c)
        PROVE  FALSE
    BY <1>7 DEF Receive, Disconnect, HandleSession, Refuse, Answer, RefuseMethod,
                ExtractSessionId, LogDispatch
  <1> QED
    BY <1>2, <1>3, <1>4, <1>5, <1>6, <1>7 DEF Next, Serve

-----------------------------------------------------------------------------
(* At every moment everything is of its type, and a listener serves one    *)
(* request at a time (http_honeypot.py start).                             *)
THEOREM TypeCorrect == Spec => []TypeOK
  <1>1. IInv => TypeOK
    BY DEF IInv
  <1> QED
    BY <1>1, InitIInv, Inductive, PTL DEF Spec

(* However responses are lost or late, the login event of a session names  *)
(* who answered its first request, and a session logs in exactly once      *)
(* before its commands, for a visitor who keeps its cookies and waits      *)
(* (http_honeypot.py catch_all); what a backend logged for that first      *)
(* request is followed by the login, unless the process ended.             *)
THEOREM LogIsTruthful == Spec => []LogTruthful
  <1>1. IInv => LogTruthful
    BY DEF IInv
  <1> QED
    BY <1>1, InitIInv, Inductive, PTL DEF Spec

(* Only a route, the list or the end of the process moves a pinned session *)
(* (base_honeypot.py dispatch).                                            *)
THEOREM PinsAreKept == Spec => PinKept
  <1>1. IInv /\ [Next]_vars =>
           [\A i \in Ids :
               pin[i] \notin {None, pin'[i]} =>
                   phase' = "down" \/ pin'[i] \in {Choice(p) : p \in Paths} \ {None}]_vars
    BY PinMoves
  <1> QED
    BY <1>1, InitIInv, Inductive, PTL DEF Spec, PinKept

=============================================================================
