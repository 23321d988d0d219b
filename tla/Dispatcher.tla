----------------------------- MODULE Dispatcher -----------------------------
(***************************************************************************)
(* One process with HTTP honeypots, one of them a dispatcher that forwards *)
(* requests to the others: start-up from the folders, the registry of      *)
(* honeypots, the dispatcher's routing and pinning of sessions, and the    *)
(* two cookies by which visitors keep their sessions, which a browser      *)
(* sends to every port of the host: hp_session, which the dispatcher sets, *)
(* and Flask's cookie, which holds the state of the session itself and is  *)
(* signed with one key by all the honeypots, in every run of the process.  *)
(*                                                                         *)
(* A listener is Werkzeug's single-threaded server: it serves one request  *)
(* at a time.  A visitor may have several under way.  Texts of replies and *)
(* the cache they come from (ResponseCache.tla) are left out.              *)
(***************************************************************************)
EXTENDS Naturals, FiniteSets

CONSTANTS
    Visitors, Conns,
    Backends,     \* the names of the honeypots that are not dispatchers
    Front,        \* the name of the dispatcher
    Answering,    \* honeypots whose class implements handle_request
    Paths,
    Route,        \* Route[p]: the name at the longest route that matches p
    Unknown,      \* that name is UNKNOWN, or no route matches
    Listed,       \* the first of the dispatcher's "honeypots", or None
    None,
    MaxRequests,  \* bound
    MaxRestarts   \* bound

Folders == Backends \cup {Front}

ASSUME DispatcherAssumption ==
    /\ Front \notin Backends /\ Front \in Answering /\ Answering \subseteq Folders
    /\ {None, Unknown} \cap Folders = {} /\ Listed # Unknown /\ None # Unknown
    /\ DOMAIN Route = Paths
    /\ MaxRequests \in Nat /\ MaxRestarts \in Nat

(* DataHandler.dispatch: UNKNOWN falls to the first of the list; a route   *)
(* without a name chooses nothing.                                         *)
Choice(p) == IF Route[p] = Unknown THEN Listed ELSE Route[p]

Names == (Folders \cup {Choice(p) : p \in Paths}) \ {None}

(* Session ids are made in order; each request makes at most two. *)
Ids == 1..(2 * MaxRequests)
NoId == 0

VARIABLES
    phase,      \* of the process: create, register, start, up, down
    starting,   \* honeypots still to start
    registry,   \* HoneypotRegistry
    listening,
    pin,        \* the dispatcher's _session_map
    jar,        \* jar[v]: the visitor's two cookies
    conn,       \* conn[c]: a connection with its request, handler and response
    lastId,
    logins,     \* logins[i]: login events with session id i
    entries,    \* the dispatcher's login events, with the name they carry
    commands,   \* the dispatcher's command events: log_data drops the name
    fallbacks,  \* the events that backends log for the dispatcher's sessions
    requests,   \* session ids of the events logged by the listeners themselves
    silent,     \* history: ids the dispatcher made without logging a login
    cut,        \* history: sessions answered when the process ended, before the login
    habits,     \* history: did the visitor send requests together, lose a cookie
    sends, restarts

process == <<phase, starting, registry, listening>>
log == <<logins, entries, commands, requests, fallbacks>>
history == <<silent, cut, habits, sends, restarts>>
vars == <<process, pin, jar, conn, lastId, log, history>>

(* What Flask's cookie holds: h_session and dispatcher_logged_login. *)
NoFlask == [id |-> NoId, logged |-> FALSE]
Idle == [at |-> "idle", v |-> None, to |-> None, path |-> None, sid |-> NoId, set |-> FALSE,
         flask |-> NoFlask, modified |-> FALSE, by |-> None]

Init ==
    /\ phase = "create" /\ starting = {} /\ registry = {} /\ listening = {}
    /\ pin = [i \in Ids |-> None]
    /\ jar = [v \in Visitors |-> [sid |-> NoId, flask |-> NoFlask]]
    /\ conn = [c \in Conns |-> Idle]
    /\ lastId = NoId
    /\ logins = [i \in Ids |-> 0] /\ entries = {} /\ commands = {}
    /\ requests = {} /\ fallbacks = {}
    /\ silent = {} /\ cut = {} /\ habits = [v \in Visitors |-> {}]
    /\ sends = 0 /\ restarts = 0

-----------------------------------------------------------------------------
(* _start_components in dispatcher mode.  A folder whose config cannot be  *)
(* read or whose honeypot cannot be created is only logged.                *)

CreateHoneypots ==
    /\ phase = "create" /\ phase' = "register"
    /\ starting' \in SUBSET Folders
    /\ UNCHANGED <<registry, listening>>

(* All honeypots are registered before any of them listens. *)
RegisterHoneypots ==
    /\ phase = "register" /\ phase' = "start"
    /\ registry' = starting
    /\ UNCHANGED <<starting, listening>>

(* A port that is taken: the honeypot stays in the registry. *)
StartBackend(b) ==
    /\ phase = "start" /\ b \in starting \ {Front}
    /\ starting' = starting \ {b}
    /\ listening' \in {listening, listening \cup ({b} \cap Answering)}
    /\ UNCHANGED <<phase, registry>>

(* The dispatcher is started last; its failure ends the process (Stop). *)
StartFront ==
    /\ phase = "start" /\ starting \subseteq {Front}
    /\ phase' = "up"
    /\ starting' = {} /\ listening' = listening \cup starting
    /\ UNCHANGED registry

StartUp ==
    /\ CreateHoneypots \/ RegisterHoneypots \/ StartFront \/ \E b \in Backends : StartBackend(b)
    /\ UNCHANGED <<pin, jar, conn, lastId, log, history>>

(* STOP_HONEYPOT, a dispatcher that cannot start, or a crash; requests     *)
(* under way end without an answer.                                        *)
Stop ==
    /\ phase \in {"start", "up"}
    /\ phase' = "down" /\ listening' = {}
    /\ pin' = [i \in Ids |-> None]
    /\ conn' = [c \in Conns |-> Idle]
    /\ starting' = {} /\ registry' = {}
    /\ cut' = cut \cup {conn[c].sid : c \in {c \in Conns : conn[c].at = "forwarded"}}
    /\ UNCHANGED <<jar, lastId, log, silent, habits, sends, restarts>>

Restart ==
    /\ phase = "down" /\ restarts < MaxRestarts
    /\ phase' = "create"
    /\ restarts' = restarts + 1
    /\ starting' = {} /\ registry' = {} /\ listening' = {}
    /\ UNCHANGED <<pin, jar, conn, lastId, log, silent, cut, habits, sends>>

-----------------------------------------------------------------------------
(* Visitors. *)

Send(c, v, to, p) ==
    /\ conn[c].at = "idle" /\ to \in listening /\ sends < MaxRequests
    /\ sends' = sends + 1
    /\ conn' = [conn EXCEPT ![c] = [Idle EXCEPT !.at = "sent", !.v = v, !.to = to, !.path = p,
                                    !.sid = jar[v].sid, !.flask = jar[v].flask]]
    /\ habits' = [habits EXCEPT ![v] = @ \cup {"together" : d \in {d \in Conns : conn[d].v = v}}]
    /\ UNCHANGED <<process, pin, jar, lastId, log, silent, cut, restarts>>

(* The response sets the cookies it changed. *)
Receive(c) ==
    /\ conn[c].at = "response"
    /\ jar' = [jar EXCEPT ![conn[c].v] =
                  [sid   |-> IF conn[c].set THEN conn[c].sid ELSE @.sid,
                   flask |-> IF conn[c].modified THEN conn[c].flask ELSE @.flask]]
    /\ conn' = [conn EXCEPT ![c] = Idle]
    /\ UNCHANGED <<process, pin, lastId, log, history>>

(* The connection breaks; the handler has run or will not. *)
Disconnect(c) ==
    /\ conn[c].at \in {"sent", "response"}
    /\ conn' = [conn EXCEPT ![c] = Idle]
    /\ UNCHANGED <<process, pin, jar, lastId, log, history>>

(* A visitor forgets hp_session and keeps Flask's cookie. *)
LoseCookie(v) ==
    /\ jar[v].sid # NoId
    /\ jar' = [jar EXCEPT ![v].sid = NoId]
    /\ habits' = [habits EXCEPT ![v] = @ \cup {"loses"}]
    /\ UNCHANGED <<process, pin, conn, lastId, log, silent, cut, sends, restarts>>

-----------------------------------------------------------------------------
(* A listener. *)

Moves(c, from, to) == conn[c].at = from /\ conn' = [conn EXCEPT ![c] = to]

InService == {"session", "routing", "forwarded"}
Busy(l) == \E c \in Conns : conn[c].to = l /\ conn[c].at \in InService

(* The request's cookie of Flask's has session i; a new one will be set.   *)
WithFlaskSession(k, i) ==
    [k EXCEPT !.at = "session", !.modified = (k.flask.id = NoId), !.flask = [@ EXCEPT !.id = i]]

\* Mutant: a threaded server.
HandleSessionAtOnce(c) ==
    LET k == conn[c]
        new == k.flask.id = NoId
    IN  /\ Moves(c, "sent", WithFlaskSession(k, IF new THEN lastId + 1 ELSE k.flask.id))
        /\ lastId' = IF new THEN lastId + 1 ELSE lastId
        /\ logins' = IF new /\ k.to # Front THEN [logins EXCEPT ![lastId + 1] = @ + 1] ELSE logins
        /\ silent' = IF new /\ k.to = Front THEN silent \cup {lastId + 1} ELSE silent
        /\ UNCHANGED <<process, pin, jar, entries, commands, requests, fallbacks, cut, habits,
                       sends, restarts>>

(* handle_session: a visitor without h_session gets one, and logs in; at   *)
(* the dispatcher the login is left for later.                             *)
HandleSession(c) ==
    LET k == conn[c]
        new == k.flask.id = NoId
    IN  /\ ~Busy(k.to)
        /\ Moves(c, "sent", WithFlaskSession(k, IF new THEN lastId + 1 ELSE k.flask.id))
        /\ lastId' = IF new THEN lastId + 1 ELSE lastId
        /\ logins' = IF new /\ k.to # Front THEN [logins EXCEPT ![lastId + 1] = @ + 1] ELSE logins
        /\ silent' = IF new /\ k.to = Front THEN silent \cup {lastId + 1} ELSE silent
        /\ UNCHANGED <<process, pin, jar, entries, commands, requests, fallbacks, cut, habits,
                       sends, restarts>>

(* catch_all of a listener itself: a request of no accepted type is not    *)
(* found, one whose action raises is an internal error; neither is logged. *)
Refuse(c) ==
    /\ conn[c].to # Front
    /\ Moves(c, "session", [conn[c] EXCEPT !.at = "response"])
    /\ UNCHANGED <<process, pin, jar, lastId, log, history>>

Answer(c) ==
    /\ conn[c].to # Front
    /\ Moves(c, "session", [conn[c] EXCEPT !.at = "response", !.by = conn[c].to])
    /\ requests' = requests \cup {conn[c].flask.id}
    /\ UNCHANGED <<process, pin, jar, lastId, logins, entries, commands, fallbacks, history>>

-----------------------------------------------------------------------------
(* The dispatcher. *)

(* The request belongs to session i of the dispatcher's, a new one if it   *)
(* brought none.                                                           *)
WithSession(k, i) == [k EXCEPT !.at = "routing", !.set = (k.sid = NoId), !.sid = i]

(* _extract_session_id: a session of the dispatcher's own, from hp_session  *)
(* or new; the cookie is set by a response that succeeds.                  *)
ExtractSessionId(c) ==
    LET k == conn[c]
        new == k.sid = NoId
    IN  /\ k.to = Front
        /\ Moves(c, "session", WithSession(k, IF new THEN lastId + 1 ELSE k.sid))
        /\ lastId' = IF new THEN lastId + 1 ELSE lastId
        /\ UNCHANGED <<process, pin, jar, log, history>>

(* Who may answer for a name, and whether it may fail: a name that is not  *)
(* registered stands for any that is, and most classes have no             *)
(* handle_request.                                                         *)
Candidates(name) == IF name \in registry THEN {name} ELSE registry
Answers(name) == Candidates(name) \cap Answering
Raises(name) == ~ (Candidates(name) \subseteq Answering)

(* handle_request of a backend that has no output, or whose action raises, *)
(* answers with a page of its own, and logs that for the session.          *)
Fallback(c) == [v |-> conn[c].v, sid |-> conn[c].sid]

(* forward_to_backend.  dispatch() catches what the first call raises and  *)
(* forwards to the pin again, with another random choice.                  *)
Forward(c, name) ==
    \/ /\ \E b \in Answers(name) :
             Moves(c, "routing", [conn[c] EXCEPT !.at = "forwarded", !.by = b])
       /\ fallbacks' \in {fallbacks, fallbacks \cup {Fallback(c)}}
    \/ /\ Raises(name)
       /\ Moves(c, "routing", [conn[c] EXCEPT !.at = "response", !.set = FALSE])
       /\ UNCHANGED fallbacks

\* Mutant: the first choice is the pin for good.
DispatchChosenOnce(c, name) ==
    /\ name # None
    /\ pin' = [pin EXCEPT ![conn[c].sid] = IF @ = None THEN name ELSE @]
    /\ Forward(c, name)

(* What the route chooses is the session's pin from now on. *)
DispatchChosen(c, name) ==
    /\ name # None
    /\ pin' = [pin EXCEPT ![conn[c].sid] = name]
    /\ Forward(c, name)

DispatchPinned(c) ==
    /\ pin[conn[c].sid] # None
    /\ Forward(c, pin[conn[c].sid])
    /\ UNCHANGED pin

\* Mutant: chance is tried before the pin.
DispatchRandomAlways(c) ==
    \E name \in registry :
       /\ pin' = [pin EXCEPT ![conn[c].sid] = name]
       /\ Forward(c, name)

DispatchRandom(c) ==
    /\ pin[conn[c].sid] = None
    /\ \E name \in registry :
          /\ pin' = [pin EXCEPT ![conn[c].sid] = name]
          /\ Forward(c, name)

Dispatch(c) ==
    /\ conn[c].at = "routing"
    /\ LET name == Choice(conn[c].path)
       IN  \/ DispatchChosen(c, name)
           \/ name = None /\ (DispatchPinned(c) \/ DispatchRandom(c))
    /\ UNCHANGED <<process, jar, lastId, logins, entries, commands, requests, history>>

(* The login is logged once per Flask session, which remembers it, with    *)
(* the session's pin for a name.                                           *)
LogsLogin(k) == ~k.flask.logged

WithLogin(k) ==
    [k EXCEPT !.at = "response", !.flask = [@ EXCEPT !.logged = TRUE],
              !.modified = @ \/ LogsLogin(k)]

LogDispatch(c) ==
    LET k == conn[c]
    IN  /\ Moves(c, "forwarded", WithLogin(k))
        /\ logins' = IF LogsLogin(k) THEN [logins EXCEPT ![k.sid] = @ + 1] ELSE logins
        /\ entries' = IF LogsLogin(k)
                      THEN entries \cup {[sid |-> k.sid, name |-> pin[k.sid], by |-> k.by,
                                          known |-> pin[k.sid] \in registry]}
                      ELSE entries
        /\ commands' = commands \cup {[v |-> k.v, sid |-> k.sid]}
        /\ UNCHANGED <<process, pin, jar, lastId, requests, fallbacks, history>>

(* A method that no route of Flask's takes. *)
RefuseMethod(c) ==
    /\ conn[c].to = Front
    /\ Moves(c, "session", [conn[c] EXCEPT !.at = "response"])
    /\ UNCHANGED <<process, pin, jar, lastId, log, history>>

-----------------------------------------------------------------------------
Serve(c) ==
    \/ HandleSession(c) \/ Refuse(c) \/ Answer(c)
    \/ RefuseMethod(c) \/ ExtractSessionId(c) \/ Dispatch(c) \/ LogDispatch(c)

Next ==
    \/ StartUp \/ Stop \/ Restart
    \/ \E c \in Conns, v \in Visitors, to \in Folders, p \in Paths : Send(c, v, to, p)
    \/ \E c \in Conns : Receive(c) \/ Disconnect(c) \/ Serve(c)
    \/ \E v \in Visitors : LoseCookie(v)

Spec == Init /\ [][Next]_vars

-----------------------------------------------------------------------------
Cookie == [id : Ids \cup {NoId}, logged : BOOLEAN]

Request == [at : {"idle", "sent", "response"} \cup InService,
            v : Visitors \cup {None}, to : Folders \cup {None}, path : Paths \cup {None},
            sid : Ids \cup {NoId}, set : BOOLEAN, flask : Cookie, modified : BOOLEAN,
            by : Folders \cup {None}]

(* Everything is of its type, and a listener serves one request at a time  *)
(* (http_honeypot.py start).                                               *)
TypeOK ==
    /\ phase \in {"create", "register", "start", "up", "down"}
    /\ starting \subseteq Folders /\ registry \subseteq Folders
    /\ listening \subseteq Answering \cap registry
    /\ pin \in [Ids -> Names \cup {None}]
    /\ jar \in [Visitors -> [sid : Ids \cup {NoId}, flask : Cookie]]
    /\ conn \in [Conns -> Request]
    /\ \A c, d \in Conns :
           conn[c].at \in InService /\ conn[d].at \in InService /\ conn[c].to = conn[d].to => c = d
    /\ lastId \in Ids \cup {NoId}
    /\ logins \in [Ids -> Nat]
    /\ requests \subseteq Ids /\ silent \subseteq Ids /\ cut \subseteq Ids
    /\ commands \cup fallbacks \subseteq [v : Visitors, sid : Ids]
    /\ habits \in [Visitors -> SUBSET {"together", "loses"}]
    /\ sends \in 0..MaxRequests /\ restarts \in 0..MaxRestarts

(* The login event of a session names a backend, and a registered backend  *)
(* named there is the one whose reply the visitor got.                     *)
LoggedAsAnswered ==
    \A e \in entries : e.name # None /\ (e.known => e.by = e.name)

(* Sessions and login events go together, although cookies are set by      *)
(* responses that may be lost or come late: nothing is logged for a        *)
(* session without a login, and a session logs in once, as long as its     *)
(* visitor keeps its cookies and waits for its answers.  Sessions that the *)
(* dispatcher made for Flask never log in, wherever the visitor goes next. *)
LoginFirst ==
    /\ \A e \in commands : "loses" \notin habits[e.v] => logins[e.sid] > 0
    /\ \A i \in requests : logins[i] > 0 \/ i \in silent

LoginOnce ==
    \A e \in commands : habits[e.v] = {} => logins[e.sid] = 1

(* What a backend logs for a session of the dispatcher's may come before   *)
(* the session's login, which is then on its way, unless the process ends. *)
LoginFollows ==
    \A e \in fallbacks : "loses" \notin habits[e.v] =>
        \/ logins[e.sid] > 0 \/ e.sid \in cut
        \/ \E c \in Conns : conn[c].at = "forwarded" /\ Fallback(c) = e

(* The dispatcher's log tells which honeypot a session met first, and the  *)
(* logins of the sessions it tells of are in it.                           *)
LogTruthful == LoggedAsAnswered /\ LoginFirst /\ LoginFollows /\ LoginOnce

(* A session moves to another backend only where a route, or the list,     *)
(* sends it, or when the process has lost its pins: no random choice, and  *)
(* no request that fails, moves it.                                        *)
PinKept ==
    [][\A i \in Ids :
          pin[i] \notin {None, pin'[i]} =>
              phase' = "down" \/ pin'[i] \in {Choice(p) : p \in Paths} \ {None}]_vars
=============================================================================
