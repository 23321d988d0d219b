----------------------------- MODULE SshSession -----------------------------
(***************************************************************************)
(* honeypots/ssh_honeypot.py: one connection.  Its main thread             *)
(* (_handle_client), Paramiko's transport thread, which calls the methods  *)
(* of SSHServerInterface, and one thread for each shell and each SFTP      *)
(* channel share one HoneypotSession, a dictionary without a lock, and     *)
(* append to one log.  Connections share nothing that is modelled here.    *)
(*                                                                         *)
(* Threads change places where Python 3.12 lets them, at calls: next_seq   *)
(* makes none between its accesses and is one step.                        *)
(*                                                                         *)
(* Paramiko is external: it refuses channels before the authentication,    *)
(* and its transport thread reads the next message only when the handler   *)
(* of the last one has returned.  The data of a channel come the same way, *)
(* so that handle_scp_upload, which waits for data inside a handler, waits *)
(* for its ten seconds in vain.                                            *)
(***************************************************************************)
EXTENDS Naturals, Sequences, FiniteSets

CONSTANTS
    Channels,  \* the channels a client opens, by number
    Kinds,     \* Kinds[c]: what the client may request on channel c
    FakeFS,    \* a fake file system is configured: connect returns a session
    MaxAuths,  \* bound: passwords tried on the connection
    MaxJobs,   \* bound: lines typed in a shell, files sent over SFTP
    Main, Transport,  \* the two threads that every connection has
    Builtin,          \* the label of commands that no handler is asked for
    None

Threads == {Main, Transport} \cup Channels

ASSUME SSAssumption ==
    /\ Channels \subseteq Nat
    /\ Kinds \in [Channels -> SUBSET {"shell", "exec", "scp", "sftp"}]
    /\ FakeFS \in BOOLEAN
    /\ MaxAuths \in Nat
    /\ MaxJobs \in Nat
    /\ Main # Transport /\ {Main, Transport} \cap Channels = {}
    /\ None \notin Threads

VARIABLES
    session,  \* the HoneypotSession: session_id, _seq, _commands, _auth_*, label
    log,      \* the events written for the connection
    pc,       \* pc[t]: where thread t is
    draft,    \* draft[t]: the event t is making, with its other locals
    jobs,     \* jobs[t]: requests, lines or files that t has taken up
    active,   \* transport.is_active()
    authed,   \* Paramiko: AUTH_SUCCESSFUL was returned
    kind,     \* kind[c]: what was requested on channel c
    open,     \* open[c]
    accepts,  \* channels that transport.accept() has yet to return
    serving,  \* the channel the main thread waits for
    pending,  \* pending[c]: a line is typed, or a file is open, on channel c
    seen      \* history: see Init

chans == <<kind, open, accepts, serving, pending>>
vars == <<session, log, pc, draft, jobs, active, authed, chans, seen>>

NoDraft == [type |-> None, op |-> None, sid |-> None, seq |-> 0, label |-> None,
            commands |-> 0, attempts |-> 0, ok |-> FALSE]

Init ==
    /\ session = [sid |-> "own", seq |-> 0, commands |-> 0, attempts |-> 0, ok |-> FALSE,
                  label |-> None]
    /\ log = {}
    /\ pc = [t \in Threads |-> IF t = Main THEN "start" ELSE "new"]
    /\ draft = [t \in Threads |-> NoDraft]
    /\ jobs = [t \in Threads |-> 0]
    /\ active = FALSE
    /\ authed = FALSE
    /\ kind = [c \in Channels |-> None]
    /\ open = [c \in Channels |-> FALSE]
    /\ accepts = <<>>
    /\ serving = None
    /\ pending = [c \in Channels |-> FALSE]
    /\ seen = [answered |-> {},       \* commands and uploads whose answer was sent
               named    |-> {},       \* commands whose handler set a label
               crossed  |-> {},       \* whose number was drawn while the session was replaced
               foreign  |-> {},       \* whose session id was read meanwhile
               together |-> FALSE,    \* two commands were worked on at a time
               late     |-> FALSE,    \* the transport was closed while a thread was busy
               after    |-> FALSE]    \* an event was written after session_end

Goes(t, from, to) == pc[t] = from /\ pc' = [pc EXCEPT ![t] = to]

\* Thread t starts to make an event of its next job; the counters are those of now.
Drafts(t, type, label) ==
    /\ jobs' = [jobs EXCEPT ![t] = @ + 1]
    /\ draft' = [draft EXCEPT ![t] =
                    [NoDraft EXCEPT !.type = type, !.op = <<t, jobs'[t]>>, !.label = label,
                                    !.commands = session.commands]]

-----------------------------------------------------------------------------
(* build_event and write_and_print_event, for every type of event. *)

Replacing == pc[Transport] \in {"update", "own_id", "own_seq"}

(* "session_id": session["session_id"] ... *)
ReadSid(t) ==
    /\ Goes(t, "build", "number")
    /\ draft' = [draft EXCEPT ![t].sid = session.sid]
    /\ seen' = [seen EXCEPT !.foreign = IF Replacing THEN @ \cup {draft[t].op} ELSE @]
    /\ UNCHANGED <<session, log, jobs, active, authed, chans>>

(* ... "seq": next_session_seq(session), a call: threads may change in between. *)
NumberEvent(t) ==
    /\ Goes(t, "number", "write")
    /\ draft' = [draft EXCEPT ![t].seq = session.seq + 1]
    /\ session' = [session EXCEPT !.seq = @ + 1]
    /\ seen' = [seen EXCEPT !.crossed = IF Replacing THEN @ \cup {draft[t].op} ELSE @]
    /\ UNCHANGED <<log, jobs, active, authed, chans>>

(* Where a thread goes on after it has logged. *)
After(type) ==
    CASE type = "session_start" -> "handshake"
      [] type = "error"         -> "accept"
      [] type = "session_end"   -> "done"
      [] type = "auth_attempt"  -> "decide"
      [] OTHER                  -> "answer"

(* write_local_event: a write that fails is not modelled here (see EventLog). *)
(* Of the label only OwnLabel speaks, while the event is still a draft.       *)
WriteEvent(t) ==
    /\ Goes(t, "write", After(draft[t].type))
    /\ log' = log \cup {IF draft[t].type = "command"
                        THEN [draft[t] EXCEPT !.label = None, !.commands = 0] ELSE draft[t]}
    /\ seen' = [seen EXCEPT !.after = @ \/ \E e \in log : e.type = "session_end"]
    /\ UNCHANGED <<session, draft, jobs, active, authed, chans>>

LogEvent(t) == ReadSid(t) \/ NumberEvent(t) \/ WriteEvent(t)

-----------------------------------------------------------------------------
(* The main thread: _handle_client. *)

LogSessionStart ==
    /\ Goes(Main, "start", "build")
    /\ Drafts(Main, "session_start", None)
    /\ UNCHANGED <<session, log, active, authed, chans, seen>>

(* transport.start_server starts the transport thread ... *)
StartServer ==
    /\ pc[Main] = "handshake"
    /\ pc[Transport] = "new"
    /\ pc' = [pc EXCEPT ![Main] = "negotiating", ![Transport] = "negotiating"]
    /\ active' = TRUE
    /\ UNCHANGED <<session, log, draft, jobs, authed, chans, seen>>

(* ... and raises when the transport thread ends; the constructor may raise too. *)
HandshakeFails ==
    /\ \/ Goes(Main, "handshake", "closing")
       \/ pc[Transport] = "dead" /\ Goes(Main, "negotiating", "closing")
    /\ UNCHANGED <<session, log, draft, jobs, active, authed, chans, seen>>

(* Negotiated: the fingerprint is logged, as an event of type "error". *)
LogFingerprint ==
    /\ pc[Transport] \notin {"negotiating", "dead"}
    /\ Goes(Main, "negotiating", "build")
    /\ Drafts(Main, "error", None)
    /\ UNCHANGED <<session, log, active, authed, chans, seen>>

(* while transport.is_active() and (time.time() - start_ts < 60): when the 60 *)
(* seconds are over is left open.                                             *)
AcceptChannel ==
    /\ active
    /\ accepts # <<>>
    /\ Goes(Main, "accept", "waiting")
    /\ serving' = Head(accepts)
    /\ accepts' = Tail(accepts)
    /\ UNCHANGED <<session, log, draft, jobs, active, authed, kind, open, pending, seen>>

\* Mutant: the channel is not forgotten.
ChannelStillServed ==
    /\ pc[Main] = "waiting"
    /\ ~open[serving]
    /\ pc' = [pc EXCEPT ![Main] = "accept"]
    /\ UNCHANGED <<session, log, draft, jobs, active, authed, chans, seen>>

\* Mutant: the thread of the channel is waited for, which only some channels have.
ChannelThreadEnded ==
    /\ pc[Main] = "waiting"
    /\ pc[serving] = "done"
    /\ pc' = [pc EXCEPT ![Main] = "accept"]
    /\ serving' = None
    /\ UNCHANGED <<session, log, draft, jobs, active, authed, kind, open, accepts, pending, seen>>

(* channel.event.wait(), without a timeout: until the channel is closed. *)
ChannelClosed ==
    /\ pc[Main] = "waiting"
    /\ ~open[serving]
    /\ pc' = [pc EXCEPT ![Main] = "accept"]
    /\ serving' = None
    /\ UNCHANGED <<session, log, draft, jobs, active, authed, kind, open, accepts, pending, seen>>

LeaveLoop ==
    /\ Goes(Main, "accept", "closing")
    /\ UNCHANGED <<session, log, draft, jobs, active, authed, chans, seen>>

Busy(t) ==
    \/ pc[t] \notin {"new", "negotiating", "idle", "dead", "done"}
    \/ t \in Channels /\ pending[t]

EndOfSession ==
    [NoDraft EXCEPT !.type = "session_end", !.op = <<Main, jobs'[Main]>>,
                    !.commands = session.commands, !.attempts = session.attempts,
                    !.ok = session.ok]

\* Mutant: the session is ended without closing the transport.
LogEndOnly ==
    /\ Goes(Main, "closing", "build")
    /\ seen' = [seen EXCEPT !.late = \E t \in Threads \ {Main} : Busy(t)]
    /\ jobs' = [jobs EXCEPT ![Main] = @ + 1]
    /\ draft' = [draft EXCEPT ![Main] = EndOfSession]
    /\ UNCHANGED <<session, log, active, authed, chans>>

(* finally: transport.close(), which waits for no thread, and log_session_end *)
(* with the counters of the session.                                          *)
LogSessionEnd ==
    /\ Goes(Main, "closing", "build")
    /\ active' = FALSE
    /\ open' = [c \in Channels |-> FALSE]
    /\ seen' = [seen EXCEPT !.late = \E t \in Threads \ {Main} : Busy(t)]
    /\ jobs' = [jobs EXCEPT ![Main] = @ + 1]
    /\ draft' = [draft EXCEPT ![Main] = EndOfSession]
    /\ UNCHANGED <<session, log, authed, kind, accepts, serving, pending>>

HandleClient ==
    \/ LogSessionStart
    \/ StartServer
    \/ HandshakeFails
    \/ LogFingerprint
    \/ AcceptChannel
    \/ ChannelClosed
    \/ LeaveLoop
    \/ LogSessionEnd
    \/ LogEvent(Main)

-----------------------------------------------------------------------------
(* The transport thread: check_auth_password, and what Paramiko does. *)

Negotiate ==
    /\ Goes(Transport, "negotiating", "idle")
    /\ UNCHANGED <<session, log, draft, jobs, active, authed, chans, seen>>

Dies ==
    /\ pc[Transport] \in {"negotiating", "idle"}
    /\ pc' = [pc EXCEPT ![Transport] = "dead"]
    /\ active' = FALSE
    /\ open' = [c \in Channels |-> FALSE]
    /\ UNCHANGED <<session, log, draft, jobs, authed, kind, accepts, serving, pending, seen>>

(* The transport was closed. *)
TransportEnds == ~active /\ Dies

(* The client is gone, or something raises, such as the KeyError of            *)
(* PasswordManager: the thread ends and closes all channels.                   *)
TransportRaises == active /\ Dies

\* The next message of the client is handed to a handler.
Receives(to) == active /\ Goes(Transport, "idle", to)

(* attempt() accepts or rejects (PasswordManager); log_auth_attempt counts. *)
AuthPassword ==
    /\ ~authed
    /\ session.attempts < MaxAuths
    /\ Receives("build")
    /\ \E accepted \in BOOLEAN :
          /\ jobs' = [jobs EXCEPT ![Transport] = @ + 1]
          /\ draft' = [draft EXCEPT ![Transport] =
                          [NoDraft EXCEPT !.type = "auth_attempt",
                                          !.op = <<Transport, jobs'[Transport]>>,
                                          !.ok = accepted]]
          /\ session' = [session EXCEPT !.attempts = @ + 1, !.ok = @ \/ accepted]
    /\ UNCHANGED <<log, active, authed, chans, seen>>

Reject ==
    /\ ~draft[Transport].ok
    /\ Goes(Transport, "decide", "idle")
    /\ UNCHANGED <<session, log, draft, jobs, active, authed, chans, seen>>

(* action.connect raised: it is only warned about. *)
AcceptWithoutBackend ==
    /\ draft[Transport].ok
    /\ Goes(Transport, "decide", "idle")
    /\ authed' = TRUE
    /\ UNCHANGED <<session, log, draft, jobs, active, chans, seen>>

(* sid = ..., _seq = self.session.get("_seq", 0) *)
SaveSeq ==
    /\ draft[Transport].ok
    /\ Goes(Transport, "decide", "update")
    /\ draft' = [draft EXCEPT ![Transport].seq = session.seq]
    /\ UNCHANGED <<session, log, jobs, active, authed, chans, seen>>

(* self.session.update(sess): a HoneypotSession of its own, or {}. *)
UpdateSession ==
    /\ Goes(Transport, "update", "own_id")
    /\ session' = IF FakeFS THEN [session EXCEPT !.sid = "backend", !.seq = 0] ELSE session
    /\ UNCHANGED <<log, draft, jobs, active, authed, chans, seen>>

RestoreSid ==
    /\ Goes(Transport, "own_id", "own_seq")
    /\ session' = [session EXCEPT !.sid = "own"]
    /\ UNCHANGED <<log, draft, jobs, active, authed, chans, seen>>

\* Mutant: _seq is not restored.
AcceptOnly ==
    /\ Goes(Transport, "own_seq", "idle")
    /\ authed' = TRUE
    /\ UNCHANGED <<session, log, draft, jobs, active, chans, seen>>

RestoreSeq ==
    /\ Goes(Transport, "own_seq", "idle")
    /\ session' = [session EXCEPT !.seq = draft[Transport].seq]
    /\ authed' = TRUE
    /\ UNCHANGED <<log, draft, jobs, active, chans, seen>>

Authenticate == Reject \/ AcceptWithoutBackend \/ SaveSeq \/ UpdateSession \/ RestoreSid \/ RestoreSeq

-----------------------------------------------------------------------------
(* Commands, in the transport thread (exec) and in shells. *)

Commanding(t) == pc[t] \in {"reply", "counted"}

(* action.query: most handlers leave in the session how they parsed the      *)
(* command, before the LLM is asked; "clear" is answered without a handler.  *)
TakesCommand(t) ==
    /\ \/ /\ Goes(t, "idle", "reply")
          /\ Drafts(t, "command", None)
          /\ \E labels \in BOOLEAN :
                /\ session' = IF labels THEN [session EXCEPT !.label = draft'[t].op] ELSE session
                /\ seen' = [seen EXCEPT !.together = @ \/ \E u \in Threads \ {t} : Commanding(u),
                                        !.named = IF labels THEN @ \cup {draft'[t].op} ELSE @]
       \/ /\ Goes(t, "idle", "counted")
          /\ Drafts(t, "command", Builtin)
          /\ seen' = [seen EXCEPT !.together = @ \/ \E u \in Threads \ {t} : Commanding(u)]
          /\ UNCHANGED session
    /\ UNCHANGED <<log, active, authed>>

\* Mutant: the label is read, not popped.
GetLabel(t) ==
    /\ Goes(t, "reply", "counted")
    /\ draft' = [draft EXCEPT ![t].label = session.label, ![t].commands = session.commands]
    /\ UNCHANGED <<session, log, jobs, active, authed, chans, seen>>

\* Mutant: the client has its answer before the event is made.
AnswerThenLog(t) ==
    /\ Goes(t, "reply", "counted")
    /\ draft' = [draft EXCEPT ![t].label = session.label, ![t].commands = session.commands]
    /\ session' = [session EXCEPT !.label = None]
    /\ seen' = [seen EXCEPT !.answered = @ \cup {draft[t].op}]
    /\ UNCHANGED <<log, jobs, active, authed, chans>>

(* The reply has come: self.session.pop("_last_parser_action", "unknown"), and *)
(* log_command begins: int(session.get("_commands", 0)) ...  The two touch     *)
(* different entries, and what lies between them is local: one step.           *)
PopLabel(t) ==
    /\ Goes(t, "reply", "counted")
    /\ draft' = [draft EXCEPT ![t].label = session.label, ![t].commands = session.commands]
    /\ session' = [session EXCEPT !.label = None]
    /\ UNCHANGED <<log, jobs, active, authed, chans, seen>>

(* ... + 1, and build_event follows. *)
StoreCommands(t) ==
    /\ Goes(t, "counted", "build")
    /\ session' = [session EXCEPT !.commands = draft[t].commands + 1]
    /\ UNCHANGED <<log, draft, jobs, active, authed, chans, seen>>

(* The output, or the status of an upload, is sent.  A shell ends when its *)
(* channel is closed, as channel.send then raises.                         *)
Answer(t) ==
    /\ Goes(t, "answer", IF t \in Channels /\ kind[t] = "shell" /\ ~open[t] THEN "done" ELSE "idle")
    /\ seen' = [seen EXCEPT !.answered = @ \cup {draft[t].op}, !.named = @ \ {draft[t].op}]
    /\ draft' = [draft EXCEPT ![t] = NoDraft]
    /\ UNCHANGED <<session, log, jobs, active, authed, chans>>

Command(t) == PopLabel(t) \/ StoreCommands(t) \/ Answer(t)

-----------------------------------------------------------------------------
(* Channels. *)

OpenChannel(c) ==
    /\ authed
    /\ kind[c] = None /\ \A d \in Channels : d < c => kind[d] # None
    /\ active /\ pc[Transport] = "idle"
    /\ kind' = [kind EXCEPT ![c] = "session"]
    /\ open' = [open EXCEPT ![c] = TRUE]
    /\ accepts' = Append(accepts, c)
    /\ UNCHANGED <<session, log, pc, draft, jobs, active, authed, serving, pending, seen>>

Requested(c, k) ==
    /\ active
    /\ open[c] /\ kind[c] = "session" /\ k \in Kinds[c]
    /\ kind' = [kind EXCEPT ![c] = k]
    /\ UNCHANGED <<open, accepts, serving, pending>>

(* check_channel_shell_request and the SFTP subsystem start a thread. *)
RequestThread(c) ==
    /\ pc[Transport] = "idle"
    /\ \E k \in {"shell", "sftp"} : Requested(c, k)
    /\ Goes(c, "new", "idle")
    /\ UNCHANGED <<session, log, draft, jobs, active, authed, seen>>

(* check_channel_exec_request *)
RequestExec(c) == Requested(c, "exec") /\ TakesCommand(Transport)

(* "scp -t": handle_scp_upload waits for a header, which the transport thread *)
(* would have to read.                                                        *)
RequestScp(c) ==
    /\ Requested(c, "scp")
    /\ Goes(Transport, "idle", "scp")
    /\ UNCHANGED <<session, log, draft, jobs, active, authed, seen>>

ScpTimeout ==
    /\ Goes(Transport, "scp", "idle")
    /\ UNCHANGED <<session, log, draft, jobs, active, authed, chans, seen>>

(* A line is typed, or a file opened for writing. *)
ReceiveData(c) ==
    /\ active /\ pc[Transport] = "idle"
    /\ open[c] /\ kind[c] \in {"shell", "sftp"}
    /\ ~pending[c] /\ jobs[c] < MaxJobs
    /\ pending' = [pending EXCEPT ![c] = TRUE]
    /\ UNCHANGED <<session, log, pc, draft, jobs, active, authed, kind, open, accepts, serving, seen>>

(* The client closes the channel. *)
CloseChannel(c) ==
    /\ active /\ pc[Transport] = "idle"
    /\ open[c]
    /\ open' = [open EXCEPT ![c] = FALSE]
    /\ UNCHANGED <<session, log, pc, draft, jobs, active, authed, kind, accepts, serving, pending, seen>>

(* handle_shell: what was typed can be read also after the channel was closed. *)
ShellCommand(c) ==
    /\ kind[c] = "shell" /\ pending[c]
    /\ TakesCommand(c)
    /\ pending' = [pending EXCEPT ![c] = FALSE]
    /\ UNCHANGED <<kind, open, accepts, serving>>

(* "exit", which is not logged, or a closed channel, in whatever line. *)
ShellEnds(c) ==
    /\ kind[c] = "shell" /\ (pending[c] \/ ~open[c])
    /\ Goes(c, "idle", "done")
    /\ pending' = [pending EXCEPT ![c] = FALSE]
    /\ open' = [open EXCEPT ![c] = FALSE]
    /\ UNCHANGED <<session, log, draft, jobs, active, authed, kind, accepts, serving, seen>>

(* _LoggingSFTPHandle.close, for the client or at the end of the subsystem.   *)
(* The event is built without log_command: "_commands" does not count it. *)
CloseFile(c) ==
    /\ kind[c] = "sftp" /\ pending[c]
    /\ Goes(c, "idle", "build")
    /\ Drafts(c, "upload", None)
    /\ pending' = [pending EXCEPT ![c] = FALSE]
    /\ UNCHANGED <<session, log, active, authed, kind, open, accepts, serving, seen>>

SftpEnds(c) ==
    /\ kind[c] = "sftp" /\ ~open[c] /\ ~pending[c]
    /\ Goes(c, "idle", "done")
    /\ UNCHANGED <<session, log, draft, jobs, active, authed, chans, seen>>

-----------------------------------------------------------------------------
Client ==
    \/ AuthPassword
    \/ TransportRaises
    \/ \E c \in Channels :
          \/ OpenChannel(c)
          \/ RequestThread(c)
          \/ RequestExec(c)
          \/ RequestScp(c)
          \/ ReceiveData(c)
          \/ CloseChannel(c)
          \/ CloseFile(c)

(* What the transport thread does unasked. *)
TransportThread ==
    \/ Negotiate
    \/ TransportEnds
    \/ Authenticate
    \/ ScpTimeout
    \/ Command(Transport)
    \/ LogEvent(Transport)

ChannelThread(c) ==
    \/ ShellCommand(c)
    \/ ShellEnds(c)
    \/ SftpEnds(c)
    \/ Command(c)
    \/ LogEvent(c)

Next == HandleClient \/ TransportThread \/ Client \/ \E c \in Channels : ChannelThread(c)

\* Threads run, handlers return, 60 seconds pass, and an SFTP thread closes its files
\* when its channel is closed.  Nobody has to send anything, or to hang up.
Fairness ==
    /\ WF_vars(HandleClient)
    /\ WF_vars(TransportThread)
    /\ \A c \in Channels : WF_vars(ChannelThread(c) \/ (CloseFile(c) /\ ~open[c]))

Spec == Init /\ [][Next]_vars /\ Fairness

-----------------------------------------------------------------------------
Labels == {None, Builtin} \cup (Threads \X Nat)
Draft == [type : {None, "session_start", "error", "session_end", "auth_attempt", "command", "upload"},
          op : {None} \cup (Threads \X Nat), sid : {None, "own", "backend"}, seq : Nat,
          label : Labels, commands : Nat, attempts : Nat, ok : BOOLEAN]

\* The type of every variable.
TypeOK ==
    /\ session \in [sid : {"own", "backend"}, seq : Nat, commands : Nat, attempts : Nat,
                    ok : BOOLEAN, label : {None} \cup (Threads \X Nat)]
    /\ log \subseteq Draft
    /\ draft \in [Threads -> Draft]
    /\ jobs \in [Threads -> Nat]
    /\ active \in BOOLEAN /\ authed \in BOOLEAN
    /\ kind \in [Channels -> {None, "session", "shell", "exec", "scp", "sftp"}]
    /\ open \in [Channels -> BOOLEAN] /\ pending \in [Channels -> BOOLEAN]
    /\ accepts \in Seq(Channels)
    /\ serving \in IF pc[Main] = "waiting" THEN Channels ELSE {None}

\* Every event of a session has a number of its own, and no number is left out: once
\* check_auth_password has put the session's own id and number back, the events that are
\* written or about to be have the numbers up to _seq, under the session's own id.  Of
\* this an event that crossed the replacement is out, if its number was drawn meanwhile,
\* or if its id was read meanwhile.  Only the main thread's events can do that.
SeqsComplete ==
    LET numbered == {e \in log : e.op \notin seen.crossed}
        drawn == {t \in Threads : pc[t] = "write" /\ draft[t].op \notin seen.crossed}
    IN  /\ ~Replacing =>
              /\ {e.seq : e \in numbered} \cup {draft[t].seq : t \in drawn} = 1..session.seq
              /\ session.seq = Cardinality(numbered) + Cardinality(drawn)
        /\ \A e \in log : e.sid = "own" \/ e.op \in seen.foreign
        /\ \A op \in seen.crossed \cup seen.foreign : op[1] = Main

Logged(type) == {e \in log : e.type = type}

\* session_end is the last event and tells the truth, that is the number of attempts
\* and of commands in the log and whether one attempt succeeded, unless a thread was
\* still busy when the transport was closed, or, for the commands, two overlapped.
EndIsFinal ==
    \A e \in Logged("session_end") : ~seen.late =>
        /\ ~seen.after
        /\ e.attempts = Cardinality(Logged("auth_attempt"))
        /\ e.ok = \E a \in Logged("auth_attempt") : a.ok
        /\ ~seen.together => e.commands = Cardinality(Logged("command"))

\* Nobody is given the output of a command, or the status of an upload, that is not
\* in the log.
AnswersLogged == \A op \in seen.answered : \E e \in log : e.op = op

\* The label of a command is the one its own handler left, also when handlers before
\* or after it leave none, unless two commands of the session overlapped.
OwnLabel ==
    ~seen.together => \A t \in Threads :
        pc[t] = "write" /\ draft[t].type = "command" /\ draft[t].label # Builtin =>
            draft[t].label = IF draft[t].op \in seen.named THEN draft[t].op ELSE None

\* The log of a session is true: of its end, of what was answered, of the labels.
LogIsTrue == EndIsFinal /\ AnswersLogged /\ OwnLabel

\* When the transport has ended, because the client is gone or for another reason,
\* the session comes to its end for good: the event is logged and no thread goes on.
SessionEnds ==
    <>[](pc[Transport] = "dead" =>
            pc[Main] = "done" /\ \A c \in Channels : pc[c] \in {"new", "done"})
=============================================================================
