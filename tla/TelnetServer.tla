---------------------------- MODULE TelnetServer ----------------------------
(***************************************************************************)
(* honeypots/telnet_honeypot.py: coroutines of one event loop, so that     *)
(* what lies between two awaits is one step.  A session that logged in is  *)
(* kept for the address and taken up by its later connections until it is  *)
(* SESSION_TIMEOUT old.                                                    *)
(***************************************************************************)
EXTENDS Connections

CONSTANTS
    SessionTimeout,
    MaxClock          \* bound: how long time is followed

VARIABLES
    prompts,     \* does the configuration have a login or a password prompt
    sessions,    \* _sessions[a]: the session and the time of its creation
    now,         \* now[c]: the time at which the shell began
    clock

telnetVars == <<prompts, sessions, now, clock>>

ASSUME TelnetAssumption == SessionTimeout \in Nat /\ MaxClock \in Nat

TelnetInit ==
    /\ prompts \in BOOLEAN
    /\ sessions = [a \in Addrs |-> None]
    /\ now = [c \in Clients |-> 0]
    /\ clock = 0

Tick ==
    /\ deployed = "telnet" /\ clock < MaxClock
    /\ clock' = clock + 1
    /\ UNCHANGED <<base, prompts, sessions, now>>

\* _cleanup_sessions.
CleanedUp ==
    [a \in Addrs |-> IF sessions[a] # None /\ clock - sessions[a].created > SessionTimeout
                     THEN None ELSE sessions[a]]

\* The session of connection c is connected, kept, and its login logged.
LogsIn(c, kept, created, attempt, ok) ==
    /\ sessions' = [kept EXCEPT ![conn[c].addr] = [sid |-> c, created |-> created]]
    /\ Logs(LoginEvent(c, c, attempt, ok))

(* shell, to its first await. *)
TelnetReuse(c) ==
    LET kept == CleanedUp[conn[c].addr] IN
    /\ conn[c].at = "queued" /\ kept # None
    /\ Moves(c, "queued", [conn[c] EXCEPT !.at = "ready", !.sid = kept.sid])
    /\ sessions' = CleanedUp
    /\ now' = [now EXCEPT ![c] = clock]
    /\ UNCHANGED <<events, answered, prompts, clock>>

TelnetAsk(c) ==
    /\ conn[c].at = "queued" /\ prompts /\ CleanedUp[conn[c].addr] = None
    /\ Moves(c, "queued", [conn[c] EXCEPT !.at = "login"])
    /\ sessions' = CleanedUp
    /\ now' = [now EXCEPT ![c] = clock]
    /\ UNCHANGED <<events, answered, prompts, clock>>

TelnetAdmit(c) ==
    /\ conn[c].at = "queued" /\ ~prompts /\ CleanedUp[conn[c].addr] = None
    /\ Moves(c, "queued", [conn[c] EXCEPT !.at = "ready", !.sid = c])
    /\ LogsIn(c, CleanedUp, clock, 0, FALSE)
    /\ now' = [now EXCEPT ![c] = clock]
    /\ UNCHANGED <<answered, prompts, clock>>

\* Mutant: the session is kept before it is accepted.
TelnetRejectKept(c) ==
    /\ Arrived(c)
    /\ Moves(c, "login", Answering(Taking(c), "login"))
    /\ sessions' = [sessions EXCEPT ![conn[c].addr] = [sid |-> c, created |-> now[c]]]
    /\ UNCHANGED <<events, answered, prompts, now, clock>>

(* A user name and a password have been read; PasswordManager.tla decides. *)
(* A rejected attempt is answered and not logged.                          *)
TelnetReject(c) ==
    /\ Arrived(c)
    /\ Moves(c, "login", Answering(Taking(c), "login"))
    /\ UNCHANGED <<events, answered, telnetVars>>

TelnetAccept(c) ==
    /\ Arrived(c)
    /\ Moves(c, "login", [Answering(Taking(c), "ready") EXCEPT !.sid = c])
    /\ LogsIn(c, sessions, now[c], conn'[c].n, TRUE)
    /\ UNCHANGED <<answered, prompts, now, clock>>

TelnetCommand(c) ==
    /\ Arrived(c) /\ First(c) # "exit"
    /\ Moves(c, "ready", Answering(Taking(c), "ready"))
    /\ Logs(CommandEvent(c, "command"))
    /\ Answers(c)
    /\ UNCHANGED telnetVars

TelnetExit(c) ==
    /\ Arrived(c) /\ First(c) = "exit"
    /\ Moves(c, "ready", Answering(Taking(c), "closed"))
    /\ Logs(CommandEvent(c, "command"))
    /\ Answers(c)
    /\ UNCHANGED telnetVars

(* The query raises, or answers what is no string: the coroutine ends and  *)
(* leaves the connection as it is ...                                      *)
TelnetFails(c) ==
    /\ Arrived(c) /\ First(c) # "exit"
    /\ Moves(c, "ready", [Taking(c) EXCEPT !.at = "stuck", !.line = None])
    /\ Logs(CommandEvent(c, "command")) \/ UNCHANGED events
    /\ UNCHANGED <<answered, telnetVars>>

(* ... for the library to close. *)
TelnetIdle(c) == Dies(c, "stuck") /\ UNCHANGED telnetVars

TelnetClosed(c) ==
    /\ \E from \in {"login", "ready"} : EndOfFile(c, from)
    /\ UNCHANGED telnetVars

Telnet(c) ==
    \/ TelnetReuse(c) \/ TelnetAsk(c) \/ TelnetAdmit(c)
    \/ TelnetReject(c) \/ TelnetAccept(c)
    \/ TelnetCommand(c) \/ TelnetExit(c) \/ TelnetFails(c) \/ TelnetIdle(c)
    \/ TelnetClosed(c)
=============================================================================
