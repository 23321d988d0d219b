# HoneyMind in TLA+

This directory is a verification development of HoneyMind, an LLM-backed
honeypot: TLA+ modules translated from the Python source, TLC configurations
that model-check them on small instances, and theorems checked by TLAPS for
every value of the constants. `PROJECT.json` maps every definition to the
source lines it stands for. Paths below are relative to the repository.

- [1. The system](#1-the-system)
- [2. The modules and the code](#2-the-modules-and-the-code)
- [3. What the runs check](#3-what-the-runs-check)
- [4. What is proved](#4-what-is-proved)
- [5. Where code and documentation disagree](#5-where-code-and-documentation-disagree)
- [6. What is not modelled, and the plan](#6-what-is-not-modelled-and-the-plan)
- [7. Running the checks](#7-running-the-checks)

## 1. The system

An attacker connects to a honeypot process (SSH is the supported protocol),
guesses passwords, and types commands. A command goes along a chain of
handlers (hard-coded answers, file downloads, fake file system, data set and
cache, LLM). Everything is logged as JSON lines. A writer process turns the log
into a database of indicators (IOCs), sessions and campaigns; an API server
shows it and starts LLM reports about campaigns; an optional processor feeds
Loki and Prometheus.

| Component | Source | State | Operations |
|---|---|---|---|
| Password validator | `src/core/password_manager.py` | learned passwords, blacklist, per-address counters | `attempt` |
| SSH honeypot | `src/honeypots/ssh_honeypot.py`, `base_honeypot.py` | sessions, sequence numbers, shells | auth, shell, exec, SCP, SFTP, session end |
| Response cache | `src/infra/data_handler.py`, `data_store.py` | SQLite table `honeypot_data` | `request`, load at start |
| LLM limiter | `src/llm_providers/llm_utils.py` | visit counts, time the limit was reached | `can_invoke` |
| LLM providers, usage | `llm_utils.py`, `llm_usage.py` | usage and price tables | `invoke_llm`, `record_llm_usage` |
| Handler chain | `chained_data_handler.py`, `chain_honeypot_action.py`, `honeypot_wrapper.py` | none of its own | `query`, `connect` |
| Fake file system | `src/infra/fake_fs*` | SQLite table `fs_nodes`, working directories | `ls`, `cd`, `mkdir`, download, readers |
| Event log | `src/logging_pipeline/*` | one file per day, appended by many threads | `write_local_event` |
| IOC writer | `src/api/ioc_writer.py`, `ioc_store.py` | IOC database, cursors | poll, campaign detection |
| API server | `src/api/ioc_server.py` | `_generating` registry, `reports` table | queries; POST, GET, DELETE of a report |
| Log processor | `monitoring/log_processor/*` | file offsets, Loki buffer, metrics | tail, push, flush |
| Dispatcher, HTTP | `http_honeypot.py`, `base_honeypot.py` | session-to-backend pinning | route, forward |
| Telnet, Redis, SQL, TCP | `src/honeypots/*` | sessions per address, shared key store, prepared statements | per protocol |
| Start-up | `honeypot_main_utils.py`, `honeypot_wrapper.py`, `honeypot_registry.py` | registry of honeypots | create, register, start, stop |

How they interact: one process runs a thread per connection (two or three per
SSH connection: transport, main, shell), and all of them share the validator,
the limiter, the handlers and their SQLite files without a common lock. The
log file joins the honeypot to the writer and the processor, the IOC database
joins the writer to the API server.

What is hard, and what correctness means there:

- *Password validator.* Threads interleave between any two accesses of the
  counter. A rejected password must stay rejected, an acceptance must be
  earned, every attempt must be logged, and the count of an address must
  survive reconnects.
- *Limiter.* Unlocked counter, two clocks, a reset. The limit must hold in
  every window and must not refuse too early.
- *Cache.* Two lookups, an alias, a long LLM call in the middle, an
  append-only table, restarts that append the data file again. Answers must be
  stable, must come from the right source, and must not be asked for twice.
- *Reports.* Requests, a background thread, a child process with a time limit,
  cancellation, and failing writes share one registry. It must drain, a
  finished report must be genuine, and every job must settle.
- *Event log and its readers.* Lines appended by many threads while two readers
  follow the file, each with a crash point between work and cursor: each event
  counts once, or is repeated, but is never skipped.
- *SSH sessions.* Sequence numbers and the end of a session are written by
  three threads.
- *Fake file system.* Sessions share one tree, and each command makes several
  transactions on it. The tree must stay a tree, a directory must be made once,
  and what the tree knows must be answered without the LLM, as far as the
  handlers can (a plain `grep`, and `stat` where dates are numbers, cannot).
- *Log processor.* It follows the same files and the LLM usage table, with a
  buffer that is emptied before it is sent. Events must arrive once and in
  order, as far as failures allow, and ended sessions must be forgotten.
- *Dispatcher.* Two cookies, an in-memory map of pins, and responses that come
  late or never. The login of a session is the only event with a name, and must
  name who answered; a session must log in once, what a backend logs for it must
  be followed by that login, and it must stay where its routes put it.
- *Other servers.* Commands must belong to a login of their session and
  address, what is answered must be logged, and no client may wait for ever.

The hazards, each at its line with the properties that cover it, are listed in
`PROJECT.json`.

## 2. The modules and the code

Each module's variables are the shared and local state of the code, named after
it; each action is one handler or, where threads share state without a lock,
one step between two accesses to it. Variables and conjuncts marked *history*
record what happened so that a property can speak about it; no guard of the
code's behaviour reads them, except for the named bounds. Operators commented
`Mutant:` are plausible wrong versions of the definition that follows them; no
specification uses them. They serve to show that each property can fail.

**`PasswordManager`** (with `DeferredAuth`, `PasswordManagerProofs`,
`MCPasswordManager`). `attempt()` called by `check_auth_password` in the
transport threads. One action per access: the test against `_allowed`, the
length test, the two lookups in `_state` with the creation between them, load
and store of `state["count"] += 1`, decision, `_allowed.add`, `del`, and the
rest of the caller, which logs. The tracking dictionaries are objects in
`records`, because a thread keeps its reference after another thread removed
the entry. A KeyError ends in the place `raised`. Random thresholds and early
success are nondeterministic choices. `DeferredAuth` is the abstract promise:
an attempt is one indivisible acceptance or rejection.

**`InvokeLimiter`** (`LlmCallsProofs`, `MCInvokeLimiter`). `can_invoke`, one
action per access to its two dictionaries. Names such as `LimiterSpec` differ
from those of `ResponseCache`, since one module proves theorems about both.
`data_handler.py:101` always passes the key `"visitor"`, so each dictionary is
one variable. The clock is a counter; `timedelta.seconds` is modulo a day and so
is the model (`Day`).

**`ResponseCache`** (`LlmCallsProofs`, `MCResponseCache`).
`DataHandler.request` of the threads of all sessions over one table. The table
is a sequence, since `store` only INSERTs and `search` fetches the first row;
that the first row is the oldest is how SQLite scans a table without an index on
the key and without deletions. `Norm` is any idempotent function on inputs.
`Fail` is an exception at any point. `Restart` keeps the table and appends the
data file again, as `load_static_content` does. Whether the limiter refuses is
a free choice here. The lookup context (session variables in `search_info`) is
one value.

**`ReportGeneration`** (`ReportGenerationProofs`, `MCReportGeneration`). The
three endpoints, the thread of a POST, and the analysis process.
`_generating[cid]` is `entry`; its lock is held for one statement at a time, so
each hold is one step. Every SQL statement is a step that may fail. One campaign
suffices, because campaigns share only the lock. The child process
(`scripts/analyze_with_llm.py`) is external: it runs until it ends well or
badly, or is killed.

**`EventLog`**. `write_local_event` in the threads of the honeypot. A file is a
sequence of pieces, an event's text (whole or in two parts) and newlines,
because Python's file object makes one `write()` of a line only if it fits its
buffer. A write that raises (it is only warned about) and the end of the
honeypot are threads that take no further step. The module also says what
iterating over a file returns at a position (`LineEnd`, `EventsOf`); half a line
is no event, two texts on one line are none either.

**`IocWriter`** (`LogReadersProofs`, `MCIocWriter`) extends `EventLog`. The loop
of `ioc_writer.run`: poll, open a file at its cursor, one step per line, close
(sessions, cursor), commit, campaign detection. `db` is what is committed, `tx`
what the connection sees. `Restart` can come anywhere and drops `tx`; an
exception has the same effect, since nothing catches it and Docker restarts the
process. Times, confidences and categories are abstracted; gzipped logs are not
modelled.

**`SshSession`** (`SshSessionProofs`, `MCSshSession`). One connection: the main thread
(`_handle_client`), Paramiko's transport thread, which calls
`check_auth_password` and the channel requests, and a thread for each shell and
each SFTP channel, all over one `HoneypotSession` and one log. Python 3.12
switches threads at calls, so `next_seq` is one step, while `_commands` is read
before an `int(...)` and stored after it, and the `update` and restores of
`check_auth_password` are steps of their own. So are, for each event, the read
of the session's id (`ReadSid`), the number that `build_event` draws in its next
line, by a call (`NumberEvent`), and the write (`WriteEvent`); an answer is one
more. An event may thus have an id from before the replacement and a number from
within it, or the other way round. Paramiko
is external: it hands over one message at a time, refuses channels before
authentication, wakes `channel.event.wait()` when a channel closes, and closes
all channels when its thread ends. `SaveSeq` to `RestoreSeq` cover both kinds of
backend session, the fake file system's and the empty dictionary. The password
check is any acceptance or rejection here (`PasswordManager` says which), the
handlers give any answer and may leave a label (`_last_parser_action`).
`handle_scp_upload` waits inside a handler for data that only the transport
thread reads, so it always times out (`ScpTimeout`). Writing to the log
succeeds here; how lines of several threads mix is `EventLog`'s subject.

**`FakeFS`** (`FakeFSProofs`, `MCFakeFS`). The table `fs_nodes` of one SSH
honeypot, the commands of several sessions on it, and the handler chain in front
of and behind them (`FileDownloadHandler`, `FakeFSDataHandler`, the LLM
handler). Each access to the table opens a connection and is a transaction, so
each is a step: `mkdir` asks for the path, asks for the parent and inserts
(`MkdirTarget`, `MkdirParent`, `MkdirInsert` or `IntegrityError`), a reader
visits one path after another. `cd` tries the candidates between `||` in turn.
`Normalize` is `normalize_path`. `Seeded` is the default profile written over
the rows of the file. The date of a row matters to `stat`: `sqlite_utils` makes
a number column for the dates that `scripts/gen_fs.py` writes and a text column
for a file without dates; `Epochs` are the paths to which the file gives a
number, `epoch` all paths that have one by now (`Stamp`). For a number
`_render_stat` raises (`StatRaises`), and the chain goes on to the LLM, as it
does for `grep` without `-r` (`NotHandled`). Contents, sizes and the text of
replies are left out, and so is a database that stays locked longer than SQLite
waits.

**`LogProcessor`** (`LogReadersProofs`, `MCLogProcessor`) extends `EventLog`.
The loop of `main()`: open a source at its offset, one step per line or row, the
enrichment of an event and its push, the offset at the end, the flush after each
poll. A source is a daily file or the table `llm_usage`, whose rows one query
returns. `LokiClient`'s lock is held over the POST, by the main thread or by the
flush thread. Exceptions leave a source where its offset was; `Restart` can come
anywhere and keeps the log, the table and the offsets. Of the enrichment, the
accumulators per session are kept, of the metrics the count of an event and the
set of active sessions; gzipped files are not modelled (they are read again at
every poll). Its operators are named `Processor…`, since its theorems stand in
one module with those of the writer, which reads the same log.

**`Dispatcher`** (`DispatcherProofs`, `MCDispatcher`). `_start_components` in
dispatcher mode with the failures of each honeypot (a backend that does not
start is left out, a dispatcher that does not ends the process), the registry,
the dispatcher's `dispatch` and `forward_to_backend`, the listeners (Werkzeug's
single-threaded server, so one request at a time each), and visitors with two
cookies: `hp_session`, and Flask's, which holds the session itself. A browser
sends both to every port of the host, and Flask's is signed with a constant key,
so that both outlive the process. A request is served in up to four steps, and
its response may be lost or come late. `log_data` drops the name of the backend
from an event with a command (`base_honeypot.py:176-186`), so that only a login
names anybody; the model's login events (`entries`) have a name, its commands do
not. A backend without an answer logs an event under the dispatcher's session id
from within `handle_request` (`http_honeypot.py:283-286`), that is before the
dispatcher logs the login: `Forward` writes it to `fallbacks`. `handle_request`
exists only in the HTTP class (and as a stub in Redis): any other backend
raises, and the visitor gets a 500 without a cookie.

**`LegacyServers`** (`Connections`, `TcpServer`, `RedisServer`, `TelnetServer`,
`PgServer`, `MysqlServer`, `LegacyServersProofs`, `MCLegacyServers`).
`Connections` is what the five have in common: clients that connect, send lines
(several in one segment, if they like), wait for as many answers, and hang up at
any time; the events of `log_login` and `log_data`; the answers. Each server
module adds its own state and one action per step of its handler: the accept
loop of TCP, which serves one client at a time; Redis' threads over one store;
the coroutines of Telnet, where a step lies between two awaits, with `_sessions`
and its timeout; the message loop of PostgreSQL with prepared statements and
portals; MySQL's session class. A line is a kind of request of its protocol,
`half` and `garbled` among them. `LegacyServers` deploys one of the five,
because they share only the log. Of the protocols' bytes little is kept: lines
are whole or half, and a first PostgreSQL message may be `short`, with a length
of eight and no magic number of SSL or GSSENC. The server believes the length it
reads there: of a short one nothing is left for its body, which it waits for
(`PgShort`), to cut the next message in two (`PgCutInTwo`); where a message
starts with a type byte the length is huge, and the whole segment is a startup
message (`PgTakenForStartup`). No timeout ends these waits.

## 3. What the runs check

| Run | Instance | Shows |
|---|---|---|
| `password_race` | two connections of one address and one without, two tries each, threshold 2, one long password; any interleaving | type; the blacklist holds; an acceptance is earned; the reported attempt number is never ahead of the attempts made |
| `password_serial` | three connections, two addresses, threshold 2 or 3, clients wait for answers | every attempt is logged and the count survives reconnects (`AttemptsKept`); the steps implement `DeferredAuth` |
| `password_unlogged` | two connections of one address | violated: an attempt that meets a KeyError is not logged |
| `limiter_threads` | two threads, four calls each, limit 2, period 1, a day of 3, clock to 3 | type; the limit holds in every window unless calls overlapped, and nobody is refused before it was used up (`LimitExact`) |
| `cache_threads` | two threads, three equivalent inputs (the normal form, another spelling, and a third that is an entry of the data file), two replies and the empty one, two requests each, failures, one restart | type; sources of rows; an answered key stays answered with the same text; one answer and one LLM call per key (`AnswersShared`), with the exceptions below |
| `report_races` | two POSTs, one GET, one DELETE, failing writes, one restart | type; the registry never leaks, undisturbed requests see one process and its report (`RegistrySound`); "done" is genuine; the registry drains and every job settles (`JobsSettle`) |
| `ioc_restarts` | two short events and a long one, two sessions of one tool, two days, caps 1 and 2, one restart | type and caps; nothing on a line of its own is skipped, nothing is recorded ahead of the cursors, the tables agree (`CursorExact`); nothing is taken back; events and campaigns arrive (`DataArrives`) |
| `ssh_threads` | one connection, an exec or SCP channel (in the transport thread) next to a shell or SFTP (in a thread of its own), one password, one line or file | type; no number is lost or doubled, but for those drawn during the replacement (`SeqsComplete`); `session_end` is last and its counters agree with the log, answers are logged, labels stay with their commands (`LogIsTrue`); the session ends with its transport (`SessionEnds`) |
| `fs_sessions` | two sessions, two levels of names, a file with numbers for dates, a profile with a file under no directory, every command, two URLs | type; only writes that skip the parent leave nodes or sessions outside a directory (`TreeSound`); a directory is made once; of commands about what the tree knows only a `grep` without `-r`, and a `stat` where the date is a number, reach the LLM (`KnownAnsweredLocally`) |
| `log_polls` | one file, a session of two events, one of them long, a usage row, batches of 2, one exception, one restart, POSTs that fail | type; what is behind the offset was sent, is on its way or was lost with a POST or the process, nothing is repeated without a failure, and order is kept (`Delivery`); a session whose end was read after its starts is not active, and after all its events is forgotten (`EndedIsForgotten`), also when a failure made the processor read them again; every event gets to Loki or is lost on the way |
| `dispatcher_cookies` | one visitor with two connections, the dispatcher and two backends of which one cannot answer, three requests, one restart | type and one request at a time; the login of a session names who answered its first request, sessions log in once before their commands, and what a backend logs for a session is followed by its login (`LogTruthful`); only a route, the list or a stop moves a pinned session |
| `legacy_clients` | one of five servers; two connections, of one address or two; two lines each; one connection with seven lines for PostgreSQL; one tick of Telnet's clock | type; commands follow a login of the same session and address (`LoginBeforeCommands`); what is answered is logged, Redis attempts are not passed over (`LogComplete`); who sends something is answered or closed (`ClientsAnswered`) |

*Bounds and why they are enough.* The races in the code are between two
threads; a third connection adds another address (a different counter), not a
longer race. Two tries on each connection reach the threshold by one thread alone,
by two together, and from either side of an acceptance that deletes the counter.
In the limiter, four calls per thread with limit 2 pass through two epochs
(count, refuse, reset, count, refuse), and a clock of 3 with a day of 3 reaches the
wrap. In the cache, two requests per thread suffice for a miss and a later hit
in every order, the three inputs give an alias (`wide` is in the data file), a
reply stored for another spelling (`spaced`) and one for the normal form, and one
restart repeats the data file. That keys of different normal forms do not mix is
left to the theorem `RowsHaveSources`.
For reports, two POSTs and one DELETE are the smallest set in which a second
job starts while a first is being cancelled; the restart and the
database errors can each strike at every step.

For the writer, two short events and a long one give every way of sharing a
line, of being read in the middle, and of being the second of a session; two
days make a transaction span two files and let a thread write to the file of
the day before.

For a session, a command in the transport thread and one in a shell's thread are
the two sides of every race between commands, and either of them, or an upload,
one side of a race with the transport's end; a second line would repeat the first,
whose handler may or may not leave a label, as may the other channel's. Two
channels that both have a thread race in the same way; the theorems cover them.

In the file system, two sessions are the two sides of every race between the
transactions of two commands; of the five paths, `/tmp/a` and `/tmp/tmp` have a
parent that can be missing, made, or a file, the profile brings `/tmp/tmp`, the
file brings `/a`, and `/tmp` is where downloads go. For the processor, a
batch of 2 with three items is filled once and left partly filled once, an
exception and a restart can strike at every step, and the line of a long event
can be met half written. In the dispatcher, three requests are a first visit, one
that is pinned and one that races with either; the restart comes between any
two. Of the other servers, two lines are a command and its successor on one
connection, two connections share a store or an address, and seven messages
take a PostgreSQL client through SSL refusal, startup, password, and a
statement that is parsed, bound and executed.

*Deadlock* is checked for `ioc_restarts` and `log_polls`, whose processes poll for
ever, and for `fs_sessions`, where connections can always come, and not
elsewhere: the other instances stop when the bounded attackers have
made their attempts, calls or requests.

*Exceptions stated in the properties.* `LimitExact` excepts executions in which
two calls overlapped. `AnswersShared` excepts keys that two requests missed at
the same time, and keys whose first row is the empty text. `RegistrySound` and
`JobsSettle` except, for one process, its report and its settling, cancelled
campaigns, failed writes, restarts, and two POSTs that both found the campaign
unregistered. `LogIsTrue` excepts a thread that was busy when the transport was
closed, whose event may come after the end; its counts and labels also except
commands that overlapped. `SeqsComplete` excepts the numbers of events that drew
them while the session was replaced (`crossed`) and the ids of events that read
them then (`foreign`), and says that only the main thread's events can be either.
`KnownAnsweredLocally` excepts `grep` without `-r`, and `stat` of paths that all
have a number for a date. `TreeSound` excepts paths that a download or the
profile wrote without asking for the parent, and what they cut off.
`Delivery` excepts what a failed POST or the end of the process lost, and
allows one repetition per failure. `LogTruthful` excepts, for the login, visitors
that lose a cookie, and for its number, those that send requests together; and
sessions that the dispatcher made for Flask, which log in nowhere; and, for the
login that follows a backend's event, sessions whose request the end of the
process cut off (`cut`).
`LoginBeforeCommands` excepts MySQL, which logs no login. `ClientsAnswered`
excepts pipelined and partial Redis commands, which are dropped, TCP
clients that are not accepted, and PostgreSQL clients whose first message the
server believes to be longer than it is. Each exception is a history variable set by the
action that causes it, or a part of the state, so a violation of any other
origin is found.

*Fairness* is used in five modules. In `SshSession` the main, transport and
channel threads run, handlers return (the LLM has a timeout), the 60 seconds of
the accept loop pass, and an SFTP thread closes the files of its channel when
the channel is closed; no client has to send anything or to hang up. In
`IocWriter` the loop of the writer takes steps as long as it can, which it does
between finitely many restarts, and the interval between detections passes;
nobody has to log anything. In `ReportGeneration` a POST handler that has passed
its check goes on, a thread that was started runs, and a DELETE handler that was
entered finishes: weak fairness of each, which thread scheduling gives.
`communicate(timeout=300)` always raises in the end, so a waiting thread has an
enabled step even when the process never ends; nothing forces the process to
end, a write to fail, or anybody to send a request. In `LogProcessor` the main
loop and the flush thread run, and a POST ends (`requests.post` has a timeout);
restarts and failures are finitely many, and nobody has to log anything. In
`LegacyServers` the steps of each connection's handler are taken as long as
there are any: threads and the event loop run, and queries return; clients owe
nothing, and Telnet's clock may stand still.

## 4. What is proved

The theorems hold for all numbers of connections, threads, inputs, attempts,
events, requests and restarts, under the `ASSUME` of each module, which TLC
evaluates in every run. Each invariant that a run checks was checked by TLC
first; few are inductive, and what has to be added says why the code works.

`PasswordManagerProofs`:

- `TypeCorrect`: `TypeOK`, in particular that an index held by a thread is
  always the index of a dictionary, since `records` only grows.
- `BlacklistSafe`, `EarnedSafe`, `CountSafe`: the three invariants of
  `password_race`. They are not inductive. The invariant `IInv` adds what a
  thread knows at each place: a thread past the length test holds a password
  that is not long, the blacklist holds only long passwords and `_allowed` no
  long one except configured ones; a thread's dictionary belongs to its own key, and the
  count in every dictionary of a key, and the count a thread has loaded, plus
  one, are at most the counted attempts of that key. The last clause is where
  lost updates matter: they only lower a count. `Invariance` proves `IInv` with
  one step per action.
- `AttemptsAreKept` and `Refines`: the invariant and the refinement of
  `password_serial`, under the hypothesis `SerialClients`, the constant by which
  that run makes clients of one address wait for their answers (without it
  `password_unlogged` refutes them). `SerialInv` says that an attempt is alone
  with its key from the first look at the tracking dictionary on, so that the
  dictionary it holds is the one of the key and what it has loaded is still
  there. For the refinement each of the thirteen steps is an acceptance, a
  rejection or a stutter of `DeferredAuth` (`StepRefines`); the abstract count
  of a key is the concrete one, less one between the increment and the decision
  or the acceptance, and nothing between the acceptance and the `del`.

`LlmCallsProofs`, of the limiter:

- `LimiterTypeCorrect`: `LimiterTypeOK`; with `CountInv`, that a call that adds
  to the count, or takes the time of the limit, finds it there.
- `LimitKept`: `LimitExact`, for any limit, period, day and number of threads.
  The half about early refusals is `CountInv`: the count, and what a call has
  loaded of it, is never above the calls granted so far. The half about windows
  holds until two calls overlap, and needs what a lone call knows (`Window`):
  the calls granted since the last reset are as many as the count says, and all
  earlier ones lie more than a period back (`Epoch`, `CallInv`), so that a call
  and the one granted `Limit` calls later are more than a period apart (`Spaced`);
  `SpacedIsLimited` concludes that no window holds more than `Limit`. That
  `timedelta.seconds` wraps after a day only makes the wait longer (`ModLe`).

`LlmCallsProofs`, of the cache:

- `TypeCorrect`: a refusal of the limiter is never about to be stored.
- `StableAnswers`: `[][...]_vars`. Every step extends the table at its end
  (`NextExtends`), and appending rows does not change which row of a key is the
  first (`FirstKept`).
- `AnsweredNotAsked`: from `StableAnswers` and the invariant that a request
  whose key had an answer at the beginning is never past the first search.
- `RowsHaveSources`: the invariant also says where the text a thread is about
  to store comes from, and that only the data file has rows under a text that
  is not a normal form.
- `AnswersAreShared`: `AnswersShared`. `SharedInv` says that what was told under a
  key is the text of its first row, and that a request on its way to the LLM
  or to the table is the only one of its key, which has no row yet, unless the
  key is excepted; a key stays excepted once it is (`ExceptedKept`).

`ReportGenerationProofs`:

- `TypeCorrect`: `TypeOK`.
- `ReportsAreGenuine`: `DoneIsGenuine`. A job that is about to write "done" has
  read the output of a process that ended with code 0 (`Genuine`), however many
  other jobs and requests there are.
- `RegistryIsSound`: `RegistrySound`. Its first part, that the registry never
  names a job that is gone, is inductive; the second part, about campaigns that
  nobody cancelled and whose writes succeeded, is not. `CalmInv` says of them
  that there is one job at most, that it is the registered one as long as it can
  have a process, and which of the two records it has written already.
  `DeletesCancel` ties the handlers under way to the history.

`FakeFSProofs`:

- `TypeCorrect`: `TypeOK`; also that a mkdir always has the path it works on.
- `TreeStaysSound`, `MkdirSucceedsOnce`, `KnownRarelyAsked`: the three invariants
  of `fs_sessions`, for any sessions, tree, paths, commands and URLs. They rest
  on what no step undoes (`TreeGrows`): a row never goes away, and a directory
  stays one or was written over. So what a session learned of the tree in one
  transaction still holds in the next one, with any number of steps of others
  between them. The invariant `IInv` adds it for each place a command can be:
  between the question for the parent and the insert, the parent is a directory or
  was written over (`ParentSeen`); the paths of a command that knew them all
  are still there, those not visited yet included (`KnownPresent`), so that what is
left for the LLM is the `grep` that no handler takes and the `stat` that raised; where a
  session stands is a directory or was written over. Three lemmas speak about
  the session that takes the step (`ReplyOK`, `MoveOK`, `DropOK`), one about
  all others (`StaysOK`); `HandlersOK` has one step per action.

`LogReadersProofs`, of the writer:

- `TypeCorrect`: `TypeOK`, with the caps of the two lists.
- `DatabaseIsExact`: `CursorExact`, for any events, days, sessions, caps and
  restarts. The argument is one relation, `Sound(files, t, b, cur)`, between the
  files, a database `t`, buffered commands `b` and positions `cur`: every text on
  a line of its own before `cur` is in `t` or in `b` (`Complete`), what is in `t`
  or `b` comes from before `cur` (`Backed`), and the tables agree (`Linked`).
  `IInv` says that it holds twice, of what is committed with its cursors, and of
  the open transaction with the buffer and the position in the file that is
  read (`Reach`). Writers only make files longer (`LogGrows`, `SoundGrows`); a
  text that would stand on its own line is what the reader gets there
  (`OwnLineRead`); a line moves the relation by one event (`SoundReads`) or none
  (`SoundSkips`); the end of a file turns the buffer into rows (`SoundCloses`); a
  commit copies the second relation to the first, a restart the first to the
  second. A list of commands that lost one is full, and stays full (`MergedIs`).
- `NothingTakenBack`: `DatabaseGrows`, an action property: only a commit and a
  detection change what is committed, and a transaction never is behind it.

`LogReadersProofs`, of the processor, whose invariant `ProcessorIInv` is about
the sources as they are being read, when the last line of a file may lack its
newline (`Stood` says that a text has its line to itself as far as the file
goes):

- `ProcessorTypeCorrect`: `ProcessorTypeOK`.
- `DeliveredInOrder`: `Delivery`, for any events, rows, days, batch size, failures
  and restarts. Each text is written once, in the file that its thread opened
  (`WellWritten`), so each item has one place. What stands before the saved
  offset was sent, is in the batch or the buffer, or was lost, and what stands
  before the reader is that or the item in its hand (`Covered`); an item was
  enriched at most once per failure or restart, and once more if the reader is
  past it (`TimesInv`); and what stands before an item that was sent, is being
  posted or is buffered was lost or comes before it in these three, in this order
  (`OrderInv`, with `OrderedConcat` and `OrderedAppend` for the three drains).
- `EndedSessionsAreForgotten`: `EndedIsForgotten`. `SessionInv` says the converse
  for the place of the reader: while a session is active, or remembered, its end
  has not been passed, if its starts, or all its items, stand before the end.
  Abandoning a source and starting over move the reader back, which only makes it
  weaker (`ClosedLess`).

`SshSessionProofs`, for any channels, requests, passwords and lines. Every step is
put into one of ten forms first (`NextForm`), which say what becomes of the
session, the events at hand and the log:

- `TypeCorrect`: `TypeOK`, with the places each kind of thread can be at.
- `SeqsAreComplete`: `SeqsComplete`. The property says nothing while
  `check_auth_password` has replaced the session, so it is not inductive.
  `SeqInv` speaks of the last number drawn outside (`LastSeq`), which during the
  replacement is the one that was saved: the events in the log and those about
  to be written, without `crossed`, have the numbers up to it, each its own, and
  there are as many as numbers. `SidInv` says that an event whose id is the
  backend's read it during the replacement. `CrossInv` says that events of
  either exception are the main thread's, because the transport thread is busy
  with the replacement and, by `AuthInv`, there is no channel before it is over.
- `LogIsTruthful`: `LogIsTrue`. `OpInv` says that each event belongs to an
  operation of its own and that an answer is only given after its event was
  written. `LabelInv` says that, while commands come one at a time, the label in
  the session is the one the waiting command's handler left, or none. `CountInv`
  says that the counters of the session are the events in the log and those at
  hand. `EndInv` says that after `transport.close` no channel is open and, if no
  thread was busy then, none gets busy again, so that the
  counters, which are then those of the log (`TruthAtEnd`), stay so until
  `session_end` is written and afterwards (`AfterEnd`).

`DispatcherProofs`:

- `TypeCorrect`: `TypeOK`, with one request at a time at each listener.
- `LogIsTruthful`: `LogTruthful`, for any visitors, connections, backends, routes,
  lost or late responses and restarts. Every step is put into one of twelve forms
  first (`NextForm`), which say field by field what becomes of a request; the
  parts of `IInv` are then kept by every form. `FollowsStep` is about the events of
  backends: a request that is past one is on its way to the login, has logged
  it, or was cut off. They say what is known of a
  request at each place, in particular that the pin of a forwarded one is who
  answered it (`RequestInv`); that no two visitors have the same session id, and
  none an id that is not made yet (`OwnInv`; `CountInv` says that the ids
  suffice); that Flask's cookie is of a session that logged in or that the
  dispatcher made (`FlaskInv`); that the id which a visitor that keeps its cookies
  brings has logged in (`FirstInv`); and that one that also waits for its answers
  has one request at a time, and a session that has logged in once or does so with
  this request (`OnceInv`).
- `PinsAreKept`: `PinKept`, from `TypeOK` and the forms that touch the pins.

`LegacyServersProofs`:

- `TypeCorrect`: `TypeOK`, for whichever of the five servers is deployed.
- `LoginFirst`, `LogIsComplete`: `LoginBeforeCommands` and `LogComplete`, for any
  clients, addresses, lines and keys. `Fit` says of a connection at each place
  whether it has a session, and that it is owed an answer for every line on its
  way; `LoginInv` that a connection at work has a login in the log, under its
  session and address, and so has every Telnet session; `AnswerInv` that a
  command that is answered, or processed, is in the log; `TriedInv` that of the
  attempts Redis has yet to log there is only the last of a connection. `TcpInv`
  is why the one event of several TCP segments stands for all of them. Each
  server's steps are shown to be instances of a few general ones (`ServerPreserves`),
  and these to keep the invariant (`StepPreserves`).

Only model-checked: the liveness properties (`JobsSettle`, `DataArrives`,
`SessionEnds`, `EventsPushed`, `ClientsAnswered`), which need fairness and are
out of the prover's reach. All invariants and action properties of the passing
runs, and the refinement of `DeferredAuth`, are proved. `EveryAttemptLogged` is
refuted by `password_unlogged`, so there is nothing to prove.

## 5. Where code and documentation disagree

Shown by a run:

- `password_manager.py:37` "Every attempt is logged": two connections of one
  address accepted together meet a KeyError at line 79 or 125, before logging
  (`password_unlogged`).

Met while reading, and visible in the models, without runs of their own:

- `llm_utils.py:436` "limit the number of visits": `==` at line 449 lets two
  threads step over the limit, after which no call is limited.
- `README.md:105` "equivalent whitespace variants reuse the same response": a
  cached empty reply counts as a miss for ever (`data_handler.py:147`).
- `ioc_server.py:312` "Check if cancelled while running": the check at line 314
  takes the registration of the next job for the job's own.
- `docs/logging-readme.md:11` "monotonic session-local `seq`": an accepted
  password replaces and restores `_seq` (`ssh_honeypot.py:150-152`) while the main
  thread draws the number of the fingerprint, which another event has already or
  gets again (`crossed` in `SeqsComplete`). That event may also have the id of the
  backend's session, since `canonical_log_utils.py:121` reads the id before line
  122 draws the number.
- `docs/fakefs_json_guide.md:70-83` lists `stat` among the commands answered
  "without calling the LLM": `_render_stat` (`fake_fs_data_handler.py:650`) calls
  `replace` on a date that is a number, as `scripts/gen_fs.py:611`, `mkdir` and
  `write_file` store it, and the chain catches the AttributeError and asks the LLM.
- `password_manager.py:107`: concurrent attempts of one address lose counts.
- `data_handler.py:101` passes one key for all visitors; `README.md:39` says
  "rate limiting per visitor".
- `llm_utils.py:456`: `.seconds` wraps after a day.
- `README.md:105` "reduces duplicate LLM calls": two sessions that miss at the
  same time both ask.
- `ioc_server.py:350-366`: a DELETE before the process is exposed lets the
  thread write the row again; a restart leaves a row at "generating" for ever.
- `ioc_writer.py:8` "For each new event": an event that is read while it is
  being written is skipped for good, since the cursor goes behind the half line
  (`DataArrives` therefore speaks about whole lines).
- `ssh_honeypot.py:169-268`: SCP uploads with the old protocol always time out
  and hold up the whole connection for ten seconds; the test for them is
  skipped (`test/ssh_honeypot_unit.py:284`).
- `ssh_honeypot.py:767-778`: `session_end` does not wait for shells and may be
  followed by a command that it does not count; an SFTP upload has the event
  type `command` and is never counted.
- `ioc_store.py:13` "the API server reads only": it writes the reports table.
- `commands.py:90` "Ensure parent exists and is a directory": a download of
  another session may replace the parent before the insert. A download of
  `http://host/` from a directory replaces that directory by a file. The default
  profile seeds `/proc/net/route` and `/etc/systemd/resolved.conf` without rows
  for their directories.
- `loki_client.py:36`: a failed POST loses its batch; `enricher.py:96`: events
  without a session accumulate under `unknown` for ever, and events that come
  after the end of a session open its accumulators again; half a line at the end
  of a file is skipped, half a character makes the processor read the file
  again; gzipped files are read again at every poll.
- `docs/dispatcher.md` "Once a backend is chosen for a session, all subsequent
  requests in that session are routed to the same backend": a route that
  matches, or the list of honeypots, chooses again at every request, and
  replaces the pin. A route to UNKNOWN, or none, goes to the first of the list.
- A backend that is not registered stands for a random one, and the event names
  the one that is not registered (`base_honeypot.py:318`). Commands are logged
  without the name that the dispatcher passes (`base_honeypot.py:176-186`). A
  backend's own event comes before the login of its session
  (`http_honeypot.py:283`). A first request that
  fails sets no `hp_session`, and the pin it made is never used or removed.
  A session that Flask got from the dispatcher never logs in at a listener.
- `tcp_honeypot.py:73`: one client's timeout or reset ends the accept loop.
- `redis_honeypot.py:100`: pipelined commands after the first, and commands in
  two segments, are dropped; a last AUTH without a command after it is never
  logged; `KEYS` with a pattern raises when another connection changes the size
  of the dictionary.
- `telnet_honeypot.py:116`: rejected attempts are not logged; a query that
  raises leaves the connection to the library's idle timeout; connections of one
  address share a session.
- `postgresql_honeypot.py:389-417`: a first message of eight bytes that is no SSL
  or GSSENC request is read whole, and the server then waits for four more bytes
  without a timeout; a first message with a type byte swallows what else is in
  its segment. A second SSL request is taken for a startup message;
  queries of prepared statements are not logged. PostgreSQL and MySQL queries
  have the event type `error`; MySQL logs no login.

## 6. What is not modelled, and the plan

Order of the plan. All modules of it but the last are written and have
proofs.

1. `PasswordManager`, refining `DeferredAuth`.
2. `InvokeLimiter`.
3. `ResponseCache`.
4. `ReportGeneration`.
5. `IocWriter` over an event log that threads append to and a process that
   crashes between any two steps.
6. `LogProcessor` with the Loki buffer.
7. `SshSession`: transport, main and channel threads.
8. `FakeFS` behind the handler chain.
9. `Dispatcher`: routing, pinning, cookies, start-up.
10. `LegacyServers`: the TCP, Redis, Telnet, PostgreSQL and MySQL honeypots.
11. To come: campaign merging, and the input normalizer as operators checked
    against a reference definition; the prices of LLM usage.

Proofs planned: those of item 11, that is that merging campaigns loses no session
and that normalizing twice is normalizing once, as far as these need no
induction over strings.

Not modelled: the bytes of the wire protocols (SSH transport is Paramiko's,
MySQL's mysql_mimic's; PostgreSQL messages are kinds), terminal editing, the
listeners' `stop()`, the mode of start-up without a dispatcher (it only starts
listeners), the SQL translation of `sql_data_handler.py`, text extraction (URLs,
hashes, STIX layout), classifiers and scoring tables, the web front end,
one-shot scripts, and the LLM itself, which may answer anything, fail, or answer
nothing.

## 7. Running the checks

    tlc -workers 2 -config PasswordManager_race.cfg MCPasswordManager.tla
    tlapm PasswordManagerProofs.tla

Every `X_y.cfg` belongs to the module `MCX`. All runs finish in at most about
three minutes each on two cores.
