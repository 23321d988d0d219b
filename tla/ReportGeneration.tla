-------------------------- MODULE ReportGeneration --------------------------
(***************************************************************************)
(* The campaign report endpoints of api/ioc_server.py and the reports table *)
(* of api/ioc_store.py.  A POST starts a thread that runs an external       *)
(* analysis process and writes the report; GET shows its state; DELETE      *)
(* cancels.  Requests run in threads of their own and share the dictionary *)
(* _generating (under a lock) and the table (one SQL statement at a time). *)
(*                                                                         *)
(* Campaigns share nothing but the lock, which is held for one statement:  *)
(* the module is about one campaign id, with many requests.                *)
(***************************************************************************)
EXTENDS Naturals, FiniteSets

CONSTANTS
    Jobs,        \* POST requests, each with the thread it may start
    Gets,        \* GET requests
    Cancels,     \* DELETE requests
    None,
    DbErrors,    \* TRUE: a write may fail (sqlite3 "database is locked")
    MaxRestarts  \* bound: restarts of the API server

ASSUME RGAssumption ==
    /\ None \notin Jobs
    /\ None \notin [job : Jobs, proc : Jobs \cup {None}]
    /\ DbErrors \in BOOLEAN
    /\ MaxRestarts \in Nat

VARIABLES
    row,       \* the reports row: its status, and the job whose output it holds
    entry,     \* _generating[cid]: (thread, process), or None
    pc,        \* pc[j]: where POST request j, then the thread it started, is
    process,   \* process[j]: the analysis process started by j's thread
    getting,   \* getting[g]: where GET g is; at the end, whether it showed a report
    deleting,  \* deleting[d]: where DELETE d is
    victim,    \* victim[d]: whose process DELETE d is about to kill
    restarts,  \* history: restarts so far
    accepted,  \* history: some POST was answered "generating"
    since,     \* history: since[g], accepted when GET g began to look for the row
    cancelled, \* history: jobs whose entry a DELETE removed
    upset      \* history: two POSTs found the campaign unregistered together, a
               \* write failed, or the server restarted

posts == <<pc, process>>
reads == <<getting, since>>
deletes == <<deleting, victim, cancelled>>
vars == <<row, entry, posts, reads, deletes, restarts, accepted, upset>>

Row(status, job) == [status |-> status, by |-> job]
Entry(j, p) == [job |-> j, proc |-> p]

Init ==
    /\ row = Row("absent", None)
    /\ entry = None
    /\ pc = [j \in Jobs |-> "free"]
    /\ process = [j \in Jobs |-> "none"]
    /\ getting = [g \in Gets |-> "free"]
    /\ deleting = [d \in Cancels |-> "free"]
    /\ victim = [d \in Cancels |-> None]
    /\ restarts = 0
    /\ accepted = FALSE
    /\ since = [g \in Gets |-> FALSE]
    /\ cancelled = {}
    /\ upset = FALSE

Goto(j, from, to) == pc[j] = from /\ pc' = [pc EXCEPT ![j] = to]

Kill(p) == process' = [process EXCEPT ![p] = IF @ = "running" THEN "bad" ELSE @]

-----------------------------------------------------------------------------
\* Mutant: the registry is not asked.
CheckNothing(j) ==
    /\ Goto(j, "free", "register")
    /\ upset' = (upset \/ (entry = None /\ \E i \in Jobs : pc[i] = "register"))
    /\ UNCHANGED <<row, entry, process, reads, deletes, restarts, accepted>>

(* POST: a registered campaign is answered 202 at once, which changes       *)
(* nothing but the request; otherwise the lock is released again before     *)
(* the campaign is registered.                                              *)
CheckRegistry(j) ==
    /\ Goto(j, "free", IF entry = None THEN "register" ELSE "ended")
    /\ upset' = (upset \/ (entry = None /\ \E i \in Jobs : pc[i] = "register"))
    /\ UNCHANGED <<row, entry, process, reads, deletes, restarts, accepted>>

\* Mutant: registering is forgotten.
RegisterNothing(j) ==
    /\ Goto(j, "register", "start")
    /\ UNCHANGED <<row, entry, process, reads, deletes, restarts, accepted, upset>>

(* _generating[cid] = (t, None) *)
Register(j) ==
    /\ Goto(j, "register", "start")
    /\ entry' = Entry(j, None)
    /\ UNCHANGED <<row, process, reads, deletes, restarts, accepted, upset>>

(* t.start(), and the 202 answer. *)
Start(j) ==
    /\ Goto(j, "start", "mark")
    /\ accepted' = TRUE
    /\ UNCHANGED <<row, entry, process, reads, deletes, restarts, upset>>

(* The thread: upsert_report(conn, cid, None, "generating", ...) *)
Mark(j) ==
    /\ Goto(j, "mark", "spawn")
    /\ row' = Row("generating", None)
    /\ UNCHANGED <<entry, process, reads, deletes, restarts, accepted, upset>>

(* subprocess.Popen, which may raise. *)
Spawn(j) ==
    /\ \/ Goto(j, "spawn", "expose") /\ process' = [process EXCEPT ![j] = "running"]
       \/ Goto(j, "spawn", "except") /\ UNCHANGED process
    /\ UNCHANGED <<row, entry, reads, deletes, restarts, accepted, upset>>

(* if cid in _generating: the process joins the thread that is there. *)
Expose(j) ==
    /\ Goto(j, "expose", "wait")
    /\ entry' = IF entry = None THEN None ELSE Entry(entry.job, j)
    /\ UNCHANGED <<row, process, reads, deletes, restarts, accepted, upset>>

(* The process ends: "good" is exit code 0 with some output. *)
Exit(j) ==
    /\ process[j] = "running"
    /\ \E code \in {"good", "bad"} : process' = [process EXCEPT ![j] = code]
    /\ UNCHANGED <<row, entry, pc, reads, deletes, restarts, accepted, upset>>

(* proc.communicate(timeout=300) returns ... *)
Communicate(j) ==
    /\ Goto(j, "wait", "check")
    /\ process[j] # "running"
    /\ UNCHANGED <<row, entry, process, reads, deletes, restarts, accepted, upset>>

\* Mutant: communicate() has no timeout.
NoTimeout(j) == j \notin Jobs /\ UNCHANGED vars

(* ... or raises TimeoutExpired: the process is killed, *)
Timeout(j) ==
    /\ Goto(j, "wait", "timeout")
    /\ Kill(j)
    /\ UNCHANGED <<row, entry, reads, deletes, restarts, accepted, upset>>

\* Mutant: a status that GET does not know.
WriteTimeoutStatus(j) ==
    /\ Goto(j, "timeout", "pop")
    /\ row' = Row("timeout", j)
    /\ UNCHANGED <<entry, process, reads, deletes, restarts, accepted, upset>>

(* and the error is written without a look at the registry. *)
WriteTimeout(j) ==
    /\ Goto(j, "timeout", "pop")
    /\ row' = Row("error", j)
    /\ UNCHANGED <<entry, process, reads, deletes, restarts, accepted, upset>>

(* still_running = cid in _generating *)
CheckCancelled(j) ==
    /\ Goto(j, "check", IF entry # None THEN "write" ELSE "pop")
    /\ UNCHANGED <<row, entry, process, reads, deletes, restarts, accepted, upset>>

\* Mutant: the exit code is not looked at.
WriteOutput(j) ==
    /\ Goto(j, "write", "pop")
    /\ row' = Row("done", j)
    /\ UNCHANGED <<entry, process, reads, deletes, restarts, accepted, upset>>

\* Mutant: a failure is not written.
WriteDoneOnly(j) ==
    /\ Goto(j, "write", "pop")
    /\ row' = IF process[j] = "good" THEN Row("done", j) ELSE row
    /\ UNCHANGED <<entry, process, reads, deletes, restarts, accepted, upset>>

(* "done" with the output, or "error". *)
WriteReport(j) ==
    /\ Goto(j, "write", "pop")
    /\ row' = Row(IF process[j] = "good" THEN "done" ELSE "error", j)
    /\ UNCHANGED <<entry, process, reads, deletes, restarts, accepted, upset>>

(* except Exception: the error is written, *)
WriteException(j) ==
    /\ Goto(j, "except", "pop")
    /\ row' = Row("error", j)
    /\ UNCHANGED <<entry, process, reads, deletes, restarts, accepted, upset>>

(* A write raises: the first time run() goes to its except clause, there or *)
(* after that only finally is left.                                        *)
WriteFails(j) ==
    /\ DbErrors
    /\ \/ \E at \in {"mark", "timeout", "write"} : Goto(j, at, "except")
       \/ Goto(j, "except", "pop")
    /\ upset' = TRUE
    /\ UNCHANGED <<row, entry, process, reads, deletes, restarts, accepted>>

\* Mutant: the campaign stays registered.
PopForgotten(j) ==
    /\ Goto(j, "pop", "ended")
    /\ UNCHANGED <<row, entry, process, reads, deletes, restarts, accepted, upset>>

(* finally: _generating.pop(cid, None) *)
Pop(j) ==
    /\ Goto(j, "pop", "ended")
    /\ entry' = None
    /\ UNCHANGED <<row, process, reads, deletes, restarts, accepted, upset>>

-----------------------------------------------------------------------------
(* GET reads the registry, then the table. *)
ReadRegistry(g) ==
    /\ getting[g] = "free"
    /\ getting' = [getting EXCEPT ![g] = IF entry = None THEN "read" ELSE "shown"]
    /\ since' = [since EXCEPT ![g] = accepted /\ entry = None]
    /\ UNCHANGED <<row, entry, posts, deletes, restarts, accepted, upset>>

ReadReport(g) ==
    /\ getting[g] = "read"
    /\ getting' = [getting EXCEPT ![g] =
            IF row.status \in {"absent", "not_found"} THEN "not_found" ELSE "shown"]
    /\ UNCHANGED <<row, entry, posts, since, deletes, restarts, accepted, upset>>

-----------------------------------------------------------------------------
(* DELETE removes the entry (404 when there is none), kills the process it  *)
(* names, writes "not_found" and deletes the row.                           *)
Unregister(d) ==
    /\ deleting[d] = "free"
    /\ deleting' = [deleting EXCEPT ![d] =
            IF entry = None THEN "ended" ELSE IF entry.proc = None THEN "hide" ELSE "kill"]
    /\ victim' = [victim EXCEPT ![d] = IF entry = None THEN None ELSE entry.proc]
    /\ cancelled' = IF entry = None THEN cancelled ELSE cancelled \cup {entry.job}
    /\ entry' = None
    /\ UNCHANGED <<row, posts, reads, restarts, accepted, upset>>

KillProcess(d) ==
    /\ deleting[d] = "kill"
    /\ deleting' = [deleting EXCEPT ![d] = "hide"]
    /\ Kill(victim[d])
    /\ victim' = [victim EXCEPT ![d] = None]
    /\ UNCHANGED <<row, entry, pc, reads, cancelled, restarts, accepted, upset>>

HideReport(d) ==
    /\ deleting[d] = "hide"
    /\ deleting' = [deleting EXCEPT ![d] = "delete"]
    /\ row' = Row("not_found", None)
    /\ UNCHANGED <<entry, posts, reads, victim, cancelled, restarts, accepted, upset>>

DeleteReport(d) ==
    /\ deleting[d] = "delete"
    /\ deleting' = [deleting EXCEPT ![d] = "ended"]
    /\ row' = Row("absent", None)
    /\ UNCHANGED <<entry, posts, reads, victim, cancelled, restarts, accepted, upset>>

(* Either write raises: the request ends with status 500. *)
DeleteFails(d) ==
    /\ DbErrors
    /\ deleting[d] \in {"hide", "delete"}
    /\ deleting' = [deleting EXCEPT ![d] = "ended"]
    /\ upset' = TRUE
    /\ UNCHANGED <<row, entry, posts, reads, victim, cancelled, restarts, accepted>>

-----------------------------------------------------------------------------
(* The server process ends: threads and registry are gone, the table and   *)
(* the analysis processes are not.                                         *)
Restart ==
    /\ restarts < MaxRestarts
    /\ restarts' = restarts + 1
    /\ entry' = None
    /\ pc' = [j \in Jobs |-> IF pc[j] = "free" THEN "free" ELSE "ended"]
    /\ getting' = [g \in Gets |-> IF getting[g] = "read" THEN "free" ELSE getting[g]]
    /\ deleting' = [d \in Cancels |-> IF deleting[d] = "free" THEN "free" ELSE "ended"]
    /\ victim' = [d \in Cancels |-> None]
    /\ upset' = TRUE
    /\ UNCHANGED <<row, process, since, cancelled, accepted>>

\* What a started thread does next.
Thread(j) ==
    \/ Mark(j)
    \/ Spawn(j)
    \/ Expose(j)
    \/ Communicate(j)
    \/ Timeout(j)
    \/ WriteTimeout(j)
    \/ CheckCancelled(j)
    \/ WriteReport(j)
    \/ WriteException(j)
    \/ WriteFails(j)
    \/ Pop(j)

Post(j) == CheckRegistry(j) \/ Register(j) \/ Start(j)

Get(g) == ReadRegistry(g) \/ ReadReport(g)

Delete(d) ==
    \/ Unregister(d)
    \/ KillProcess(d)
    \/ HideReport(d)
    \/ DeleteReport(d)
    \/ DeleteFails(d)

Next ==
    \/ \E j \in Jobs : Post(j) \/ Thread(j) \/ Exit(j)
    \/ \E g \in Gets : Get(g)
    \/ \E d \in Cancels : Delete(d)
    \/ Restart

\* A request that was received is handled, a started thread runs, and a process
\* that never ends meets the timeout of communicate(); nobody has to send a
\* request, and a process may run until it is killed.
Fairness ==
    /\ \A j \in Jobs : WF_vars(Register(j) \/ Start(j)) /\ WF_vars(Thread(j))
    /\ \A d \in Cancels : WF_vars(KillProcess(d) \/ HideReport(d) \/ DeleteReport(d))

Spec == Init /\ [][Next]_vars /\ Fairness

-----------------------------------------------------------------------------
Running == {"register", "start", "mark", "spawn", "expose", "wait", "timeout",
            "check", "write", "except", "pop"}

\* The type of every variable.
TypeOK ==
    /\ row \in [status : {"absent", "generating", "done", "error", "not_found"},
                by : Jobs \cup {None}]
    /\ entry \in [job : Jobs, proc : Jobs \cup {None}] \cup {None}
    /\ pc \in [Jobs -> Running \cup {"free", "ended"}]
    /\ process \in [Jobs -> {"none", "running", "good", "bad"}]
    /\ getting \in [Gets -> {"free", "read", "shown", "not_found"}]
    /\ deleting \in [Cancels -> {"free", "kill", "hide", "delete", "ended"}]
    /\ victim \in [Cancels -> Jobs \cup {None}]
    /\ restarts \in Nat
    /\ accepted \in BOOLEAN
    /\ since \in [Gets -> BOOLEAN]
    /\ cancelled \subseteq Jobs
    /\ upset \in BOOLEAN

\* A registered campaign always has a live thread that will unregister it, also
\* when requests raced, a write failed or another job's thread cleaned up first:
\* a leaked entry would refuse every later POST.
RegistryNeverLeaks == entry # None => pc[entry.job] \in Running \ {"register"}

\* "done" is only ever shown with the output of a process that ended by itself
\* with exit code 0, also when a cancellation killed it on the way.
DoneIsGenuine == row.status = "done" => process[row.by] = "good"

\* However the requests race, the campaign can be generated again: it does not
\* stay registered forever.
RegistryDrains == entry # None ~> entry = None

\* Unless something upset the requests or was cancelled, one analysis process runs
\* at a time.
OneProcess ==
    upset \/ cancelled # {} \/ Cardinality({j \in Jobs : process[j] = "running"}) <= 1

\* A GET that begins after a POST was answered "generating" does not say that the
\* campaign has no report, although the row is written later than that answer and
\* the registry is read earlier than the row.
AcceptedIsVisible ==
    (\E g \in Gets : getting[g] = "not_found" /\ since[g]) => upset \/ cancelled # {}

\* A report that is shown as being generated is eventually shown as something
\* else, with the same exceptions.
GenerationSettles ==
    row.status = "generating" ~> (row.status # "generating" \/ upset \/ cancelled # {})

\* What the registry, the processes and the answers to the visitor say of a campaign
\* fits together, in every interleaving of the requests.
RegistrySound == RegistryNeverLeaks /\ OneProcess /\ AcceptedIsVisible

\* Every job comes to an end, for the next POST and for those who look.
JobsSettle == RegistryDrains /\ GenerationSettles
=============================================================================
