------------------------------ MODULE IocWriter ------------------------------
(***************************************************************************)
(* api/ioc_writer.py over api/ioc_store.py: a process that polls the log   *)
(* files, which the honeypot goes on writing (EventLog.tla), and keeps a   *)
(* SQLite database of indicators, sessions, campaigns and of how far each  *)
(* file has been read.  One transaction spans one poll of all files; the   *)
(* campaigns are detected again in a transaction of their own.  Any        *)
(* exception, such as "database is locked", ends the process, which Docker *)
(* then restarts.                                                          *)
(*                                                                         *)
(* Of an event the model keeps the session, the address, the command and   *)
(* the indicators; times, confidences and categories are left out.  Of the *)
(* clustering it keeps that sessions with a common signal that does not    *)
(* change (the subnet, the SSH fingerprint) are one campaign; merging      *)
(* campaigns changes none of the addresses that some campaign names.       *)
(***************************************************************************)
EXTENDS EventLog, SequencesExt

CONSTANTS
    Sessions,
    Values,        \* indicator values; an address is one
    Commands,
    Signals,
    SessionOf,     \* SessionOf[e]
    AddressOf,     \* AddressOf[s]: the client address of session s
    Indicators,    \* Indicators[e]: the address, URLs, domains, file hashes of e
    CommandOf,     \* CommandOf[e]
    SignalsOf,     \* SignalsOf[s]: what the clustering groups by
    MaxSids,       \* _MAX_SESSION_IDS
    MaxCommands,   \* _MAX_SESSION_COMMANDS
    MaxRestarts    \* bound: restarts of the writer

ASSUME IWAssumption ==
    /\ SessionOf \in [Events -> Sessions]
    /\ AddressOf \in [Sessions -> Values]
    /\ Indicators \in [Events -> SUBSET Values]
    /\ \A e \in Events : AddressOf[SessionOf[e]] \in Indicators[e]
    /\ CommandOf \in [Events -> Commands]
    /\ SignalsOf \in [Sessions -> SUBSET Signals]
    /\ MaxSids \in Nat \ {0}
    /\ MaxCommands \in Nat \ {0}
    /\ MaxRestarts \in Nat

VARIABLES
    db,        \* the committed database
    tx,        \* the database as the writer's connection sees it
    at,        \* where run() is
    todo,      \* files of this poll not read yet
    file,      \* the file being read, or 0
    pos,       \* the position in it
    buf,       \* session_buf: buf[s], commands of s read from this file
    due,       \* campaign_interval has passed
    restarts   \* history: restarts so far

reader == <<todo, file, pos, buf>>
vars == <<logVars, db, tx, at, reader, due, restarts>>

Address(e) == AddressOf[SessionOf[e]]

NoBuf == [s \in {} |-> <<>>]

Latest(seq, n) == SubSeq(seq, IF Len(seq) > n THEN Len(seq) - n + 1 ELSE 1, Len(seq))

Init ==
    /\ LogInit
    /\ db = [cursor    |-> [d \in Days |-> 0],
             sids      |-> [v \in Values |-> <<>>],
             ips       |-> {},
             sessions  |-> [s \in {} |-> <<>>],
             campaigns |-> {},
             camps     |-> {}]
    /\ tx = db
    /\ at = "poll"
    /\ todo = {}
    /\ file = 0
    /\ pos = 0
    /\ buf = NoBuf
    /\ due = TRUE
    /\ restarts = 0

-----------------------------------------------------------------------------
\* Mutant: only the file of the day is read.
PollToday ==
    /\ at = "poll"
    /\ todo' = {path[e] : e \in Events} \cap {today}
    /\ at' = IF todo' = {} THEN "campaigns" ELSE "files"
    /\ UNCHANGED <<logVars, db, tx, file, pos, buf, due, restarts>>

(* log_files = sorted(glob(...)): files exist once they have been opened. *)
Poll ==
    /\ at = "poll"
    /\ todo' = {path[e] : e \in Events} \ {0}
    /\ at' = IF todo' = {} THEN "campaigns" ELSE "files"
    /\ UNCHANGED <<logVars, db, tx, file, pos, buf, due, restarts>>

(* process_file: nothing is done unless the file has grown. *)
OpenFile ==
    /\ at = "files"
    /\ \E d \in todo :
          /\ \A c \in todo : d <= c
          /\ todo' = todo \ {d}
          /\ IF Len(files[d]) <= tx.cursor[d]
             THEN UNCHANGED <<at, file, pos>>
             ELSE at' = "lines" /\ file' = d /\ pos' = tx.cursor[d]
    /\ UNCHANGED <<logVars, db, tx, buf, due, restarts>>

\* Mutant: the list of sessions has no cap.
UpsertIocsUncapped(t, e) ==
    LET s == SessionOf[e]
        merge(sids) == IF s \in ToSet(sids) THEN sids ELSE Append(sids, s)
    IN  [t EXCEPT !.sids = [v \in Values |-> IF v \in Indicators[e] THEN merge(@[v]) ELSE @[v]],
                  !.ips = @ \cup {<<v, Address(e)>> : v \in Indicators[e]}]

(* upsert_ioc, for one event: rows of iocs and ioc_ips. *)
UpsertIocs(t, e) ==
    LET s == SessionOf[e]
        merge(sids) == Latest(IF s \in ToSet(sids) THEN sids ELSE Append(sids, s), MaxSids)
    IN  [t EXCEPT !.sids = [v \in Values |-> IF v \in Indicators[e] THEN merge(@[v]) ELSE @[v]],
                  !.ips = @ \cup {<<v, Address(e)>> : v \in Indicators[e]}]

(* buf["commands"].append(cmd) *)
Buffer(b, e) ==
    LET s == SessionOf[e]
    IN  [r \in DOMAIN b \cup {s} |->
            IF r # s THEN b[r]
            ELSE Append(IF s \in DOMAIN b THEN b[s] ELSE <<>>, CommandOf[e])]

\* Mutant: the connection commits after every statement.
ReadLineAutocommit ==
    /\ at = "lines"
    /\ pos < Len(files[file])
    /\ pos' = LineEnd(file, pos)
    /\ LET events == EventsOf(SubSeq(files[file], pos + 1, pos'))
       IN  IF events = {} THEN UNCHANGED <<tx, buf>>
           ELSE \E e \in events : tx' = UpsertIocs(tx, e) /\ buf' = Buffer(buf, e)
    /\ db' = tx'
    /\ UNCHANGED <<logVars, at, todo, file, due, restarts>>

(* One line: an event, or something json.loads refuses, which is skipped. *)
ReadLine ==
    /\ at = "lines"
    /\ pos < Len(files[file])
    /\ pos' = LineEnd(file, pos)
    /\ LET events == EventsOf(SubSeq(files[file], pos + 1, pos'))
       IN  IF events = {} THEN UNCHANGED <<tx, buf>>
           ELSE \E e \in events : tx' = UpsertIocs(tx, e) /\ buf' = Buffer(buf, e)
    /\ UNCHANGED <<logVars, db, at, todo, file, due, restarts>>

(* [c for c in commands if c not in existing_cmds]                         *)
Fresh(commands, existing) ==
    LET upto[n \in 0..Len(commands)] ==
            IF n = 0 THEN <<>>
            ELSE IF commands[n] \in ToSet(existing) THEN upto[n - 1]
            ELSE Append(upto[n - 1], commands[n])
    IN  upto[Len(commands)]

(* upsert_session: a new row takes the commands as they are, an old one those *)
(* it does not have.                                                         *)
UpsertSessions(t) ==
    LET merged(s) ==
            IF s \notin DOMAIN buf THEN t.sessions[s]
            ELSE IF s \notin DOMAIN t.sessions THEN Latest(buf[s], MaxCommands)
            ELSE Latest(t.sessions[s] \o Fresh(buf[s], t.sessions[s]), MaxCommands)
    IN  [t EXCEPT !.sessions = [s \in DOMAIN t.sessions \cup DOMAIN buf |-> merged(s)]]

\* Mutant: the cursor is the size the file has by now.
CloseFileAtSize ==
    /\ at = "lines"
    /\ tx' = [UpsertSessions(tx) EXCEPT !.cursor = [@ EXCEPT ![file] = Len(files[file])]]
    /\ at' = "files"
    /\ file' = 0
    /\ pos' = 0
    /\ buf' = NoBuf
    /\ UNCHANGED <<logVars, db, todo, due, restarts>>

(* The end of the file: the sessions are written, and the cursor. *)
CloseFile ==
    /\ at = "lines"
    /\ pos = Len(files[file])
    /\ tx' = [UpsertSessions(tx) EXCEPT !.cursor = [@ EXCEPT ![file] = pos]]
    /\ at' = "files"
    /\ file' = 0
    /\ pos' = 0
    /\ buf' = NoBuf
    /\ UNCHANGED <<logVars, db, todo, due, restarts>>

Commit ==
    /\ at = "files"
    /\ todo = {}
    /\ db' = tx
    /\ at' = "campaigns"
    /\ UNCHANGED <<logVars, tx, reader, due, restarts>>

\* Mutant: two sessions are not enough.
ClusteredThree(sessions) ==
    {s \in sessions : Cardinality({r \in sessions : SignalsOf[r] \cap SignalsOf[s] # {}}) >= 3}

Clustered(sessions) ==
    {s \in sessions : \E r \in sessions \ {s} : SignalsOf[r] \cap SignalsOf[s] # {}}

\* Mutant: the links of the indicators are not made again.
ReplaceCampaignsOnly(t) ==
    IF DOMAIN t.sessions = {} THEN t
    ELSE [t EXCEPT !.campaigns = {AddressOf[s] : s \in Clustered(DOMAIN t.sessions)}]

(* replace_campaigns, with the addresses of the clustered sessions and the *)
(* indicators linked to them; it is skipped when there are no sessions.    *)
ReplaceCampaigns(t) ==
    LET addresses == {AddressOf[s] : s \in Clustered(DOMAIN t.sessions)}
    IN  IF DOMAIN t.sessions = {} THEN t
        ELSE [t EXCEPT !.campaigns = addresses,
                       !.camps = {v \in Values : \E a \in addresses : <<v, a>> \in t.ips}]

DetectCampaigns ==
    /\ at = "campaigns"
    /\ due
    /\ tx' = ReplaceCampaigns(tx)
    /\ db' = tx'
    /\ due' = FALSE
    /\ at' = "poll"
    /\ UNCHANGED <<logVars, reader, restarts>>

SkipCampaigns ==
    /\ at = "campaigns"
    /\ ~due
    /\ at' = "poll"
    /\ UNCHANGED <<logVars, db, tx, reader, due, restarts>>

CampaignTimer ==
    /\ ~due
    /\ due' = TRUE
    /\ UNCHANGED <<logVars, db, tx, at, reader, restarts>>

\* Mutant: the cursors are not in the database.
RestartFromStart ==
    /\ restarts < MaxRestarts
    /\ restarts' = restarts + 1
    /\ db' = [db EXCEPT !.cursor = [d \in Days |-> 0]]
    /\ tx' = db'
    /\ at' = "poll"
    /\ todo' = {}
    /\ file' = 0
    /\ pos' = 0
    /\ buf' = NoBuf
    /\ due' = TRUE
    /\ UNCHANGED logVars

(* The process ends anywhere; SQLite rolls the open transaction back. *)
Restart ==
    /\ restarts < MaxRestarts
    /\ restarts' = restarts + 1
    /\ tx' = db
    /\ at' = "poll"
    /\ todo' = {}
    /\ file' = 0
    /\ pos' = 0
    /\ buf' = NoBuf
    /\ due' = TRUE
    /\ UNCHANGED <<logVars, db>>

Run ==
    \/ Poll
    \/ OpenFile
    \/ ReadLine
    \/ CloseFile
    \/ Commit
    \/ DetectCampaigns
    \/ SkipCampaigns

Honeypot ==
    /\ Midnight \/ \E e \in Events : Log(e)
    /\ UNCHANGED <<db, tx, at, reader, due, restarts>>

Next == Run \/ Honeypot \/ CampaignTimer \/ Restart

\* The writer runs and its timer goes on; nobody has to log an event.
Fairness == WF_vars(Run) /\ WF_vars(CampaignTimer)

Spec == Init /\ [][Next]_vars /\ Fairness

-----------------------------------------------------------------------------
\* What the tables hold: rows of sessions as they were made, and two lists with
\* their caps.
Lists(S, cap) == UNION {[1..n -> S] : n \in 0..cap}
Maps(S, T) == UNION {[R -> T] : R \in SUBSET S}

Database ==
    [cursor    : [Days -> Nat],
     sids      : [Values -> Lists(Sessions, MaxSids)],
     ips       : SUBSET (Values \X Values),
     sessions  : Maps(Sessions, Lists(Commands, MaxCommands)),
     campaigns : SUBSET Values,
     camps     : SUBSET Values]

\* The type of every variable; the caps of the two lists hold.
TypeOK ==
    /\ LogTypeOK
    /\ db \in Database /\ tx \in Database
    /\ at \in {"poll", "files", "lines", "campaigns"}
    /\ todo \subseteq Days
    /\ file \in Days \cup {0}
    /\ pos \in Nat
    /\ \E R \in SUBSET Sessions : buf \in [R -> Seq(Commands)]
    /\ due \in BOOLEAN
    /\ restarts \in Nat

\* Some piece of e stands before the committed cursor of a file.
Passed(e) ==
    \E d \in Days : \E i \in 1..db.cursor[d] :
        files[d][i] # Newline /\ files[d][i].of = e

\* e is in the database: its indicators, its session, its command unless the
\* session has reached the cap on commands.
Recorded(e) ==
    LET s == SessionOf[e]
    IN  /\ \A v \in Indicators[e] : <<v, Address(e)>> \in db.ips
        /\ s \in DOMAIN db.sessions
        /\ CommandOf[e] \in ToSet(db.sessions[s]) \/ Len(db.sessions[s]) = MaxCommands

\* An event on a line of its own is never skipped: once a committed cursor is
\* behind it, it is in the database, wherever the writer died in between.
NothingSkipped ==
    \A e \in Events, d \in Days : \A i \in 1..(db.cursor[d] - 1) :
        OwnLine(e, d, i) => Recorded(e)

\* Nothing is in the database of which no committed cursor tells: a transaction
\* that was rolled back leaves neither indicators nor sessions behind.
NothingAhead ==
    /\ \A p \in db.ips : \E e \in Events :
          Passed(e) /\ p[1] \in Indicators[e] /\ p[2] = Address(e)
    /\ \A s \in DOMAIN db.sessions : \A c \in ToSet(db.sessions[s]) :
          \E e \in Events : Passed(e) /\ SessionOf[e] = s /\ CommandOf[e] = c

\* The tables agree: the sessions an indicator names have rows, each session's
\* address is an indicator, and each address of a campaign is linked to it.
TablesAgree ==
    /\ \A v \in Values : ToSet(db.sids[v]) \subseteq DOMAIN db.sessions
    /\ \A s \in DOMAIN db.sessions : <<AddressOf[s], AddressOf[s]>> \in db.ips
    /\ db.campaigns \subseteq db.camps

\* The database says exactly what the log says up to the committed cursors.
CursorExact == NothingSkipped /\ NothingAhead /\ TablesAgree

\* Nothing that was committed is taken back: rows of sessions and indicators stay,
\* and no cursor goes back, over any number of polls, detections and restarts.
DatabaseGrows ==
    [][/\ db.ips \subseteq db'.ips
       /\ DOMAIN db.sessions \subseteq DOMAIN db'.sessions
       /\ \A d \in Days : db.cursor[d] <= db'.cursor[d]]_vars

\* Every event on a line of its own comes to be recorded, also one that was written
\* to the file of a day that is over.
EventsArrive ==
    \A e \in Events :
        (\E d \in Days : \E i \in 1..Len(files[d]) : OwnLine(e, d, i)) ~> Recorded(e)

\* Two sessions with a common signal come to be in a campaign.
CampaignsFollow ==
    \A s, r \in Sessions :
        s # r /\ SignalsOf[s] \cap SignalsOf[r] # {} =>
            ({s, r} \subseteq DOMAIN db.sessions ~> AddressOf[s] \in db.campaigns)

\* What is logged is recorded and what belongs together is found to, in the end.
DataArrives == EventsArrive /\ CampaignsFollow
=============================================================================
