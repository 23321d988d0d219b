---------------------------- MODULE LogProcessor ----------------------------
(***************************************************************************)
(* monitoring/log_processor: a process that polls the log files, which the *)
(* honeypot goes on writing (EventLog.tla), and the table of LLM usage,    *)
(* enriches each event from what it remembers of the session, counts it,   *)
(* and puts it into the buffer of a LokiClient.  The buffer is drained,    *)
(* under a lock that is held over the POST, by the push that fills a       *)
(* batch, by the main loop after each poll and by a thread of its own.     *)
(* How far a source has been read is saved once it has been read to its    *)
(* end; all the rest is in memory.                                         *)
(*                                                                         *)
(* An exception ends the reading of that file, not the process.  Of the    *)
(* enrichment the model keeps the accumulators of the session, of the      *)
(* metrics the count of an event and the set of active sessions.           *)
(***************************************************************************)
EXTENDS EventLog, SequencesExt

CONSTANTS
    None,
    UsageRows,     \* the rows the honeypot adds to llm_usage.db
    Usage,         \* that table, as a source next to the files
    Sids,          \* session ids
    Unknown,       \* the session of an event without one
    SidOf,         \* SidOf[e]: the session_id of e
    TypeOf,        \* TypeOf[e]: does e start or end its session
    BatchSize,     \* _BATCH_SIZE
    MaxFailures,   \* bound: exceptions while a source is read
    MaxCrashes     \* bound: restarts of the processor

ASSUME LPAssumption ==
    /\ UsageRows \cap Events = {}
    /\ None \notin Events \cup UsageRows
    /\ Usage \notin 1..LastDay
    /\ Unknown \in Sids
    /\ SidOf \in [Events \cup UsageRows -> Sids]
    /\ TypeOf \in [Events \cup UsageRows -> {"session_start", "session_end", "other"}]
    /\ \A r \in UsageRows : SidOf[r] = Unknown
    /\ \A e \in Events \cup UsageRows : SidOf[e] = Unknown => TypeOf[e] = "other"
    /\ BatchSize \in Nat \ {0}
    /\ MaxFailures \in Nat /\ MaxCrashes \in Nat

VARIABLES
    usage,       \* the table llm_usage: a sequence of rows
    offset,      \* offset[s]: the saved position in source s, durable
    doing,       \* where main() is
    src, head,   \* the source it reads and how far it is
    rows,        \* how many rows its query of the table found
    item,        \* the event it is about to push
    buffer,      \* LokiClient._buffer
    lock,        \* who holds LokiClient._lock
    batch,       \* what its holder is posting
    acc,         \* sessions with an entry in _session_events
    active,      \* _active_sessions
    sent,        \* what Loki accepted, in order
    dropped,     \* history: what failed POSTs and restarts lost
    times,       \* history: times[e], how often e was enriched
    failures, crashes

memory == <<doing, src, head, rows, item, acc, active>>
loki == <<buffer, lock, batch, sent, dropped>>
counters == <<times, failures, crashes>>
processorVars == <<logVars, usage, offset, memory, loki, counters>>

Items == Events \cup UsageRows
Sources == Days \cup {Usage}
Holders == {"nobody", "main", "thread"}

\* main() polls the files in the order of their names and then the table.
First == 1
NextSource(s) == IF s \in Days /\ s < LastDay THEN s + 1 ELSE Usage

ProcessorInit ==
    /\ LogInit
    /\ usage = <<>>
    /\ offset = [s \in Sources |-> 0]
    /\ doing = "open" /\ src = First /\ head = 0 /\ rows = 0
    /\ item = None
    /\ buffer = <<>> /\ batch = <<>> /\ lock = "nobody"
    /\ acc = {} /\ active = {}
    /\ sent = <<>> /\ dropped = {}
    /\ times = [e \in Items |-> 0]
    /\ failures = 0 /\ crashes = 0

-----------------------------------------------------------------------------
(* The honeypot: lines (EventLog.tla), and rows of the LLM usage table. *)

WriteLog ==
    /\ Midnight \/ \E e \in Events : Log(e)
    /\ UNCHANGED <<usage, offset, memory, loki, counters>>

RecordUsage ==
    /\ \E r \in UsageRows : r \notin ToSet(usage) /\ usage' = Append(usage, r)
    /\ UNCHANGED <<logVars, offset, memory, loki, counters>>

-----------------------------------------------------------------------------
(* tail_file and _process_llm_usage_db *)

LeaveSource ==
    /\ src' = NextSource(src)
    /\ doing' = IF src = Usage THEN "flush" ELSE "open"
    /\ head' = 0 /\ rows' = 0

\* Mutant: the query of the table includes the last row that was read.
OpenInclusive ==
    /\ doing = "open"
    /\ doing' = "read"
    /\ head' = IF src = Usage /\ offset[src] > 0 THEN offset[src] - 1 ELSE offset[src]
    /\ rows' = IF src = Usage THEN Len(usage) ELSE 0
    /\ UNCHANGED <<logVars, usage, offset, src, item, acc, active, loki, counters>>

(* The file is read on from its offset; of the table, the rows that a      *)
(* query finds now.                                                        *)
Open ==
    /\ doing = "open"
    /\ doing' = "read"
    /\ head' = offset[src]
    /\ rows' = IF src = Usage THEN Len(usage) ELSE 0
    /\ UNCHANGED <<logVars, usage, offset, src, item, acc, active, loki, counters>>

AtEnd == head = IF src = Usage THEN rows ELSE Len(files[src])

(* What the reader takes next: a line as far as it is there, or a row. *)
NextPos == IF src = Usage THEN head + 1 ELSE LineEnd(src, head)
Read == IF src = Usage THEN {usage[head + 1]}
        ELSE EventsOf(SubSeq(files[src], head + 1, NextPos))

(* json.loads fails: half a line, the rest of one, an empty line. *)
SkipLine ==
    /\ doing = "read" /\ ~AtEnd
    /\ Read = {}
    /\ head' = NextPos
    /\ UNCHANGED <<logVars, usage, offset, doing, src, rows, item, acc, active, loki, counters>>

(* enrich() remembers the event before it looks at it. *)
Remember(e) ==
    /\ doing = "read" /\ ~AtEnd
    /\ e \in Read
    /\ times' = [times EXCEPT ![e] = @ + 1]
    /\ UNCHANGED <<logVars, usage, offset, loki, crashes>>

\* Mutant: the accumulators are kept.
CloseSessionKept(s) == acc' = acc /\ active' = active \ {s}

(* _record_metrics: the end of a session closes its accumulators. *)
CloseSession(s) == acc' = acc \ {s} /\ active' = active \ {s}

Process(e) ==
    /\ Remember(e)
    /\ LET s == SidOf[e]
       IN  \/ /\ TypeOf[e] = "session_end"
              /\ CloseSession(s)
           \/ /\ TypeOf[e] # "session_end"
              /\ acc' = acc \cup {s}
              /\ active' = IF TypeOf[e] = "session_start" THEN active \cup {s} ELSE active
    /\ head' = NextPos
    /\ doing' = "push" /\ item' = e
    /\ UNCHANGED <<src, rows, failures>>

(* Any exception, such as a locked cache of IP addresses, leaves the       *)
(* source where its offset is.                                             *)
EnrichFails(e) ==
    /\ failures < MaxFailures
    /\ failures' = failures + 1
    /\ Remember(e)
    /\ acc' = acc \cup {SidOf[e]}
    /\ UNCHANGED <<active, item>>
    /\ LeaveSource

(* So does a text that ends, for now, inside a character. *)
CutCharacter ==
    /\ doing = "read" /\ ~AtEnd /\ src # Usage
    /\ NextPos = Len(files[src])
    /\ \E e \in Events : files[src][NextPos] = Text(e, "first")
    /\ failures < MaxFailures
    /\ failures' = failures + 1
    /\ LeaveSource
    /\ UNCHANGED <<logVars, usage, offset, item, acc, active, loki, times, crashes>>

SaveOffset ==
    /\ doing = "read" /\ AtEnd
    /\ offset' = [offset EXCEPT ![src] = head]
    /\ LeaveSource
    /\ UNCHANGED <<logVars, usage, item, acc, active, loki, counters>>

-----------------------------------------------------------------------------
(* LokiClient *)

\* Mutants: a batch is one longer; only full batches are drained.
FullLate(b) == Len(b) > BatchSize
DueFull(b) == Len(b) >= BatchSize

Full(b) == Len(b) >= BatchSize
Due(b) == b # <<>>

(* _drain: the buffer is cleared before the POST. *)
Drain(t, b) == lock' = t /\ batch' = b /\ buffer' = <<>>

Push ==
    /\ doing = "push" /\ lock = "nobody"
    /\ doing' = "read" /\ item' = None
    /\ LET b == Append(buffer, item)
       IN  IF Full(b) THEN Drain("main", b)
           ELSE buffer' = b /\ UNCHANGED <<lock, batch>>
    /\ UNCHANGED <<logVars, usage, offset, src, head, rows, acc, active,
                   sent, dropped, counters>>

(* After each poll main() drains what is left and starts over. *)
Flush ==
    /\ doing = "flush" /\ lock = "nobody"
    /\ doing' = "open" /\ src' = First
    /\ IF Due(buffer) THEN Drain("main", buffer) ELSE UNCHANGED <<buffer, lock, batch>>
    /\ UNCHANGED <<logVars, usage, offset, head, rows, item, acc, active,
                   sent, dropped, counters>>

FlushThread ==
    /\ lock = "nobody" /\ Due(buffer)
    /\ Drain("thread", buffer)
    /\ UNCHANGED <<logVars, usage, offset, memory, sent, dropped, counters>>

Unlock == lock' = "nobody" /\ batch' = <<>>

Posted ==
    /\ lock # "nobody"
    /\ Unlock
    /\ sent' = sent \o batch
    /\ UNCHANGED <<logVars, usage, offset, memory, buffer, dropped, counters>>

(* An error status, no answer within the timeout: only a warning. *)
PostFails ==
    /\ lock # "nobody"
    /\ Unlock
    /\ dropped' = dropped \cup ToSet(batch)
    /\ UNCHANGED <<logVars, usage, offset, memory, buffer, sent, counters>>

(* The holder of the lock is inside the POST: main() does nothing else. *)
Posting == lock = "main"

-----------------------------------------------------------------------------
(* The process ends at any point and is started again; a POST under way    *)
(* may have arrived.                                                       *)
Crash ==
    /\ crashes < MaxCrashes
    /\ crashes' = crashes + 1
    /\ doing' = "open" /\ src' = First /\ head' = 0 /\ rows' = 0 /\ item' = None
    /\ acc' = {} /\ active' = {}
    /\ Unlock /\ buffer' = <<>>
    /\ \E arrived \in {<<>>, batch} :
          /\ sent' = sent \o arrived
          /\ dropped' = dropped \cup ((ToSet(batch) \cup ToSet(buffer)) \ ToSet(arrived))
    /\ UNCHANGED <<logVars, usage, offset, times, failures>>

Main ==
    /\ ~Posting
    /\ \/ Open \/ SkipLine \/ CutCharacter \/ SaveOffset \/ Push \/ Flush
       \/ \E e \in Items : Process(e) \/ EnrichFails(e)

Loki == Posted \/ PostFails

ProcessorNext == WriteLog \/ RecordUsage \/ Main \/ FlushThread \/ Loki \/ Crash

(* Both threads are scheduled, and a POST ends within its timeout. *)
ProcessorFairness == WF_processorVars(Main) /\ WF_processorVars(FlushThread) /\ WF_processorVars(Loki)

ProcessorSpec == ProcessorInit /\ [][ProcessorNext]_processorVars /\ ProcessorFairness

-----------------------------------------------------------------------------
(* The processor's variables are of their types, and what is posted is     *)
(* posted by the holder of the lock (loki_client.py).                      *)
ProcessorTypeOK ==
    /\ LogTypeOK
    /\ usage \in Seq(UsageRows)
    /\ offset \in [Sources -> Nat]
    /\ doing \in {"open", "read", "push", "flush"}
    /\ src \in Sources /\ head \in Nat /\ rows \in 0..Len(usage) /\ item \in Items \cup {None}
    /\ buffer \in Seq(Items) /\ Len(buffer) < BatchSize
    /\ lock \in Holders /\ batch \in Seq(Items) /\ (batch # <<>>) = (lock # "nobody")
    /\ acc \subseteq Sids /\ active \subseteq Sids
    /\ sent \in Seq(Items) /\ dropped \subseteq Items
    /\ times \in [Items -> Nat]
    /\ failures \in 0..MaxFailures /\ crashes \in 0..MaxCrashes

(* The place of e in a source, where it stands complete on its own line. *)
StandsAt(e, s, i) ==
    IF s = Usage THEN i <= Len(usage) /\ usage[i] = e
    ELSE e \in Events /\ OwnLine(e, s, i)

Places(s) == 1..Len(IF s = Usage THEN usage ELSE files[s])

\* e has been read for good.
Behind(e, s) == \E i \in Places(s) : StandsAt(e, s, i) /\ i <= offset[s]

\* e stands before f in one source.
Precedes(e, f) ==
    \E s \in Sources : \E i, j \in Places(s) :
        i < j /\ StandsAt(e, s, i) /\ StandsAt(f, s, j)

(* What will not be read again was delivered, is on its way, or went down  *)
(* with a failed POST or with the process: nothing is skipped, whatever    *)
(* was appended while the source was read and whatever raised.             *)
NothingLost ==
    \A s \in Sources, e \in Items :
        Behind(e, s) => e \in ToSet(sent) \cup ToSet(batch) \cup ToSet(buffer) \cup dropped

(* An event is processed again only because its source was abandoned, or   *)
(* the process restarted: once per such failure, not once per poll.        *)
OnceUnlessAborted == \A e \in Items : times[e] <= 1 + failures + crashes

(* Loki gets the events of a source in the order of the source, although   *)
(* three places drain the buffer: an earlier one is missing before a later *)
(* one only when it was lost.                                              *)
InOrder ==
    \A m \in DOMAIN sent : \A e \in Items \ dropped :
        (\A k \in 1..m : sent[k] # e) => ~Precedes(e, sent[m])

(* Each event is delivered once and in order, as far as failures allow. *)
Delivery == NothingLost /\ OnceUnlessAborted /\ InOrder

\* Each of them stands in the file of day d, and none after position j.
AllBy(items, d, j) == \A g \in items : \E k \in 1..j : StandsAt(g, d, k)

(* A session whose end has been read for good is not active, if its starts *)
(* stand before the end in the same file; and if all its events do,        *)
(* nothing is remembered of it.  That holds even when a failure or a       *)
(* restart made the processor read them again.                             *)
EndedIsForgotten ==
    \A d \in Days, f \in Events : \A j \in Places(d) :
        TypeOf[f] = "session_end" /\ StandsAt(f, d, j) /\ j <= offset[d] =>
            LET own == {g \in Items : SidOf[g] = SidOf[f]}
            IN  /\ AllBy({g \in own : TypeOf[g] = "session_start"}, d, j) => SidOf[f] \notin active
                /\ AllBy(own, d, j) => SidOf[f] \notin acc

(* What the honeypot has logged reaches Loki, unless a POST or the process *)
(* lost it: no event waits for ever for a batch to fill or a file to end.  *)
EventsPushed ==
    \A e \in Items :
        (\E s \in Sources : \E i \in Places(s) : StandsAt(e, s, i)) ~>
            (e \in ToSet(sent) \cup dropped)
=============================================================================
