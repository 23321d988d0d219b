---------------------------- MODULE InvokeLimiter ----------------------------
(***************************************************************************)
(* llm_providers/llm_utils.py InvokeLimiter, as DataHandler uses it: one    *)
(* limiter per handler, asked by the threads of all sessions, without a    *)
(* lock, and always for the visitor "visitor".                             *)
(*                                                                         *)
(* _visitors and _visitors_limit_reached_time are dictionaries; since only *)
(* one key is ever used, each is one variable here.  Every read and write  *)
(* of them is a step of its own.                                           *)
(***************************************************************************)
EXTENDS Integers, Sequences, FiniteSets

CONSTANTS
    Clients,   \* attackers, one session thread each
    Limit,     \* invokes_limit
    Period,    \* time_period_in_seconds
    Day,       \* the seconds of a day: timedelta.seconds is modulo this
    MaxCalls,  \* bound: calls of one client
    MaxTime    \* bound on the clock

ASSUME ILAssumption ==
    /\ Limit \in Nat \ {0}
    /\ Period \in Nat
    /\ Day \in Nat \ {0}
    /\ MaxCalls \in Nat
    /\ MaxTime \in Nat

Absent == -1

VARIABLES
    visitors,  \* _visitors["visitor"], Absent when the key is missing
    reached,   \* _visitors_limit_reached_time["visitor"] or Absent
    now,       \* datetime.now()
    calling,   \* calling[c]: where c's call of can_invoke is
    loaded,    \* loaded[c]: the count read by  += 1
    calls,     \* history: calls[c], calls begun by c
    granted,   \* history: the times at which can_invoke returned True
    refused,   \* history: the time of each False
    overlap    \* history: two calls of can_invoke have been open at a time

table == <<visitors, reached>>
outcomes == <<granted, refused>>
limiterVars == <<visitors, reached, now, calling, loaded, calls, granted, refused, overlap>>

LimiterInit ==
    /\ visitors = Absent
    /\ reached = Absent
    /\ now = 0
    /\ calling = [c \in Clients |-> "idle"]
    /\ loaded = [c \in Clients |-> 0]
    /\ calls = [c \in Clients |-> 0]
    /\ granted = <<>>
    /\ refused = {}
    /\ overlap = FALSE

GoesOn(c, from, to) == calling[c] = from /\ calling' = [calling EXCEPT ![c] = to]

Grant == granted' = Append(granted, now) /\ UNCHANGED refused
Deny == refused' = refused \cup {now} /\ UNCHANGED granted

-----------------------------------------------------------------------------
(* invoke_llm_with_limit asks whether the LLM may be invoked. *)
Call(c) ==
    /\ GoesOn(c, "idle", "known")
    /\ calls[c] < MaxCalls
    /\ calls' = [calls EXCEPT ![c] = @ + 1]
    /\ overlap' = (overlap \/ \E d \in Clients : calling[d] \notin {"idle", "raised"})
    /\ UNCHANGED <<table, now, loaded, outcomes>>

(* if visitor_id not in self._visitors *)
TestKnown(c) ==
    /\ GoesOn(c, "known", IF visitors = Absent THEN "first" ELSE "compare")
    /\ UNCHANGED <<table, now, loaded, calls, outcomes, overlap>>

FirstVisit(c) ==
    /\ GoesOn(c, "first", "idle")
    /\ visitors' = 1
    /\ Grant
    /\ UNCHANGED <<reached, now, loaded, calls, overlap>>

\* Mutant: one call too many.
CompareOneLate(c) ==
    /\ GoesOn(c, "compare", IF visitors = Limit + 1 THEN "limited" ELSE "load")
    /\ UNCHANGED <<table, now, loaded, calls, outcomes, overlap>>

\* Mutant: one call too few.
CompareOneEarly(c) ==
    /\ GoesOn(c, "compare", IF visitors + 1 = Limit THEN "limited" ELSE "load")
    /\ UNCHANGED <<table, now, loaded, calls, outcomes, overlap>>

(* elif self._visitors[visitor_id] == self._MAX_VISITOR_LIMIT *)
CompareLimit(c) ==
    /\ GoesOn(c, "compare", IF visitors = Limit THEN "limited" ELSE "load")
    /\ UNCHANGED <<table, now, loaded, calls, outcomes, overlap>>

(* self._visitors[visitor_id] += 1 reads the count ... *)
LoadVisits(c) ==
    /\ GoesOn(c, "load", "store")
    /\ loaded' = [loaded EXCEPT ![c] = visitors]
    /\ UNCHANGED <<table, now, calls, outcomes, overlap>>

(* ... and writes it back. *)
StoreVisits(c) ==
    /\ GoesOn(c, "store", "idle")
    /\ visitors' = loaded[c] + 1
    /\ Grant
    /\ UNCHANGED <<reached, now, loaded, calls, overlap>>

(* if visitor_id not in self._visitors_limit_reached_time *)
TestReached(c) ==
    /\ GoesOn(c, "limited", IF reached = Absent THEN "mark" ELSE "elapsed")
    /\ UNCHANGED <<table, now, loaded, calls, outcomes, overlap>>

\* Mutant: the clock is started in the past.
MarkWindowStart(c) ==
    /\ GoesOn(c, "mark", "idle")
    /\ reached' = now - (Period + 1)
    /\ Deny
    /\ UNCHANGED <<visitors, now, loaded, calls, overlap>>

(* The first call over the limit starts the clock. *)
MarkReached(c) ==
    /\ GoesOn(c, "mark", "idle")
    /\ reached' = now
    /\ Deny
    /\ UNCHANGED <<visitors, now, loaded, calls, overlap>>

(* (datetime.now() - reached).seconds > period; KeyError when another      *)
(* thread has removed the entry.                                           *)
TestElapsed(c) ==
    /\ calling[c] = "elapsed"
    /\ IF reached = Absent
       THEN GoesOn(c, "elapsed", "raised") /\ UNCHANGED outcomes
       ELSE IF (now - reached) % Day > Period
       THEN GoesOn(c, "elapsed", "reset") /\ UNCHANGED outcomes
       ELSE GoesOn(c, "elapsed", "idle") /\ Deny
    /\ UNCHANGED <<table, now, loaded, calls, overlap>>

ResetVisits(c) ==
    /\ GoesOn(c, "reset", "unmark")
    /\ visitors' = 1
    /\ UNCHANGED <<reached, now, loaded, calls, outcomes, overlap>>

(* del self._visitors_limit_reached_time[visitor_id]; return True *)
Unmark(c) ==
    /\ GoesOn(c, "unmark", IF reached = Absent THEN "raised" ELSE "idle")
    /\ reached' = Absent
    /\ IF reached = Absent THEN UNCHANGED outcomes ELSE Grant
    /\ UNCHANGED <<visitors, now, loaded, calls, overlap>>

Tick ==
    /\ now < MaxTime
    /\ now' = now + 1
    /\ UNCHANGED <<table, calling, loaded, calls, outcomes, overlap>>

CanInvoke(c) ==
    \/ Call(c)
    \/ TestKnown(c)
    \/ FirstVisit(c)
    \/ CompareLimit(c)
    \/ LoadVisits(c)
    \/ StoreVisits(c)
    \/ TestReached(c)
    \/ MarkReached(c)
    \/ TestElapsed(c)
    \/ ResetVisits(c)
    \/ Unmark(c)

LimiterNext == Tick \/ \E c \in Clients : CanInvoke(c)

LimiterSpec == LimiterInit /\ [][LimiterNext]_limiterVars

-----------------------------------------------------------------------------
\* The type of every variable.
LimiterTypeOK ==
    /\ visitors \in Nat \cup {Absent}
    /\ reached \in Nat \cup {Absent}
    /\ now \in Nat
    /\ calling \in [Clients -> {"idle", "known", "first", "compare", "load", "store",
                                "limited", "mark", "elapsed", "reset", "unmark", "raised"}]
    /\ loaded \in [Clients -> Nat]
    /\ calls \in [Clients -> Nat]
    /\ granted \in Seq(Nat)
    /\ refused \subseteq Nat
    /\ overlap \in BOOLEAN

\* As long as no two calls overlap, no window of Period seconds, wherever it
\* starts, has more than Limit grants, although the count is reset and its clock
\* starts only at the first refusal.
LimitKeptWithoutOverlap ==
    overlap \/ \A from \in 0..now :
        Cardinality({i \in DOMAIN granted : granted[i] \in from..(from + Period)}) <= Limit

\* Lost updates and double resets never cost a client: whoever is refused, Limit
\* calls have been granted before.
NoEarlyRefusal == refused # {} => Len(granted) >= Limit

\* The limit is kept from both sides.
LimitExact == LimitKeptWithoutOverlap /\ NoEarlyRefusal
=============================================================================
