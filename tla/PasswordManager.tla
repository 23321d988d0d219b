--------------------------- MODULE PasswordManager ---------------------------
(***************************************************************************)
(* core/password_manager.py, called by SSHServerInterface.                 *)
(* check_auth_password: one PasswordManager object shared by the transport *)
(* threads of all SSH connections, with no lock.                           *)
(*                                                                         *)
(* Every access to shared state in attempt() is a step of its own, since   *)
(* a thread switch can happen between any two of them.  The dictionaries   *)
(* {"threshold", "count"} are objects: a thread keeps a reference to the   *)
(* one it fetched, also after another thread removed it from _tracking.    *)
(***************************************************************************)
EXTENDS Naturals, Sequences, FiniteSets

CONSTANTS
    Conns,          \* SSH connections; a connection is also its session id
    IPs,            \* client addresses
    NoIP,           \* no client_ip was passed: attempts are counted by session
    ClientIP,       \* ClientIP[c]: the address connection c comes from
    Passwords,
    NoPassword,     \* no attempt was made on the connection
    Configured,     \* _MASTER_PASSWORD and config["passwords"]
    Long,           \* passwords with len(password) > password_max_length
    MinAttempts,    \* password_min_attempts
    MaxAttempts,    \* password_max_attempts
    EarlySuccess,   \* password_early_success_probability > 0
    SerialClients,  \* TRUE: a client waits for one answer before it tries again
    MaxTries        \* bound: password attempts on one connection

ASSUME PMAssumption ==
    /\ ClientIP \in [Conns -> IPs \cup {NoIP}]
    /\ Configured \subseteq Passwords
    /\ Long \subseteq Passwords
    /\ MinAttempts \in Nat \ {0}
    /\ MaxAttempts \in Nat
    /\ MinAttempts <= MaxAttempts
    /\ EarlySuccess \in BOOLEAN
    /\ SerialClients \in BOOLEAN
    /\ MaxTries \in Nat

\* tracking_key = client_ip or session.session_id
Key(c) == IF ClientIP[c] = NoIP THEN c ELSE ClientIP[c]
Keys == {Key(c) : c \in Conns}

VARIABLES
    allowed,    \* _allowed
    blacklist,  \* _blacklist
    tracking,   \* _tracking: key -> index into records, 0 when absent
    records,    \* every tracking dictionary made so far
    pc,         \* pc[c]: where connection c's thread is
    pw,         \* pw[c]: the password being tried
    ref,        \* ref[c]: the local variable "state" of attempt()
    loaded,     \* loaded[c]: the count read by  state["count"] += 1
    last,       \* last[c]: session["_last_auth_attempt"]
    logged,     \* logged[c]: session["_auth_attempts"], auth_attempt events written
    tries,      \* history: attempts begun on c
    spent,      \* history: spent[k], counted attempts of key k
    failures    \* history: failures[k], rejected since k was last accepted

shared == <<allowed, blacklist, tracking, records>>
local == <<pw, ref, loaded, last, logged, tries>>
history == <<spent, failures>>
vars == <<allowed, blacklist, tracking, records, pc, local, history>>

-----------------------------------------------------------------------------
Absent == 0

Attempt(num, threshold, success) ==
    [attempt_number |-> num, required_attempts |-> threshold, success |-> success]

\* Connections with an attempt under way.
Busy(c) == pc[c] \notin {"idle", "open", "raised"}

Goto(c, from, to) == pc[c] = from /\ pc' = [pc EXCEPT ![c] = to]

Init ==
    /\ allowed = Configured
    /\ blacklist = {}
    /\ tracking = [k \in Keys |-> Absent]
    /\ records = <<>>
    /\ pc = [c \in Conns |-> "idle"]
    /\ pw = [c \in Conns |-> NoPassword]
    /\ ref = [c \in Conns |-> Absent]
    /\ loaded = [c \in Conns |-> 0]
    /\ last = [c \in Conns |-> Attempt(0, 0, FALSE)]
    /\ logged = [c \in Conns |-> 0]
    /\ tries = [c \in Conns |-> 0]
    /\ spent = [k \in Keys |-> 0]
    /\ failures = [k \in Keys |-> 0]

-----------------------------------------------------------------------------
(* check_auth_password is called by the transport thread of c. *)
Begin(c, p) ==
    /\ Goto(c, "idle", "check")
    /\ tries[c] < MaxTries
    /\ SerialClients => \A d \in Conns : Key(d) = Key(c) => ~Busy(d)
    /\ pw' = [pw EXCEPT ![c] = p]
    /\ tries' = [tries EXCEPT ![c] = @ + 1]
    /\ UNCHANGED <<shared, ref, loaded, last, logged, history>>

(* A password of _allowed is accepted at once, whoever sends it. *)
AcceptAllowed(c) ==
    /\ Goto(c, "check", "log")
    /\ pw[c] \in allowed
    /\ last' = [last EXCEPT ![c] = Attempt(1, 1, TRUE)]
    /\ UNCHANGED <<shared, pw, ref, loaded, logged, tries, history>>

(* A password that is too long is blacklisted and never counted. *)
RejectLong(c) ==
    /\ Goto(c, "check", "log")
    /\ pw[c] \notin allowed
    /\ pw[c] \in Long
    /\ blacklist' = blacklist \cup {pw[c]}
    /\ last' = [last EXCEPT ![c] = Attempt(0, 0, FALSE)]
    /\ UNCHANGED <<allowed, tracking, records, pw, ref, loaded, logged, tries, history>>

\* Mutant: the length is not tested again.
CountAnyLength(c) ==
    /\ Goto(c, "check", "lookup")
    /\ pw[c] \notin allowed
    /\ UNCHANGED <<shared, local, history>>

CountAttempt(c) ==
    /\ Goto(c, "check", "lookup")
    /\ pw[c] \notin allowed
    /\ pw[c] \notin Long
    /\ UNCHANGED <<shared, local, history>>

\* Mutant: every attempt makes a new dictionary.
LookupNever(c) ==
    /\ Goto(c, "lookup", "create")
    /\ UNCHANGED <<shared, local, history>>

(* _state: if key not in self._tracking *)
LookupState(c) ==
    /\ Goto(c, "lookup", IF tracking[Key(c)] = Absent THEN "create" ELSE "fetch")
    /\ UNCHANGED <<shared, local, history>>

\* Mutant: the threshold may be one above the maximum.
CreateBeyondMax(c) ==
    /\ Goto(c, "create", "fetch")
    /\ \E threshold \in MinAttempts..(MaxAttempts + 1) :
          records' = Append(records, [key |-> Key(c), threshold |-> threshold, count |-> 0])
    /\ tracking' = [tracking EXCEPT ![Key(c)] = Len(records) + 1]
    /\ UNCHANGED <<allowed, blacklist, local, history>>

(* _state: a new dictionary with a random threshold replaces what is there. *)
CreateState(c) ==
    /\ Goto(c, "create", "fetch")
    /\ \E threshold \in MinAttempts..MaxAttempts :
          records' = Append(records, [key |-> Key(c), threshold |-> threshold, count |-> 0])
    /\ tracking' = [tracking EXCEPT ![Key(c)] = Len(records) + 1]
    /\ UNCHANGED <<allowed, blacklist, local, history>>

\* Mutant: the dictionary made last, whoever it belongs to.
FetchNewest(c) ==
    /\ Goto(c, "fetch", "load")
    /\ ref' = [ref EXCEPT ![c] = Len(records)]
    /\ UNCHANGED <<shared, pw, loaded, last, logged, tries, history>>

(* _state: return self._tracking[key], a second lookup: KeyError when     *)
(* another thread has deleted the key since.                              *)
FetchState(c) ==
    /\ IF tracking[Key(c)] = Absent
       THEN Goto(c, "fetch", "raised") /\ UNCHANGED ref
       ELSE Goto(c, "fetch", "load") /\ ref' = [ref EXCEPT ![c] = tracking[Key(c)]]
    /\ UNCHANGED <<shared, pw, loaded, last, logged, tries, history>>

(* state["count"] += 1 reads the count ... *)
LoadCount(c) ==
    /\ Goto(c, "load", "store")
    /\ loaded' = [loaded EXCEPT ![c] = records[ref[c]].count]
    /\ spent' = [spent EXCEPT ![Key(c)] = @ + 1]
    /\ UNCHANGED <<shared, pw, ref, last, logged, tries, failures>>

(* ... and writes it back. *)
StoreCount(c) ==
    /\ Goto(c, "store", "decide")
    /\ records' = [records EXCEPT ![ref[c]].count = loaded[c] + 1]
    /\ UNCHANGED <<allowed, blacklist, tracking, local, history>>

\* Mutant: the attempt before the threshold succeeds.
OutcomesOneEarly(r) ==
    IF r.count + 1 >= r.threshold THEN {TRUE}
    ELSE IF EarlySuccess THEN BOOLEAN ELSE {FALSE}

(* The outcomes the threshold and random.random() leave open. *)
Outcomes(r) ==
    IF r.count >= r.threshold THEN {TRUE}
    ELSE IF EarlySuccess THEN BOOLEAN ELSE {FALSE}

(* attempt_num = state["count"], the decision, and _record_attempt. *)
Decide(c) ==
    /\ pc[c] = "decide"
    /\ LET r == records[ref[c]]
       IN  \E success \in Outcomes(r) :
              /\ Goto(c, "decide", IF success THEN "allow" ELSE "log")
              /\ last' = [last EXCEPT ![c] = Attempt(r.count, r.threshold, success)]
              /\ failures' = [failures EXCEPT ![Key(c)] = IF success THEN 0 ELSE @ + 1]
    /\ UNCHANGED <<shared, pw, ref, loaded, logged, tries, spent>>

(* self._allowed.add(password) *)
AllowPassword(c) ==
    /\ Goto(c, "allow", "delete")
    /\ allowed' = allowed \cup {pw[c]}
    /\ UNCHANGED <<blacklist, tracking, records, local, history>>

\* Mutant: a success leaves the counter.
KeepState(c) ==
    /\ Goto(c, "delete", "log")
    /\ UNCHANGED <<shared, local, history>>

(* del self._tracking[key]: KeyError when it is gone already.  The entry   *)
(* deleted is the one in the table now, not the one this thread counted in.*)
DeleteState(c) ==
    /\ Goto(c, "delete", IF tracking[Key(c)] = Absent THEN "raised" ELSE "log")
    /\ tracking' = [tracking EXCEPT ![Key(c)] = Absent]
    /\ UNCHANGED <<allowed, blacklist, records, local, history>>

\* Mutant: failures are not logged.
LogSuccessOnly(c) ==
    /\ Goto(c, "log", IF last[c].success THEN "open" ELSE "idle")
    /\ logged' = [logged EXCEPT ![c] = IF last[c].success THEN @ + 1 ELSE @]
    /\ UNCHANGED <<shared, pw, ref, loaded, last, tries, history>>

(* The rest of check_auth_password: log_auth_attempt, then AUTH_FAILED or  *)
(* the backend session and AUTH_SUCCESSFUL.                                *)
LogAttempt(c) ==
    /\ Goto(c, "log", IF last[c].success THEN "open" ELSE "idle")
    /\ logged' = [logged EXCEPT ![c] = @ + 1]
    /\ UNCHANGED <<shared, pw, ref, loaded, last, tries, history>>

Step(c) ==
    \/ \E p \in Passwords : Begin(c, p)
    \/ AcceptAllowed(c)
    \/ RejectLong(c)
    \/ CountAttempt(c)
    \/ LookupState(c)
    \/ CreateState(c)
    \/ FetchState(c)
    \/ LoadCount(c)
    \/ StoreCount(c)
    \/ Decide(c)
    \/ AllowPassword(c)
    \/ DeleteState(c)
    \/ LogAttempt(c)

Next == \E c \in Conns : Step(c)

Spec == Init /\ [][Next]_vars

-----------------------------------------------------------------------------
Places ==
    {"idle", "check", "lookup", "create", "fetch", "load", "store", "decide",
     "allow", "delete", "log", "open", "raised"}

\* The type of every variable.
TypeOK ==
    /\ allowed \subseteq Passwords
    /\ blacklist \subseteq Passwords
    /\ records \in Seq([key : Keys, threshold : MinAttempts..MaxAttempts, count : Nat])
    /\ tracking \in [Keys -> 0..Len(records)]
    /\ pc \in [Conns -> Places]
    /\ pw \in [Conns -> Passwords \cup {NoPassword}]
    /\ ref \in [Conns -> 0..Len(records)]
    /\ loaded \in [Conns -> Nat]
    /\ last \in [Conns -> [attempt_number : Nat, required_attempts : Nat, success : BOOLEAN]]
    /\ logged \in [Conns -> Nat]
    /\ tries \in [Conns -> Nat]
    /\ spent \in [Keys -> Nat]
    /\ failures \in [Keys -> Nat]

\* "passwords definitively rejected (too long) - never accepted": whatever the
\* interleaving, a blacklisted password is never added to _allowed and no
\* connection is authenticated with one.
BlacklistNeverAccepted ==
    /\ blacklist \cap allowed = {}
    /\ \A c \in Conns : pc[c] = "open" => pw[c] \notin blacklist

\* Lost updates of the unlocked counter only ever delay an acceptance: without
\* early success, a password is learned only after some client has really made
\* password_min_attempts counted attempts.
Earned ==
    allowed # Configured =>
        EarlySuccess \/ \E k \in Keys : spent[k] >= MinAttempts

\* The number a client is told and the log shows is never larger than the number
\* of attempts the client made, although several threads update the counter.
CountNeverAhead ==
    \A c \in Conns :
        pc[c] \in {"allow", "delete"} => last[c].attempt_number <= spent[Key(c)]

\* "Every attempt is logged (success or failure)": when check_auth_password is
\* over, with an answer or an exception, the attempt is in the event log.
EveryAttemptLogged ==
    \A c \in Conns : ~Busy(c) => logged[c] = tries[c]

\* "Attempts are tracked per client IP so the count survives reconnects": while
\* no attempt of a key is under way, its counter is the number of attempts that
\* were rejected since it was last accepted.
CountSurvivesReconnects ==
    \A k \in Keys :
        (\A c \in Conns : Key(c) = k => ~Busy(c)) =>
            failures[k] = IF tracking[k] = Absent THEN 0 ELSE records[tracking[k]].count

\* Nothing a client did is lost: neither the event of an attempt nor its count.
AttemptsKept == EveryAttemptLogged /\ CountSurvivesReconnects

-----------------------------------------------------------------------------
(* The refinement mapping: an attempt takes effect when it is decided, or, *)
(* if it is accepted, when the password becomes allowed.                   *)
StreakOf(k) ==
    LET at(places) == \E c \in Conns : Key(c) = k /\ pc[c] \in places
    IN  IF tracking[k] = Absent \/ at({"delete"}) THEN 0
        ELSE records[tracking[k]].count - (IF at({"decide", "allow"}) THEN 1 ELSE 0)

Auth == INSTANCE DeferredAuth WITH streak <- [k \in Keys |-> StreakOf(k)]

\* For clients that wait for their answers, the thirteen interleaved steps are
\* one indivisible Accept or Reject of the abstract validator.
ImplementsDeferredAuth == Auth!Spec
=============================================================================
