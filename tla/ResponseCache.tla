---------------------------- MODULE ResponseCache ----------------------------
(***************************************************************************)
(* infra/data_handler.py DataHandler.request over infra/data_store.py      *)
(* SqliteDataStore: the answer to an attacker's input is looked up in one  *)
(* table, first under its normalized text, then under its raw text, and    *)
(* asked of the LLM when both miss.  The threads of all sessions share the *)
(* table; each SQL statement is atomic, a request is not.                  *)
(*                                                                         *)
(* store() always INSERTs and search() fetches one row without ORDER BY or *)
(* an index, which SQLite answers with the oldest: the table is a sequence *)
(* of rows of which the first with the key counts.  When the limiter       *)
(* refuses is left open here; InvokeLimiter.tla has its detail.            *)
(***************************************************************************)
EXTENDS Naturals, Sequences, FiniteSets

CONSTANTS
    Threads,      \* session threads
    Raws,         \* attacker inputs as typed
    Norm,         \* Norm[q]: normalize_lookup_key(q), itself an input
    Static,       \* the data file: a sequence of [key, data]
    Replies,      \* the texts the LLM can answer with, without the empty one
    Empty,        \* ""
    EmptyReplies, \* TRUE: the LLM may answer ""
    Refusal,      \* "Internal error. Please try again later."
    NoInput,
    NoData,
    MaxRequests,  \* bound: requests of one thread
    MaxRestarts   \* bound: restarts of the honeypot process

Texts == Replies \cup {Empty}
Row == [key : Raws, data : Texts]

ASSUME RCAssumption ==
    /\ Norm \in [Raws -> Raws]
    /\ \A q \in Raws : Norm[Norm[q]] = Norm[q]
    /\ Static \in Seq(Row)
    /\ Empty \notin Replies
    /\ Refusal \notin Texts
    /\ NoInput \notin Raws
    /\ NoData \notin Texts
    /\ EmptyReplies \in BOOLEAN
    /\ MaxRequests \in Nat
    /\ MaxRestarts \in Nat

VARIABLES
    rows,      \* the honeypot_data table; it outlives the process
    pc,        \* pc[t]: where t's call of request() is
    raw,       \* raw[t]: its argument
    found,     \* found[t]: its local result or response
    requests,  \* history: requests[t], calls begun by t
    restarts,  \* history: restarts so far
    settled,   \* history: settled[t], the table had an answer when t's call began
    replied,   \* history: replied[k], what the LLM answered to inputs that normalize to k
    told,      \* history: told[q], answers sent to q, refusals and failures apart
    contested  \* history: keys that two requests have missed at the same time

local == <<pc, raw, found, requests, settled>>
history == <<restarts, replied, told, contested>>
vars == <<rows, local, history>>

-----------------------------------------------------------------------------
\* Mutant: the newest row counts.
FirstNewest(k) ==
    {rows[i].data : i \in {j \in DOMAIN rows :
        rows[j].key = k /\ \A l \in (j + 1)..Len(rows) : rows[l].key # k}}

\* The data of the first row with key k; no element when there is none.
First(k) ==
    {rows[i].data : i \in {j \in DOMAIN rows :
        rows[j].key = k /\ \A l \in 1..(j - 1) : rows[l].key # k}}

\* What  if result:  lets through: the empty text is no answer.
Hit(k) == First(k) \ {Empty}

Key(t) == Norm[raw[t]]

\* t's request has missed in the table and has not stored an answer yet.
Missed(t) == pc[t] \in {"raw", "alias", "limit", "llm", "store"}

Goto(t, from, to) == pc[t] = from /\ pc' = [pc EXCEPT ![t] = to]

Init ==
    /\ rows = Static
    /\ pc = [t \in Threads |-> "idle"]
    /\ raw = [t \in Threads |-> NoInput]
    /\ found = [t \in Threads |-> NoData]
    /\ requests = [t \in Threads |-> 0]
    /\ restarts = 0
    /\ settled = [t \in Threads |-> FALSE]
    /\ replied = [k \in Raws |-> {}]
    /\ told = [q \in Raws |-> {}]
    /\ contested = {}

-----------------------------------------------------------------------------
Insert(k, d) == rows' = Append(rows, [key |-> k, data |-> d])

Tell(t, d) == told' = [told EXCEPT ![raw[t]] = @ \cup {d}]

Request(t, q) ==
    /\ Goto(t, "idle", "search")
    /\ requests[t] < MaxRequests
    /\ raw' = [raw EXCEPT ![t] = q]
    /\ found' = [found EXCEPT ![t] = NoData]
    /\ requests' = [requests EXCEPT ![t] = @ + 1]
    /\ settled' = [settled EXCEPT ![t] = Hit(Norm[q]) # {}]
    /\ UNCHANGED <<rows, history>>

(* self._data_store.search(lookup_info), answered from the table ... *)
SearchHit(t) ==
    /\ Goto(t, "search", "idle")
    /\ \E d \in Hit(Key(t)) : Tell(t, d)
    /\ UNCHANGED <<rows, raw, found, requests, settled, restarts, replied, contested>>

(* ... or not: the raw text is tried only when it is another key. *)
SearchMiss(t) ==
    /\ Goto(t, "search", IF Key(t) # raw[t] THEN "raw" ELSE "limit")
    /\ Hit(Key(t)) = {}
    /\ contested' = contested \cup
          {k \in {Key(t)} : \E u \in Threads \ {t} : Missed(u) /\ Key(u) = k}
    /\ UNCHANGED <<rows, raw, found, requests, settled, restarts, replied, told>>

(* self._data_store.search(raw_info) *)
SearchRaw(t) ==
    /\ \/ /\ Goto(t, "raw", "alias")
          /\ \E d \in Hit(raw[t]) : found' = [found EXCEPT ![t] = d]
       \/ /\ Goto(t, "raw", "limit")
          /\ Hit(raw[t]) = {}
          /\ UNCHANGED found
    /\ UNCHANGED <<rows, raw, requests, settled, history>>

\* Mutant: the alias gets the raw key.
StoreAliasUnderRaw(t) ==
    /\ Goto(t, "alias", "idle")
    /\ Insert(raw[t], found[t])
    /\ Tell(t, found[t])
    /\ UNCHANGED <<raw, found, requests, settled, restarts, replied, contested>>

(* A hit under the raw text is stored under the normalized one as well. *)
StoreAlias(t) ==
    /\ Goto(t, "alias", "idle")
    /\ Insert(Key(t), found[t])
    /\ Tell(t, found[t])
    /\ UNCHANGED <<raw, found, requests, settled, restarts, replied, contested>>

(* self._limiter.can_invoke("visitor") returns True ... *)
Invoke(t) ==
    /\ Goto(t, "limit", "llm")
    /\ UNCHANGED <<rows, raw, found, requests, settled, history>>

\* Mutant: a refusal is stored too.
RefuseAndStore(t) ==
    /\ Goto(t, "limit", "store")
    /\ found' = [found EXCEPT ![t] = Refusal]
    /\ UNCHANGED <<rows, raw, requests, settled, history>>

(* ... or False: the refusal is the answer, and is not stored. *)
Refuse(t) ==
    /\ Goto(t, "limit", "idle")
    /\ found' = [found EXCEPT ![t] = Refusal]
    /\ UNCHANGED <<rows, raw, requests, settled, history>>

(* invoke_llm returns; other threads run while it waits for the network. *)
Reply(t) ==
    /\ Goto(t, "llm", "store")
    /\ \E d \in Replies \cup (IF EmptyReplies THEN {Empty} ELSE {}) :
          /\ found' = [found EXCEPT ![t] = d]
          /\ replied' = [replied EXCEPT ![Key(t)] = @ \cup {d}]
    /\ UNCHANGED <<rows, raw, requests, settled, restarts, told, contested>>

\* Mutant: the key is replaced.
StoreReplace(t) ==
    /\ Goto(t, "store", "idle")
    /\ rows' = Append(SelectSeq(rows, LAMBDA r : r.key # Key(t)),
                      [key |-> Key(t), data |-> found[t]])
    /\ Tell(t, found[t])
    /\ UNCHANGED <<raw, found, requests, settled, restarts, replied, contested>>

\* Mutant: the reply gets the raw key.
StoreUnderRaw(t) ==
    /\ Goto(t, "store", "idle")
    /\ Insert(raw[t], found[t])
    /\ Tell(t, found[t])
    /\ UNCHANGED <<raw, found, requests, settled, restarts, replied, contested>>

(* self._data_store.store(lookup_info, response), and the answer. *)
StoreReply(t) ==
    /\ Goto(t, "store", "idle")
    /\ Insert(Key(t), found[t])
    /\ Tell(t, found[t])
    /\ UNCHANGED <<raw, found, requests, settled, restarts, replied, contested>>

(* An exception of the provider, the limiter or SQLite ends the request: *)
(* nothing is stored.                                                    *)
Fail(t) ==
    /\ pc[t] # "idle"
    /\ Goto(t, pc[t], "idle")
    /\ UNCHANGED <<rows, raw, found, requests, settled, history>>

\* Mutant: the table is emptied.
RestartFresh ==
    /\ restarts < MaxRestarts
    /\ restarts' = restarts + 1
    /\ pc' = [t \in Threads |-> "idle"]
    /\ raw' = [t \in Threads |-> NoInput]
    /\ found' = [t \in Threads |-> NoData]
    /\ settled' = [t \in Threads |-> FALSE]
    /\ rows' = Static
    /\ UNCHANGED <<requests, replied, told, contested>>

(* The process ends and DataHandler.__init__ runs again: the table is kept *)
(* and load_static_content appends the whole data file once more.          *)
Restart ==
    /\ restarts < MaxRestarts
    /\ restarts' = restarts + 1
    /\ pc' = [t \in Threads |-> "idle"]
    /\ raw' = [t \in Threads |-> NoInput]
    /\ found' = [t \in Threads |-> NoData]
    /\ settled' = [t \in Threads |-> FALSE]
    /\ rows' = rows \o Static
    /\ UNCHANGED <<requests, replied, told, contested>>

Step(t) ==
    \/ \E q \in Raws : Request(t, q)
    \/ SearchHit(t)
    \/ SearchMiss(t)
    \/ SearchRaw(t)
    \/ StoreAlias(t)
    \/ Invoke(t)
    \/ Refuse(t)
    \/ Reply(t)
    \/ StoreReply(t)
    \/ Fail(t)

Next == Restart \/ \E t \in Threads : Step(t)

Spec == Init /\ [][Next]_vars

-----------------------------------------------------------------------------
\* The type of every variable; what is about to be stored is a text, so that a
\* refusal or a missing result never reaches the table.
TypeOK ==
    /\ rows \in Seq(Row)
    /\ pc \in [Threads -> {"idle", "search", "raw", "alias", "limit", "llm", "store"}]
    /\ raw \in [Threads -> Raws \cup {NoInput}]
    /\ found \in [Threads -> Texts \cup {Refusal, NoData}]
    /\ requests \in [Threads -> Nat]
    /\ restarts \in Nat
    /\ settled \in [Threads -> BOOLEAN]
    /\ replied \in [Raws -> SUBSET Texts]
    /\ told \in [Raws -> SUBSET Texts]
    /\ contested \subseteq Raws
    /\ \A t \in Threads : pc[t] # "idle" => raw[t] \in Raws
    /\ \A t \in Threads : pc[t] \in {"alias", "store"} => found[t] \in Texts

\* Once a key has a row, no step of any session, no second reply that raced with
\* the first, and no restart changes what a search for the key returns.
FirstRowStable == [][\A k \in Raws : First(k) # {} => First(k)' = First(k)]_vars

\* Every row comes from the data file, under the file's key or its normal form,
\* or from a reply of the LLM to an input with the row's key: refusals, answers
\* to other inputs and results of other threads are never cached.
Provenance ==
    \A i \in DOMAIN rows :
        \/ \E s \in DOMAIN Static :
              /\ rows[i].data = Static[s].data
              /\ rows[i].key \in {Static[s].key, Norm[Static[s].key]}
        \/ rows[i].data \in replied[rows[i].key]

\* The LLM is never asked about an input that had an answer in the table when the
\* request began, whatever other sessions stored in the meantime.
NoCallOnceAnswered ==
    \A t \in Threads : pc[t] \in {"limit", "llm", "store"} => ~settled[t]

\* What the next two properties except: the key was missed by two requests at a
\* time, or its first row is the empty text, which  if result:  takes for a miss.
Excepted(k) == k \in contested \/ Empty \in First(k)

\* "equivalent whitespace variants reuse the same response": all inputs with one
\* normal form are given one answer, also after failures and restarts.
OneAnswer ==
    \A p, q \in Raws :
        Norm[p] = Norm[q] =>
            Excepted(Norm[p]) \/ \A d \in told[p], e \in told[q] : d = e

\* A normal form that has been answered is not sent to the LLM again.
AskedOnce ==
    \A t \in Threads : pc[t] = "llm" =>
        Excepted(Key(t)) \/ \A q \in Raws : Norm[q] = Key(t) => told[q] = {}

\* Equivalent inputs share the answer and the call.
AnswersShared == OneAnswer /\ AskedOnce
=============================================================================
