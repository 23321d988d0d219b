--------------------------- MODULE LlmCallsProofs ---------------------------
(***************************************************************************)
(* The two things between a session and the LLM, for any number of session *)
(* threads.                                                                *)
(*                                                                         *)
(* The response cache, for any inputs, file entries, replies and restarts: *)
(* what the first row of a key says never changes, and a request whose key *)
(* was answered never calls the LLM.                                       *)
(*                                                                         *)
(* The limiter, for any limit, period and clock.  Without a lock the count *)
(* may lose updates, so it is at most the number of grants, and nobody is  *)
(* refused too early.  While calls do not overlap, the grants fall into    *)
(* epochs: the count is the number of grants of the last epoch, and a new  *)
(* epoch begins more than Period after the last grant of the one before.   *)
(***************************************************************************)
EXTENDS ResponseCache, InvokeLimiter, FiniteSetTheorems, SequenceTheorems, WellFoundedInduction,
        TLAPS

\* A request that began after its key was answered has not missed: it is about to
\* find the answer.
SettledInv ==
    \A t \in Threads :
        settled[t] /\ pc[t] # "idle" => pc[t] = "search" /\ Hit(Key(t)) # {}

Inv == TypeOK /\ SettledInv

Local ==
    /\ pc \in [Threads -> {"idle", "search", "raw", "alias", "limit", "llm", "store"}]
    /\ raw \in [Threads -> Raws \cup {NoInput}]
    /\ found \in [Threads -> Texts \cup {Refusal, NoData}]
    /\ requests \in [Threads -> Nat]
    /\ settled \in [Threads -> BOOLEAN]
    /\ \A t \in Threads : pc[t] # "idle" => raw[t] \in Raws
    /\ \A t \in Threads : pc[t] \in {"alias", "store"} => found[t] \in Texts

History ==
    /\ restarts \in Nat
    /\ replied \in [Raws -> SUBSET Texts]
    /\ told \in [Raws -> SUBSET Texts]
    /\ contested \subseteq Raws

\* The type invariant in three parts, so that a proof can hide two of them.
LEMMA TypeParts == TypeOK <=> rows \in Seq(Row) /\ Local /\ History
BY DEF TypeOK, Local, History

-----------------------------------------------------------------------------
(* The table.                                                              *)

\* A table that was only appended to.
Extends == /\ rows \in Seq(Row) /\ rows' \in Seq(Row)
           /\ Len(rows) <= Len(rows')
           /\ \A i \in 1..Len(rows) : rows'[i] = rows[i]

\* A normal form is an input.
LEMMA NormType == ASSUME NEW q \in Raws PROVE Norm[q] \in Raws
BY RCAssumption DEF RCAssumption

\* Appending rows does not change which row of a key is the first.
LEMMA FirstKept ==
  ASSUME Extends, NEW k, First(k) # {}
  PROVE  First(k)' = First(k)
<1>1. PICK i \in DOMAIN rows : rows[i].key = k /\ \A l \in 1..(i - 1) : rows[l].key # k
  BY DEF First
<1>2. /\ DOMAIN rows = 1..Len(rows) /\ Len(rows) \in Nat
      /\ DOMAIN rows' = 1..Len(rows') /\ Len(rows') \in Nat
  BY DEF Extends
<1>3. First(k) = {rows[i].data}
  <2>1. \A j \in DOMAIN rows :
          (rows[j].key = k /\ \A l \in 1..(j - 1) : rows[l].key # k) => j = i
    BY <1>1, <1>2
  <2>2. QED
    BY <1>1, <2>1 DEF First
<1>4. First(k)' = {rows'[i].data}
  <2>1. /\ i \in DOMAIN rows' /\ rows'[i].key = k
        /\ \A l \in 1..(i - 1) : rows'[l].key # k
    BY <1>1, <1>2 DEF Extends
  <2>2. \A j \in DOMAIN rows' :
          (rows'[j].key = k /\ \A l \in 1..(j - 1) : rows'[l].key # k) => j = i
    BY <1>2, <2>1
  <2>3. QED
    BY <2>1, <2>2 DEF First
<1>5. QED
  BY <1>1, <1>2, <1>3, <1>4 DEF Extends

\* Inserting a row extends the table.
LEMMA InsertExtends ==
  ASSUME rows \in Seq(Row), NEW k \in Raws, NEW d \in Texts, Insert(k, d)
  PROVE  Extends
<1>1. [key |-> k, data |-> d] \in Row
  BY DEF Row
<1>2. QED
  BY <1>1, AppendProperties DEF Insert, Extends

\* Loading the data file once more extends the table.
LEMMA RestartExtends ==
  ASSUME rows \in Seq(Row), Restart
  PROVE  Extends
<1>1. Static \in Seq(Row)
  BY RCAssumption DEF RCAssumption
<1>2. QED
  BY <1>1, ConcatProperties DEF Restart, Extends

\* Every step extends the table or leaves it alone.
LEMMA NextExtends ==
  ASSUME TypeOK, [Next]_vars
  PROVE  Extends
<1>0. rows \in Seq(Row) /\ Local
  BY TypeParts
<1>1. ASSUME NEW t \in Threads, Step(t) PROVE Extends
  <2>1. CASE StoreAlias(t)
    <3>1. Key(t) \in Raws /\ found[t] \in Texts
      BY <1>0, <2>1, NormType DEF StoreAlias, Goto, Local, Key
    <3>2. QED
      BY <1>0, <2>1, <3>1, InsertExtends DEF StoreAlias
  <2>2. CASE StoreReply(t)
    <3>1. Key(t) \in Raws /\ found[t] \in Texts
      BY <1>0, <2>2, NormType DEF StoreReply, Goto, Local, Key
    <3>2. QED
      BY <1>0, <2>2, <3>1, InsertExtends DEF StoreReply
  <2>3. CASE UNCHANGED rows
    BY <1>0, <2>3 DEF Extends
  <2>4. QED
    BY <1>1, <2>1, <2>2, <2>3
       DEF Step, Request, SearchHit, SearchMiss, SearchRaw, Invoke, Refuse, Reply, Fail
<1>2. CASE Restart
  BY <1>0, <1>2, RestartExtends
<1>3. CASE UNCHANGED vars
  BY <1>0, <1>3 DEF vars, Extends
<1>4. QED
  BY <1>1, <1>2, <1>3 DEF Next

-----------------------------------------------------------------------------
(* Types.                                                                  *)

\* The type invariant holds at the start.
LEMMA InitType == Init => TypeOK
<1> SUFFICES ASSUME Init PROVE TypeOK
  OBVIOUS
<1>1. rows \in Seq(Row)
  BY RCAssumption DEF Init, RCAssumption
<1>2. Local
  BY DEF Init, Local
<1>3. History
  BY DEF Init, History
<1>4. QED
  BY <1>1, <1>2, <1>3, TypeParts

\* What a search returns is a text.
LEMMA FirstType == ASSUME rows \in Seq(Row), NEW k PROVE First(k) \subseteq Texts /\ Hit(k) \subseteq Texts
<1>1. \A i \in DOMAIN rows : rows[i] \in Row
  BY ElementOfSeq, LenProperties
<1>2. QED
  BY <1>1 DEF First, Hit, Row

\* A step keeps the types of the thread's variables.
LEMMA StepLocal ==
  ASSUME TypeOK, NEW t \in Threads, Step(t)
  PROVE  Local'
<1>0. rows \in Seq(Row) /\ Local
  BY TypeParts
<1>1. CASE \E q \in Raws : Request(t, q)
  BY <1>0, <1>1 DEF Request, Goto, Local
<1>2. CASE SearchHit(t)
  BY <1>0, <1>2 DEF SearchHit, Goto, Local
<1>3. CASE SearchMiss(t)
  BY <1>0, <1>3 DEF SearchMiss, Goto, Local
<1>4. CASE SearchRaw(t)
  <2>1. CASE \E d \in Texts : found' = [found EXCEPT ![t] = d]
    <3>1. PICK d \in Texts : found' = [found EXCEPT ![t] = d]
      BY <2>1
    <3>2. PICK to \in {"alias", "limit"} : pc[t] = "raw" /\ pc' = [pc EXCEPT ![t] = to]
      BY <1>4 DEF SearchRaw, Goto
    <3>3. QED
      BY <1>0, <1>4, <3>1, <3>2 DEF SearchRaw, Local
  <2>2. CASE Goto(t, "raw", "limit") /\ UNCHANGED found
    BY <1>0, <1>4, <2>2 DEF SearchRaw, Goto, Local
  <2>3. QED
    <3>1. Hit(raw[t]) \subseteq Texts
      BY <1>0, FirstType
    <3>2. QED
      BY <1>4, <2>1, <2>2, <3>1 DEF SearchRaw
<1>5. CASE StoreAlias(t)
  BY <1>0, <1>5 DEF StoreAlias, Goto, Local
<1>6. CASE Invoke(t)
  BY <1>0, <1>6 DEF Invoke, Goto, Local
<1>7. CASE Refuse(t)
  BY <1>0, <1>7 DEF Refuse, Goto, Local
<1>8. CASE Reply(t)
  <2>1. PICK d \in Texts : found' = [found EXCEPT ![t] = d]
    BY <1>8 DEF Reply, Texts
  <2>2. QED
    BY <1>0, <1>8, <2>1 DEF Reply, Goto, Local
<1>9. CASE StoreReply(t)
  BY <1>0, <1>9 DEF StoreReply, Goto, Local
<1>10. CASE Fail(t)
  BY <1>0, <1>10 DEF Fail, Goto, Local
<1>11. QED
  BY <1>1, <1>2, <1>3, <1>4, <1>5, <1>6, <1>7, <1>8, <1>9, <1>10 DEF Step

\* A step keeps the types of the history variables.
LEMMA StepHistory ==
  ASSUME TypeOK, NEW t \in Threads, Step(t)
  PROVE  History'
<1>0. rows \in Seq(Row) /\ Local /\ History
  BY TypeParts
<1>1. ASSUME NEW d \in Texts, Tell(t, d), pc[t] # "idle"
      PROVE  told' \in [Raws -> SUBSET Texts]
  BY <1>0, <1>1 DEF Tell, Local, History
<1>2. CASE SearchHit(t)
  <2>1. PICK d \in Texts : Tell(t, d)
    BY <1>0, <1>2, FirstType DEF SearchHit
  <2>2. QED
    BY <1>0, <1>1, <1>2, <2>1 DEF SearchHit, Goto, History
<1>3. CASE SearchMiss(t)
  <2>1. Key(t) \in Raws
    BY <1>0, <1>3, NormType DEF SearchMiss, Goto, Local, Key
  <2>2. QED
    BY <1>0, <1>3, <2>1 DEF SearchMiss, History
<1>4. CASE StoreAlias(t)
  BY <1>0, <1>1, <1>4 DEF StoreAlias, Goto, Local, History
<1>5. CASE Reply(t)
  <2>1. Key(t) \in Raws
    BY <1>0, <1>5, NormType DEF Reply, Goto, Local, Key
  <2>2. PICK d \in Texts : replied' = [replied EXCEPT ![Key(t)] = @ \cup {d}]
    BY <1>5 DEF Reply, Texts
  <2>3. QED
    BY <1>0, <1>5, <2>1, <2>2 DEF Reply, History
<1>6. CASE StoreReply(t)
  BY <1>0, <1>1, <1>6 DEF StoreReply, Goto, Local, History
<1>7. CASE UNCHANGED history
  BY <1>0, <1>7 DEF history, History
<1>8. QED
  BY <1>2, <1>3, <1>4, <1>5, <1>6, <1>7 DEF Step, Request, SearchRaw, Invoke, Refuse, Fail

\* The type invariant is inductive.
LEMMA NextType == TypeOK /\ [Next]_vars => TypeOK'
<1> SUFFICES ASSUME TypeOK, [Next]_vars PROVE TypeOK'
  OBVIOUS
<1>0. Local /\ History /\ rows' \in Seq(Row)
  BY TypeParts, NextExtends DEF Extends
<1>1. ASSUME NEW t \in Threads, Step(t) PROVE Local' /\ History'
  BY <1>1, StepLocal, StepHistory
<1>2. ASSUME Restart PROVE Local' /\ History'
  BY <1>0, <1>2 DEF Restart, Local, History
<1>3. ASSUME UNCHANGED vars PROVE Local' /\ History'
  BY <1>0, <1>3 DEF vars, local, history, Local, History
<1>4. Local' /\ History'
  BY <1>1, <1>2, <1>3 DEF Next
<1>5. QED
  BY <1>0, <1>4 DEF TypeOK, Local, History

\* Every variable keeps its type in every reachable state; in particular a refusal
\* of the limiter is never about to be stored.
THEOREM TypeCorrect == Spec => []TypeOK
BY InitType, NextType, PTL DEF Spec

\* What the first row of a key says never changes, whatever replies race and
\* however often the honeypot is restarted on the same table.
THEOREM StableAnswers == Spec => FirstRowStable
<1>1. TypeOK /\ [Next]_vars => [\A k \in Raws : First(k) # {} => First(k)' = First(k)]_vars
  BY NextExtends, FirstKept
<1>2. QED
  BY <1>1, TypeCorrect, PTL DEF Spec, FirstRowStable

-----------------------------------------------------------------------------
(* Requests that began when the answer was there.                          *)

\* A search that returned a text goes on doing so.
LEMMA HitKept ==
  ASSUME Extends, NEW k, Hit(k) # {}
  PROVE  Hit(k)' # {}
<1>1. First(k) # {}
  BY DEF Hit
<1>2. First(k)' = First(k)
  BY <1>1, FirstKept
<1>3. QED
  BY <1>2 DEF Hit

\* A step of a thread keeps the invariant for the other threads.
LEMMA SettledOthers ==
  ASSUME Inv, NEW t \in Threads, NEW u \in Threads \ {t}, Extends,
         pc'[u] = pc[u], raw'[u] = raw[u], settled'[u] = settled[u],
         settled[u], pc[u] # "idle"
  PROVE  pc'[u] = "search" /\ Hit(Key(u))' # {}
<1>1. pc[u] = "search" /\ Hit(Key(u)) # {}
  BY DEF Inv, SettledInv
<1>2. Key(u)' = Key(u)
  BY DEF Key
<1>3. Hit(Key(u))' # {}
  BY <1>1, <1>2, HitKept DEF Hit, First
<1>4. QED
  BY <1>1, <1>3

\* A step of a thread keeps the invariant for that thread: only a request that
\* begins makes it settled, and only a search that misses takes it further.
LEMMA SettledSelf ==
  ASSUME Inv, NEW t \in Threads, Step(t), settled'[t], pc'[t] # "idle"
  PROVE  pc'[t] = "search" /\ Hit(Key(t))' # {}
<1>0. Local
  BY TypeParts DEF Inv
<1>1. CASE \E q \in Raws : Request(t, q)
  <2>1. PICK q \in Raws : Request(t, q)
    BY <1>1
  <2>2. pc'[t] = "search" /\ Key(t)' = Norm[q] /\ Hit(Norm[q]) # {} /\ rows' = rows
    BY <1>0, <2>1 DEF Request, Goto, Key, Local
  <2>3. QED
    BY <2>2 DEF Hit, First
<1>2. CASE SearchMiss(t)
  BY <1>0, <1>2 DEF SearchMiss, Inv, SettledInv, Goto, Local
<1>3. CASE pc[t] \notin {"idle", "search"} /\ settled' = settled
  BY <1>3 DEF Inv, SettledInv
<1>4. CASE pc'[t] = "idle"
  BY <1>4
<1>5. QED
  BY <1>0, <1>1, <1>2, <1>3, <1>4
     DEF Step, SearchHit, SearchRaw, StoreAlias, Invoke, Refuse, Reply, StoreReply, Fail, Goto, Local

\* A step leaves the control, the input and the history of other threads alone.
LEMMA StepOthers ==
  ASSUME TypeOK, NEW t \in Threads, Step(t), NEW u \in Threads \ {t}
  PROVE  pc'[u] = pc[u] /\ raw'[u] = raw[u] /\ settled'[u] = settled[u]
<1>0. Local
  BY TypeParts
<1>1. pc'[u] = pc[u]
  BY <1>0 DEF Step, Request, SearchHit, SearchMiss, SearchRaw, StoreAlias, Invoke, Refuse,
     Reply, StoreReply, Fail, Goto, Local
<1>2. raw'[u] = raw[u] /\ settled'[u] = settled[u]
  BY <1>0 DEF Step, Request, SearchHit, SearchMiss, SearchRaw, StoreAlias, Invoke, Refuse,
     Reply, StoreReply, Fail, Local
<1>3. QED
  BY <1>1, <1>2

\* The invariant is inductive.
LEMMA NextInv == Inv /\ [Next]_vars => Inv'
<1> SUFFICES ASSUME Inv, [Next]_vars PROVE SettledInv'
  BY NextType DEF Inv
<1>0. Extends
  BY NextExtends DEF Inv
<1>1. ASSUME NEW t \in Threads, Step(t) PROVE SettledInv'
  <2> SUFFICES ASSUME NEW u \in Threads, settled'[u], pc'[u] # "idle"
               PROVE  pc'[u] = "search" /\ Hit(Key(u))' # {}
    BY DEF SettledInv, Hit, First, Key
  <2>1. CASE u = t
    BY <1>1, <2>1, SettledSelf
  <2>2. CASE u # t
    BY <1>0, <1>1, <2>2, StepOthers, SettledOthers DEF Inv
  <2>3. QED
    BY <2>1, <2>2
<1>2. ASSUME Restart PROVE SettledInv'
  BY <1>2 DEF Restart, SettledInv
<1>3. ASSUME UNCHANGED vars PROVE SettledInv'
  BY <1>3 DEF vars, local, Inv, SettledInv, Hit, First, Key
<1>4. QED
  BY <1>1, <1>2, <1>3 DEF Next

\* A request whose key had an answer when it began never asks the LLM, whatever
\* other sessions store and however often the honeypot restarts.
THEOREM AnsweredNotAsked == Spec => []NoCallOnceAnswered
<1>1. Init => Inv
  BY InitType DEF Inv, SettledInv, Init
<1>2. Inv => NoCallOnceAnswered
  BY TypeParts DEF Inv, SettledInv, NoCallOnceAnswered, Local
<1>3. QED
  BY <1>1, <1>2, NextInv, PTL DEF Spec

-----------------------------------------------------------------------------
(* Where the rows come from.                                               *)

\* A row that Provenance allows.
FromFile(k, d) ==
    \E s \in DOMAIN Static : d = Static[s].data /\ k \in {Static[s].key, Norm[Static[s].key]}
Sourced(r) == FromFile(r.key, r.data) \/ r.data \in replied[r.key]

\* Every row has a source; replies are kept under normal forms; what a thread is
\* about to store has a source, and it looks under its raw text only when that is
\* not a normal form.
RowsSourced == \A i \in 1..Len(rows) : Sourced(rows[i])
RepliesNormal == \A k \in Raws : replied[k] # {} => Norm[k] = k
ThreadSourced(t) ==
    /\ pc[t] = "store" => found[t] \in replied[Key(t)]
    /\ pc[t] \in {"raw", "alias"} => Key(t) # raw[t]
    /\ pc[t] = "alias" =>
          \E s \in DOMAIN Static : found[t] = Static[s].data /\ raw[t] = Static[s].key

SourceInv == RowsSourced /\ RepliesNormal /\ \A t \in Threads : ThreadSourced(t)

\* A row that gets a source keeps it.
LEMMA AppendSourced ==
  ASSUME rows \in Seq(Row), RowsSourced, NEW k \in Raws, NEW d \in Texts, Insert(k, d),
         UNCHANGED replied, FromFile(k, d) \/ d \in replied[k]
  PROVE  RowsSourced'
<1>1. [key |-> k, data |-> d] \in Row
  BY DEF Row
<1>2. /\ Len(rows') = Len(rows) + 1 /\ Len(rows) \in Nat
      /\ \A i \in 1..Len(rows) : rows'[i] = rows[i]
      /\ rows'[Len(rows) + 1] = [key |-> k, data |-> d]
  BY <1>1, AppendProperties, LenProperties DEF Insert
<1>3. SUFFICES ASSUME NEW i \in 1..Len(rows') PROVE Sourced(rows'[i])
  BY DEF RowsSourced, Sourced, FromFile
<1>4. CASE i \in 1..Len(rows)
  BY <1>2, <1>4 DEF RowsSourced
<1>5. CASE i = Len(rows) + 1
  BY <1>2, <1>5 DEF Sourced
<1>6. QED
  BY <1>2, <1>4, <1>5

\* The rows of the data file have a source, before and after a restart.
LEMMA StaticSourced ==
  /\ rows = Static => RowsSourced
  /\ rows \in Seq(Row) /\ RowsSourced /\ Restart => RowsSourced'
<1>0. Static \in Seq(Row) /\ Len(Static) \in Nat /\ DOMAIN Static = 1..Len(Static)
  BY LenProperties, RCAssumption DEF RCAssumption
<1>1. \A s \in 1..Len(Static) : Sourced(Static[s])
  BY <1>0 DEF Sourced, FromFile
<1>2. ASSUME rows = Static PROVE RowsSourced
  BY <1>1, <1>2 DEF RowsSourced
<1>3. ASSUME rows \in Seq(Row), RowsSourced, Restart PROVE RowsSourced'
  <2>1. /\ Len(rows') = Len(rows) + Len(Static) /\ Len(rows) \in Nat
        /\ \A i \in 1..Len(rows) : rows'[i] = rows[i]
        /\ \A i \in (Len(rows) + 1)..(Len(rows) + Len(Static)) :
              rows'[i] = Static[i - Len(rows)]
    BY <1>0, <1>3, ConcatProperties, LenProperties DEF Restart
  <2>2. SUFFICES ASSUME NEW i \in 1..Len(rows') PROVE Sourced(rows'[i])
    BY <1>3 DEF RowsSourced, Sourced, FromFile, Restart
  <2>3. CASE i \in 1..Len(rows)
    BY <1>3, <2>1, <2>3 DEF RowsSourced
  <2>4. CASE i \in (Len(rows) + 1)..(Len(rows) + Len(Static))
    <3>1. i - Len(rows) \in 1..Len(Static)
      BY <1>0, <2>1, <2>4
    <3>2. QED
      BY <1>1, <2>1, <2>4, <3>1
  <2>5. QED
    BY <1>0, <2>1, <2>3, <2>4
<1>4. QED
  BY <1>2, <1>3

\* Under a text that is not a normal form, only the data file has rows.
LEMMA RawFromFile ==
  ASSUME rows \in Seq(Row), SourceInv, NEW q \in Raws, Norm[q] # q, NEW d \in Hit(q)
  PROVE  \E s \in DOMAIN Static : d = Static[s].data /\ q = Static[s].key
<1>1. PICK i \in 1..Len(rows) : rows[i].key = q /\ rows[i].data = d
  BY LenProperties DEF Hit, First
<1>2. Sourced(rows[i])
  BY DEF SourceInv, RowsSourced
<1>3. d \notin replied[q]
  BY DEF SourceInv, RepliesNormal
<1>4. PICK s \in DOMAIN Static : d = Static[s].data /\ q \in {Static[s].key, Norm[Static[s].key]}
  BY <1>1, <1>2, <1>3 DEF Sourced, FromFile
<1>5. Static[s].key \in Raws
  <2>1. Static[s] \in Row
    BY ElementOfSeq, LenProperties, RCAssumption DEF RCAssumption
  <2>2. QED
    BY <2>1 DEF Row
<1>6. q # Norm[Static[s].key]
  BY <1>5, RCAssumption DEF RCAssumption
<1>7. QED
  BY <1>4, <1>6

\* A reply only adds to what the LLM has answered, under a normal form.
LEMMA ReplySourced ==
  ASSUME Local, History, SourceInv, NEW t \in Threads, Reply(t)
  PROVE  /\ RowsSourced' /\ RepliesNormal'
         /\ \A k \in Raws : replied[k] \subseteq replied'[k]
         /\ found'[t] \in replied'[Key(t)]
<1>1. raw[t] \in Raws /\ Key(t) \in Raws /\ Norm[Key(t)] = Key(t)
  BY NormType, RCAssumption DEF Reply, Goto, Local, Key, RCAssumption
<1>2. PICK d \in Texts : /\ found' = [found EXCEPT ![t] = d]
                         /\ replied' = [replied EXCEPT ![Key(t)] = @ \cup {d}]
  BY DEF Reply, Texts
<1>3. /\ \A k \in Raws : replied[k] \subseteq replied'[k]
      /\ \A k \in Raws \ {Key(t)} : replied'[k] = replied[k]
      /\ found'[t] \in replied'[Key(t)]
  BY <1>1, <1>2 DEF Local, History
<1>4. RepliesNormal'
  BY <1>1, <1>3 DEF SourceInv, RepliesNormal
<1>5. rows' = rows
  BY DEF Reply
<1>6. RowsSourced'
  <2>1. SUFFICES ASSUME NEW i \in 1..Len(rows), Sourced(rows[i])
                 PROVE  FromFile(rows[i].key, rows[i].data) \/ rows[i].data \in replied'[rows[i].key]
    BY <1>5 DEF SourceInv, RowsSourced, Sourced, FromFile
  <2>2. replied \in [Raws -> SUBSET Texts] /\ replied' = [replied EXCEPT ![Key(t)] = @ \cup replied'[Key(t)]]
    BY <1>1, <1>2 DEF History
  <2>3. replied[rows[i].key] \subseteq replied'[rows[i].key]
    BY <1>1, <1>2, <2>2
  <2>4. QED
    BY <2>1, <2>3 DEF Sourced
<1>7. QED
  BY <1>3, <1>4, <1>6

\* A step keeps the table and the replies sourced.
LEMMA StepSourced ==
  ASSUME TypeOK, SourceInv, NEW t \in Threads, Step(t)
  PROVE  /\ RowsSourced' /\ RepliesNormal'
         /\ \A k \in Raws : replied[k] \subseteq replied'[k]
<1>0. Local /\ History /\ rows \in Seq(Row) /\ RowsSourced /\ RepliesNormal /\ ThreadSourced(t)
  BY TypeParts DEF SourceInv
<1>1. CASE StoreAlias(t)
  <2>1. Key(t) \in Raws /\ found[t] \in Texts /\ Insert(Key(t), found[t]) /\ UNCHANGED replied
    BY <1>0, <1>1, NormType DEF StoreAlias, Goto, Local, Key
  <2>2. FromFile(Key(t), found[t])
    BY <1>0, <1>1 DEF StoreAlias, Goto, ThreadSourced, FromFile, Key
  <2>3. RowsSourced'
    BY <1>0, <2>1, <2>2, AppendSourced
  <2>4. QED
    BY <1>0, <2>1, <2>3 DEF RepliesNormal
<1>2. CASE StoreReply(t)
  <2>1. Key(t) \in Raws /\ found[t] \in Texts /\ Insert(Key(t), found[t]) /\ UNCHANGED replied
    BY <1>0, <1>2, NormType DEF StoreReply, Goto, Local, Key
  <2>2. found[t] \in replied[Key(t)]
    BY <1>0, <1>2 DEF StoreReply, Goto, ThreadSourced
  <2>3. RowsSourced'
    BY <1>0, <2>1, <2>2, AppendSourced
  <2>4. QED
    BY <1>0, <2>1, <2>3 DEF RepliesNormal
<1>3. CASE Reply(t)
  BY <1>0, <1>3, ReplySourced
<1>4. CASE UNCHANGED <<rows, replied>>
  BY <1>0, <1>4 DEF RowsSourced, RepliesNormal, Sourced, FromFile
<1>5. QED
  BY <1>1, <1>2, <1>3, <1>4
     DEF Step, Request, SearchHit, SearchMiss, SearchRaw, Invoke, Refuse, Fail, history

\* A step leaves what its thread holds with a source.
LEMMA StepSelfSourced ==
  ASSUME TypeOK, SourceInv, NEW t \in Threads, Step(t)
  PROVE  ThreadSourced(t)'
<1>0. Local /\ History /\ rows \in Seq(Row) /\ ThreadSourced(t)
  BY TypeParts DEF SourceInv
<1>1. CASE pc'[t] \in {"idle", "search", "limit", "llm"}
  BY <1>1 DEF ThreadSourced
<1>2. CASE SearchMiss(t) /\ pc'[t] = "raw"
  BY <1>0, <1>2 DEF SearchMiss, Goto, ThreadSourced, Key, Local
<1>3. CASE SearchRaw(t) /\ pc'[t] = "alias"
  <2>1. raw[t] \in Raws /\ pc[t] = "raw" /\ Key(t) # raw[t]
    BY <1>0, <1>3 DEF SearchRaw, Goto, Local, ThreadSourced
  <2>2. PICK d \in Hit(raw[t]) : found' = [found EXCEPT ![t] = d]
    BY <1>0, <1>3 DEF SearchRaw, Goto, Local
  <2>3. found'[t] = d /\ raw' = raw
    BY <1>0, <1>3, <2>2 DEF SearchRaw, Local
  <2>4. \E s \in DOMAIN Static : d = Static[s].data /\ raw[t] = Static[s].key
    BY <1>0, <2>1, <2>2, RawFromFile DEF Key
  <2>5. QED
    BY <1>3, <2>1, <2>3, <2>4 DEF ThreadSourced, Key
<1>4. CASE Reply(t)
  <2>1. found'[t] \in replied'[Key(t)] /\ raw' = raw
    BY <1>0, <1>4, ReplySourced DEF Reply
  <2>2. pc'[t] = "store"
    BY <1>0, <1>4 DEF Reply, Goto, Local
  <2>3. QED
    BY <2>1, <2>2 DEF ThreadSourced, Key
<1>5. QED
  BY <1>0, <1>1, <1>2, <1>3, <1>4
     DEF Step, Request, SearchHit, SearchMiss, SearchRaw, StoreAlias, Invoke, Refuse, StoreReply,
         Fail, Goto, Local

\* A step leaves what other threads hold alone.
LEMMA StepFound ==
  ASSUME TypeOK, NEW t \in Threads, Step(t), NEW u \in Threads \ {t}
  PROVE  found'[u] = found[u]
<1>0. Local
  BY TypeParts
<1>1. QED
  BY <1>0 DEF Step, Request, SearchHit, SearchMiss, SearchRaw, StoreAlias, Invoke, Refuse,
     Reply, StoreReply, Fail, Local

\* The sources are inductive.
LEMMA NextSourced == TypeOK /\ SourceInv /\ [Next]_vars => SourceInv'
<1> SUFFICES ASSUME TypeOK, SourceInv, [Next]_vars PROVE SourceInv'
  OBVIOUS
<1>0. rows \in Seq(Row) /\ Local /\ RowsSourced /\ RepliesNormal
  BY TypeParts DEF SourceInv
<1>1. ASSUME NEW t \in Threads, Step(t) PROVE SourceInv'
  <2>1. /\ RowsSourced' /\ RepliesNormal'
        /\ \A k \in Raws : replied[k] \subseteq replied'[k]
    BY <1>1, StepSourced
  <2>2. ASSUME NEW u \in Threads PROVE ThreadSourced(u)'
    <3>1. CASE u = t
      BY <1>1, <3>1, StepSelfSourced
    <3>2. CASE u # t
      <4>1. pc'[u] = pc[u] /\ raw'[u] = raw[u] /\ found'[u] = found[u]
        BY <1>1, <3>2, StepOthers, StepFound
      <4>2. pc[u] = "store" => Key(u) \in Raws
        BY <1>0, NormType DEF Local, Key
      <4>3. QED
        BY <2>1, <4>1, <4>2 DEF SourceInv, ThreadSourced, Key
    <3>3. QED
      BY <3>1, <3>2
  <2>3. QED
    BY <2>1, <2>2 DEF SourceInv
<1>2. ASSUME Restart PROVE SourceInv'
  <2>1. RowsSourced' /\ RepliesNormal'
    BY <1>0, <1>2, StaticSourced DEF Restart, RepliesNormal
  <2>2. \A t \in Threads : ThreadSourced(t)'
    BY <1>2 DEF Restart, ThreadSourced
  <2>3. QED
    BY <2>1, <2>2 DEF SourceInv
<1>3. ASSUME UNCHANGED vars PROVE SourceInv'
  BY <1>3 DEF vars, local, history, SourceInv, RowsSourced, RepliesNormal, ThreadSourced,
     Sourced, FromFile, Key
<1>4. QED
  BY <1>1, <1>2, <1>3 DEF Next

\* Every row of the table comes from the data file or from the LLM's answer to an
\* input of that normal form: nothing else is ever served as a command's output.
THEOREM RowsHaveSources == Spec => []Provenance
<1>1. Init => SourceInv
  <2> SUFFICES ASSUME Init PROVE SourceInv
    OBVIOUS
  <2>1. RowsSourced
    BY StaticSourced DEF Init
  <2>2. RepliesNormal /\ \A t \in Threads : ThreadSourced(t)
    BY DEF Init, RepliesNormal, ThreadSourced
  <2>3. QED
    BY <2>1, <2>2 DEF SourceInv
<1>2. TypeOK /\ SourceInv => Provenance
  BY LenProperties DEF TypeOK, SourceInv, RowsSourced, Sourced, FromFile, Provenance
<1>3. QED
  BY <1>1, <1>2, TypeCorrect, NextSourced, PTL DEF Spec

-----------------------------------------------------------------------------
(* One answer for all inputs of one normal form.                           *)

\* A set of positions has a first one.
LEMMA FirstOf ==
  ASSUME NEW S, S \subseteq Nat, S # {}
  PROVE  \E i \in S : \A j \in S : i <= j
<1> DEFINE R == OpToRel(<, Nat)
<1>1. IsWellFoundedOn(R, Nat)
  BY NatLessThanWellFounded
<1>2. \A x, y \in Nat : x < y => <<x, y>> \in R
  BY DEF OpToRel
<1> HIDE DEF R
<1>3. PICK i \in S : \A j \in S : ~ (<<j, i>> \in R)
  BY <1>1, WFMin
<1>4. ASSUME NEW j \in S PROVE i <= j
  <2>1. i \in Nat /\ j \in Nat
    OBVIOUS
  <2>2. ~ (j < i)
    BY <1>2, <1>3, <2>1
  <2>3. QED
    BY <2>1, <2>2
<1>5. QED
  BY <1>4

\* A key that has a row has a first one.
LEMMA LeastRow ==
  ASSUME rows \in Seq(Row), NEW k, First(k) = {}
  PROVE  \A i \in 1..Len(rows) : rows[i].key # k
<1>1. DOMAIN rows = 1..Len(rows) /\ Len(rows) \in Nat
  BY LenProperties
<1> DEFINE S == {i \in 1..Len(rows) : rows[i].key = k}
<1>2. SUFFICES ASSUME S # {} PROVE FALSE
  OBVIOUS
<1>3. S \subseteq Nat
  BY <1>1
<1>4. PICK i \in S : \A j \in S : i <= j
  BY <1>2, <1>3, FirstOf
<1>5. \A l \in 1..(i - 1) : rows[l].key # k
  BY <1>1, <1>4
<1>6. QED
  BY <1>1, <1>4, <1>5 DEF First

\* What was told to an input is what the first row of its normal form says;
\* a request that has missed has no first row, and is the only one of its key.
ToldFirst == \A q \in Raws : Excepted(Norm[q]) \/ told[q] \subseteq First(Norm[q])
MissedUnanswered(t) == Missed(t) => Excepted(Key(t)) \/ First(Key(t)) = {}
MissedAlone(t, u) ==
    t # u /\ Missed(t) /\ Missed(u) /\ Key(t) = Key(u) => Key(t) \in contested

SharedInv ==
    /\ ToldFirst
    /\ \A t \in Threads : MissedUnanswered(t)
    /\ \A t, u \in Threads : MissedAlone(t, u)

\* A key has one first row at most.
LEMMA FirstUnique ==
  ASSUME rows \in Seq(Row), NEW k, NEW d \in First(k), NEW e \in First(k)
  PROVE  d = e
<1>1. DOMAIN rows = 1..Len(rows) /\ Len(rows) \in Nat
  BY LenProperties
<1>2. PICK i \in DOMAIN rows : rows[i].key = k /\ d = rows[i].data /\ \A l \in 1..(i - 1) : rows[l].key # k
  BY DEF First
<1>3. PICK j \in DOMAIN rows : rows[j].key = k /\ e = rows[j].data /\ \A l \in 1..(j - 1) : rows[l].key # k
  BY DEF First
<1>4. i = j
  BY <1>1, <1>2, <1>3
<1>5. QED
  BY <1>2, <1>3, <1>4

\* What an inserted row does to the first rows.
LEMMA InsertFirst ==
  ASSUME rows \in Seq(Row), NEW k \in Raws, NEW d \in Texts, Insert(k, d)
  PROVE  /\ \A j : j # k => First(j)' = First(j)
         /\ First(k) = {} => First(k)' = {d}
<1> DEFINE r == [key |-> k, data |-> d]
<1>1. r \in Row
  BY DEF Row
<1>2. /\ DOMAIN rows = 1..Len(rows) /\ Len(rows) \in Nat
      /\ DOMAIN rows' = 1..(Len(rows) + 1)
      /\ \A i \in 1..Len(rows) : rows'[i] = rows[i]
      /\ rows'[Len(rows) + 1] = r
  BY <1>1, AppendProperties, LenProperties DEF Insert
<1>3. ASSUME NEW j, j # k PROVE First(j)' = First(j)
  <2>1. r.key # j
    BY <1>3
  <2> HIDE DEF r
  <2>2. \A i \in DOMAIN rows : \A l \in 1..(i - 1) : rows'[l] = rows[l]
    BY <1>2
  <2>3. \A x : x \in First(j)' <=> x \in First(j)
    BY <1>2, <2>1, <2>2 DEF First
  <2>4. QED
    BY <2>3
<1>4. ASSUME First(k) = {} PROVE First(k)' = {d}
  <2>1. \A i \in 1..Len(rows) : rows[i].key # k
    BY <1>2, <1>4, LeastRow
  <2>2. r.key = k /\ r.data = d
    OBVIOUS
  <2> HIDE DEF r
  <2>3. \A i \in DOMAIN rows' : rows'[i].key = k => i = Len(rows) + 1
    BY <1>2, <2>1
  <2>4. \A l \in 1..Len(rows) : rows'[l].key # k
    BY <1>2, <2>1
  <2>5. \A x : x \in First(k)' <=> x = d
    BY <1>2, <2>2, <2>3, <2>4 DEF First
  <2>6. QED
    BY <2>5
<1>5. QED
  BY <1>3, <1>4

\* The exceptions stay exceptions.
LEMMA ExceptedKept ==
  ASSUME Extends, contested \subseteq contested', NEW k, Excepted(k)
  PROVE  Excepted(k)'
<1>1. CASE k \in contested
  BY <1>1 DEF Excepted
<1>2. CASE Empty \in First(k)
  <2>1. First(k)' = First(k)
    BY <1>2, FirstKept
  <2>2. QED
    BY <1>2, <2>1 DEF Excepted
<1>3. QED
  BY <1>1, <1>2 DEF Excepted

\* The four forms of a thread's step.
Others(t) ==
    /\ \A u \in Threads : u # t => pc'[u] = pc[u] /\ raw'[u] = raw[u]
    /\ contested \subseteq contested'

QuietStep(t) ==
    /\ Others(t) /\ rows' = rows /\ told' = told
    /\ Missed(t)' => Missed(t) /\ raw'[t] = raw[t]

HitStep(t) ==
    /\ Others(t) /\ rows' = rows /\ ~Missed(t)' /\ raw[t] \in Raws
    /\ \E d \in First(Key(t)) : Tell(t, d)

MissStep(t) ==
    /\ Others(t) /\ rows' = rows /\ told' = told /\ raw'[t] = raw[t]
    /\ Hit(Key(t)) = {}
    /\ (\E u \in Threads \ {t} : Missed(u) /\ Key(u) = Key(t)) => Key(t) \in contested'

StoreStep(t) ==
    /\ Others(t) /\ Missed(t) /\ ~Missed(t)' /\ raw[t] \in Raws /\ Key(t) \in Raws
    /\ found[t] \in Texts /\ Insert(Key(t), found[t]) /\ Tell(t, found[t])

\* Every step of a thread has one of the forms.
LEMMA StepForm ==
  ASSUME TypeOK, NEW t \in Threads, Step(t)
  PROVE  QuietStep(t) \/ HitStep(t) \/ MissStep(t) \/ StoreStep(t)
<1>0. Local /\ History
  BY TypeParts
<1>1. Others(t)
  <2>1. contested \subseteq contested'
    BY DEF Step, Request, SearchHit, SearchMiss, SearchRaw, StoreAlias, Invoke, Refuse,
       Reply, StoreReply, Fail, history
  <2>2. QED
    BY <2>1, StepOthers DEF Others
<1>2. CASE \E q \in Raws : Request(t, q)
  BY <1>0, <1>1, <1>2 DEF Request, Goto, history, Local, QuietStep, Missed
<1>3. CASE SearchHit(t)
  BY <1>0, <1>1, <1>3 DEF SearchHit, Goto, Local, HitStep, Missed, Hit
<1>4. CASE SearchMiss(t)
  BY <1>0, <1>1, <1>4 DEF SearchMiss, MissStep
<1>5. CASE SearchRaw(t)
  BY <1>0, <1>1, <1>5 DEF SearchRaw, Goto, history, Local, QuietStep, Missed
<1>6. CASE StoreAlias(t) \/ StoreReply(t)
  <2>1. pc[t] \in {"alias", "store"} /\ pc'[t] = "idle" /\ raw[t] \in Raws /\ found[t] \in Texts
    BY <1>0, <1>6 DEF StoreAlias, StoreReply, Goto, Local
  <2>2. Key(t) \in Raws /\ Insert(Key(t), found[t]) /\ Tell(t, found[t])
    BY <1>6, <2>1, NormType DEF StoreAlias, StoreReply, Key
  <2>3. QED
    BY <1>1, <2>1, <2>2 DEF StoreStep, Missed
<1>7. CASE Invoke(t) \/ Refuse(t) \/ Reply(t) \/ Fail(t)
  BY <1>0, <1>1, <1>7 DEF Invoke, Refuse, Reply, Fail, Goto, history, Local, QuietStep, Missed
<1>8. QED
  BY <1>2, <1>3, <1>4, <1>5, <1>6, <1>7 DEF Step

\* A step of one thread keeps what the threads have in common.
LEMMA StepShared ==
  ASSUME TypeOK, SharedInv, NEW t \in Threads, Step(t)
  PROVE  SharedInv'
<1>0. /\ rows \in Seq(Row) /\ Local /\ History /\ ToldFirst /\ Extends
      /\ \A u \in Threads : MissedUnanswered(u)
      /\ \A u, v \in Threads : MissedAlone(u, v)
  BY TypeParts, NextExtends DEF SharedInv, Next
<1>1. Others(t)
  BY StepForm DEF QuietStep, HitStep, MissStep, StoreStep
<1>2. \A k : Excepted(k) => Excepted(k)'
  BY <1>0, <1>1, ExceptedKept DEF Others
<1>3. \A u \in Threads : u # t => (Missed(u)' <=> Missed(u)) /\ Key(u)' = Key(u)
  BY <1>1 DEF Others, Missed, Key
<1>4. \A u \in Threads : raw'[u] = raw[u] => Key(u)' = Key(u)
  BY DEF Key
<1>5. rows' = rows => \A k : First(k)' = First(k) /\ Hit(k)' = Hit(k)
  BY DEF First, Hit
<1>6. CASE QuietStep(t)
  <2>1. ToldFirst'
    BY <1>0, <1>2, <1>5, <1>6 DEF ToldFirst, QuietStep
  <2>2. \A u \in Threads : MissedUnanswered(u)'
    BY <1>0, <1>2, <1>3, <1>4, <1>5, <1>6 DEF MissedUnanswered, QuietStep
  <2>3. \A u, v \in Threads : MissedAlone(u, v)'
    BY <1>0, <1>1, <1>3, <1>4, <1>6 DEF MissedAlone, QuietStep, Others
  <2>4. QED
    BY <2>1, <2>2, <2>3 DEF SharedInv
<1>7. CASE HitStep(t)
  <2>1. ToldFirst'
    <3>1. PICK d \in First(Key(t)) : told' = [told EXCEPT ![raw[t]] = @ \cup {d}]
      BY <1>7 DEF HitStep, Tell
    <3>2. \A q \in Raws : told'[q] = told[q] \/ (q = raw[t] /\ told'[q] = told[q] \cup {d})
      <4>1. told \in [Raws -> SUBSET Texts] /\ raw[t] \in Raws
        BY <1>0, <1>7 DEF HitStep, History
      <4>2. told'[raw[t]] = told[raw[t]] \cup {d}
        BY <3>1, <4>1
      <4>3. \A q \in Raws : q # raw[t] => told'[q] = told[q]
        BY <3>1, <4>1
      <4>4. QED
        BY <4>2, <4>3
    <3>3. QED
      BY <1>0, <1>2, <1>5, <1>7, <3>1, <3>2 DEF ToldFirst, HitStep, Key
  <2>2. \A u \in Threads : MissedUnanswered(u)'
    BY <1>0, <1>2, <1>3, <1>5, <1>7 DEF MissedUnanswered, HitStep
  <2>3. \A u, v \in Threads : MissedAlone(u, v)'
    BY <1>0, <1>1, <1>3, <1>7 DEF MissedAlone, HitStep, Others
  <2>4. QED
    BY <2>1, <2>2, <2>3 DEF SharedInv
<1>8. CASE MissStep(t)
  <2>1. ToldFirst'
    BY <1>0, <1>2, <1>5, <1>8 DEF ToldFirst, MissStep
  <2>2. \A u \in Threads : MissedUnanswered(u)'
    <3>1. Excepted(Key(t)) \/ First(Key(t)) = {}
      BY <1>8 DEF MissStep, Hit, Excepted
    <3>2. QED
      BY <1>0, <1>2, <1>3, <1>4, <1>5, <1>8, <3>1 DEF MissedUnanswered, MissStep
  <2>3. \A u, v \in Threads : MissedAlone(u, v)'
    BY <1>0, <1>1, <1>3, <1>4, <1>8 DEF MissedAlone, MissStep, Others
  <2>4. QED
    BY <2>1, <2>2, <2>3 DEF SharedInv
<1>9. CASE StoreStep(t)
  <2>0. PICK k \in Raws : k = Key(t)
    BY <1>9 DEF StoreStep
  <2>1. /\ \A j : j # k => First(j)' = First(j)
        /\ First(k) = {} => First(k)' = {found[t]}
    BY <1>0, <1>9, <2>0, InsertFirst DEF StoreStep
  <2>2. \A q \in Raws : told'[q] = told[q] \/ (q = raw[t] /\ told'[q] = told[q] \cup {found[t]})
    <3>1. /\ told \in [Raws -> SUBSET Texts] /\ raw[t] \in Raws
          /\ told' = [told EXCEPT ![raw[t]] = @ \cup {found[t]}]
      BY <1>0, <1>9 DEF StoreStep, Tell, History
    <3>2. told'[raw[t]] = told[raw[t]] \cup {found[t]}
      BY <3>1
    <3>3. \A q \in Raws : q # raw[t] => told'[q] = told[q]
      BY <3>1
    <3>4. QED
      BY <3>2, <3>3
  <2>3. Excepted(k)' \/ (First(k) = {} /\ First(k)' = {found[t]})
    <3>1. Excepted(k) \/ First(k) = {}
      BY <1>0, <1>9, <2>0 DEF StoreStep, MissedUnanswered
    <3>2. Excepted(k) => Excepted(k)'
      BY <1>2
    <3>3. First(k) = {} => First(k)' = {found[t]}
      BY <2>1
    <3>4. QED
      BY <3>1, <3>2, <3>3
  <2>4. ToldFirst'
    <3>1. SUFFICES ASSUME NEW q \in Raws
                   PROVE  Excepted(Norm[q])' \/ told'[q] \subseteq First(Norm[q])'
      BY DEF ToldFirst
    <3>2. Excepted(Norm[q])' \/ told[q] \subseteq First(Norm[q])
      BY <1>0, <1>2 DEF ToldFirst
    <3>3. CASE Norm[q] = k
      <4>1. Excepted(k)' \/ told'[q] \subseteq First(k)'
        BY <2>2, <2>3, <3>2, <3>3
      <4>2. QED
        BY <3>3, <4>1 DEF Excepted, First
    <3>4. CASE Norm[q] # k
      <4>1. told'[q] = told[q]
        BY <2>0, <2>2, <3>4 DEF Key
      <4>2. First(Norm[q])' = First(Norm[q])
        BY <2>1, <3>4
      <4>3. QED
        BY <3>2, <4>1, <4>2
    <3>5. QED
      BY <3>3, <3>4
  <2>5. ASSUME NEW u \in Threads PROVE MissedUnanswered(u)'
    <3>1. SUFFICES ASSUME Missed(u)' PROVE Excepted(Key(u))' \/ First(Key(u))' = {}
      BY DEF MissedUnanswered
    <3>2. u # t /\ Missed(u) /\ Missed(t)
      BY <1>3, <1>9, <3>1 DEF StoreStep
    <3>3. PICK j : j = Key(u)
      OBVIOUS
    <3>4. Key(u)' = j
      BY <1>3, <3>2, <3>3
    <3>5. Excepted(j)' \/ First(j)' = {}
      <4>1. CASE j = k
        <5>1. k \in contested
          BY <1>0, <2>0, <3>2, <3>3, <4>1 DEF MissedAlone
        <5>2. QED
          BY <1>1, <4>1, <5>1 DEF Excepted, Others
      <4>2. CASE j # k
        <5>1. Excepted(j) \/ First(j) = {}
          BY <1>0, <3>2, <3>3 DEF MissedUnanswered
        <5>2. First(j)' = First(j)
          BY <2>1, <4>2
        <5>3. QED
          BY <1>2, <5>1, <5>2
      <4>3. QED
        BY <4>1, <4>2
    <3>6. QED
      BY <3>4, <3>5 DEF Excepted, First
  <2>6. \A u, v \in Threads : MissedAlone(u, v)'
    BY <1>0, <1>1, <1>3, <1>9 DEF MissedAlone, StoreStep, Others
  <2>7. QED
    BY <2>4, <2>5, <2>6 DEF SharedInv
<1>10. QED
  BY <1>6, <1>7, <1>8, <1>9, StepForm

\* The invariant is inductive.
LEMMA NextShared == TypeOK /\ SharedInv /\ [Next]_vars => SharedInv'
<1> SUFFICES ASSUME TypeOK, SharedInv, [Next]_vars PROVE SharedInv'
  OBVIOUS
<1>1. ASSUME NEW t \in Threads, Step(t) PROVE SharedInv'
  BY <1>1, StepShared
<1>2. ASSUME Restart PROVE SharedInv'
  <2>1. /\ \A t \in Threads : ~Missed(t)'
        /\ told' = told /\ contested' = contested /\ Extends
    BY <1>2, TypeParts, NextExtends DEF Restart, Missed
  <2>2. ASSUME NEW q \in Raws
        PROVE  Excepted(Norm[q])' \/ told'[q] \subseteq First(Norm[q])'
    <3>1. CASE Excepted(Norm[q])
      BY <2>1, <3>1, ExceptedKept
    <3>2. CASE told[q] \subseteq First(Norm[q])
      <4>1. First(Norm[q]) # {} => First(Norm[q])' = First(Norm[q])
        BY <2>1, FirstKept
      <4>2. QED
        BY <2>1, <3>2, <4>1
    <3>3. QED
      BY <3>1, <3>2 DEF SharedInv, ToldFirst
  <2>3. QED
    BY <2>1, <2>2 DEF SharedInv, ToldFirst, MissedUnanswered, MissedAlone
<1>3. ASSUME UNCHANGED vars PROVE SharedInv'
  BY <1>3 DEF vars, local, history, SharedInv, ToldFirst, MissedUnanswered, MissedAlone,
     Missed, Excepted, First, Key
<1>4. QED
  BY <1>1, <1>2, <1>3 DEF Next

\* Equivalent inputs are given one answer and cost one call, except under a key
\* that two requests missed at the same time or whose first row is empty.
THEOREM AnswersAreShared == Spec => []AnswersShared
<1>1. Init => SharedInv
  BY DEF Init, SharedInv, ToldFirst, MissedUnanswered, MissedAlone, Missed
<1>2. ASSUME TypeOK, SharedInv PROVE AnswersShared
  <2>1. OneAnswer
    BY <1>2, FirstUnique DEF OneAnswer, TypeOK, SharedInv, ToldFirst
  <2>2. AskedOnce
    BY <1>2 DEF AskedOnce, SharedInv, ToldFirst, MissedUnanswered, Missed, Excepted
  <2>3. QED
    BY <2>1, <2>2 DEF AnswersShared
<1>3. QED
  BY <1>1, <1>2, TypeCorrect, NextShared, PTL DEF Spec

-----------------------------------------------------------------------------
(* The limiter.                                                            *)

Active(c) == calling[c] \notin {"idle", "raised"}
AtLimit == {"limited", "mark", "elapsed", "reset", "unmark"}

\* More than Period before time t.
Past(i, t) == granted[i] + Period < t

(* The count never runs ahead of the grants, whatever the threads lose.    *)
CountInv ==
    /\ visitors # Absent => visitors <= Len(granted)
    /\ refused # {} => Len(granted) >= Limit
    /\ \A c \in Clients :
          /\ calling[c] \notin {"idle", "raised", "known", "first"} => visitors # Absent
          /\ calling[c] = "store" => loaded[c] <= Len(granted)
          /\ calling[c] \in AtLimit => Len(granted) >= Limit

(* One call at a time. *)
Alone == \A c, d \in Clients : Active(c) /\ Active(d) => c = d

(* The grants are in the order of their times, and Limit of them span more *)
(* than the period.                                                        *)
Spaced ==
    /\ \A i \in 1..Len(granted) : granted[i] <= now
    /\ \A i, j \in 1..Len(granted) : i <= j => granted[i] <= granted[j]
    /\ \A i, j \in 1..Len(granted) : i + Limit <= j => Past(i, granted[j])

(* The last `visitors' grants are the epoch. *)
Epoch ==
    /\ visitors = Absent => granted = <<>>
    /\ visitors # Absent /\ (\A c \in Clients : calling[c] # "unmark") =>
          /\ 1 <= visitors /\ visitors <= Limit
          /\ \A i, j \in 1..Len(granted) :
                i <= Len(granted) - visitors /\ Len(granted) - visitors < j => Past(i, granted[j])
    /\ reached # Absent =>
          /\ reached <= now
          /\ \A i \in 1..Len(granted) : granted[i] <= reached
          /\ visitors = Limit \/ \E c \in Clients : calling[c] = "unmark"

(* What the one call that is open knows. *)
CallInv ==
    \A c \in Clients :
        /\ calling[c] = "first" => visitors = Absent
        /\ calling[c] \in {"load", "store"} => visitors # Limit
        /\ calling[c] = "store" => loaded[c] = visitors
        /\ calling[c] \in AtLimit \ {"unmark"} => visitors = Limit
        /\ calling[c] = "reset" => reached # Absent /\ now - reached > Period
        /\ calling[c] = "unmark" =>
              /\ visitors = 1 /\ reached # Absent
              /\ \A i \in 1..Len(granted) : Past(i, now)

Window == Alone /\ Spaced /\ Epoch /\ CallInv

LimiterIInv == LimiterTypeOK /\ CountInv /\ (~overlap => Window)

Places == {"idle", "known", "first", "compare", "load", "store",
           "limited", "mark", "elapsed", "reset", "unmark", "raised"}

-----------------------------------------------------------------------------
(* Arithmetic and sequences. *)

(* A remainder is at most what is divided: so much time has passed. *)
LEMMA ModLe == \A x \in Nat, d \in Nat \ {0} : x % d <= x
  OBVIOUS

(* A set of positions has a first one. *)
LEMMA FirstWith ==
  ASSUME NEW S, S \subseteq Nat, S # {}
  PROVE  \E m \in S : \A i \in S : m <= i
  <1> DEFINE R == OpToRel(<, Nat)
  <1>1. IsWellFoundedOn(R, Nat)
    BY NatLessThanWellFounded
  <1>2. \A x, y \in Nat : x < y => <<x, y>> \in R
    BY DEF OpToRel
  <1> HIDE DEF R
  <1>3. PICK m \in S : \A i \in S : ~ (<<i, m>> \in R)
    BY <1>1, WFMin
  <1>4. ASSUME NEW i \in S
        PROVE  m <= i
    <2>1. m \in Nat /\ i \in Nat
      OBVIOUS
    <2>2. ~ (i < m)
      BY <1>2, <1>3, <2>1
    <2> QED
      BY <2>1, <2>2
  <1> QED
    BY <1>4

(* What a grant adds. *)
LEMMA GrantStep ==
  ASSUME LimiterTypeOK, Grant
  PROVE  /\ granted' \in Seq(Nat) /\ Len(granted') = Len(granted) + 1
         /\ granted'[Len(granted) + 1] = now
         /\ \A i \in 1..Len(granted) : granted'[i] = granted[i]
  BY DEF Grant, LimiterTypeOK

(* Grants that are spaced fit into no window of Period seconds but for     *)
(* Limit of them.                                                          *)
LEMMA SpacedIsLimited ==
  ASSUME LimiterTypeOK, Spaced
  PROVE  LimitKeptWithoutOverlap
  <1> SUFFICES ASSUME NEW from \in 0..now
               PROVE  Cardinality({i \in DOMAIN granted : granted[i] \in from..(from + Period)}) <= Limit
    BY DEF LimitKeptWithoutOverlap
  <1> DEFINE S == {i \in DOMAIN granted : granted[i] \in from..(from + Period)}
  <1>1. /\ granted \in Seq(Nat) /\ DOMAIN granted = 1..Len(granted) /\ Len(granted) \in Nat
        /\ now \in Nat /\ Limit \in Nat \ {0} /\ Period \in Nat
    BY ILAssumption DEF LimiterTypeOK
  <1>2. S \subseteq 1..Len(granted)
    BY <1>1
  <1>3. \A i \in S : from <= granted[i] /\ granted[i] <= from + Period
    BY <1>1
  <1> HIDE DEF S
  <1>4. CASE S = {}
    <2>1. Cardinality(S) = 0
      BY <1>4, FS_EmptySet
    <2> QED
      BY <1>1, <2>1 DEF S
  <1>5. CASE S # {}
    <2>1. S \subseteq Nat
      BY <1>1, <1>2
    <2>2. PICK low \in S : \A i \in S : low <= i
      BY <1>5, <2>1, FirstWith
    <2> DEFINE high == low + Limit - 1
    <2>3. low \in Int /\ high \in Int /\ ~ (low > high) /\ high - low + 1 = Limit
      BY <1>1, <2>1, <2>2
    <2>4. ASSUME NEW i \in S
          PROVE  i \in low..high
      <3>1. /\ i \in 1..Len(granted) /\ low <= i /\ granted[i] <= from + Period
            /\ low \in 1..Len(granted) /\ from <= granted[low]
        BY <1>2, <1>3, <2>2, <2>4
      <3>2. granted[i] \in Nat /\ granted[low] \in Nat
        BY <1>1, <3>1
      <3>3. ~ (low + Limit <= i)
        BY <1>1, <3>1, <3>2 DEF Spaced, Past
      <3> QED
        BY <1>1, <2>3, <3>1, <3>3
    <2> HIDE DEF high
    <2>5. IsFiniteSet(low..high) /\ Cardinality(low..high) = Limit
      BY <2>3, FS_Interval
    <2>6. S \in SUBSET (low..high)
      BY <2>4
    <2>7. Cardinality(S) <= Cardinality(low..high)
      BY <2>5, <2>6, FS_Subset
    <2> QED
      BY <2>5, <2>7 DEF S
  <1> QED
    BY <1>4, <1>5

-----------------------------------------------------------------------------
(* Types and the count, for every interleaving. *)

LEMMA InitLimiter == LimiterInit => LimiterIInv
  <1> SUFFICES ASSUME LimiterInit PROVE LimiterIInv
    OBVIOUS
  <1>1. granted = <<>> /\ granted \in Seq(Nat) /\ Len(granted) = 0
    BY DEF LimiterInit
  <1>2. LimiterTypeOK
    BY <1>1 DEF LimiterInit, LimiterTypeOK, Absent
  <1>3. CountInv
    BY DEF LimiterInit, CountInv, Absent, AtLimit
  <1>4. Alone /\ CallInv
    BY DEF LimiterInit, Alone, Active, CallInv, AtLimit
  <1>5. Spaced /\ Epoch
    BY <1>1 DEF LimiterInit, Spaced, Epoch
  <1> QED
    BY <1>2, <1>3, <1>4, <1>5 DEF LimiterIInv, Window

LEMMA TypeKept ==
  ASSUME LimiterTypeOK, CountInv, [LimiterNext]_limiterVars
  PROVE  LimiterTypeOK'
  <1> USE ILAssumption DEF Absent, GoesOn, table, outcomes
  <1>1. LimiterTypeOK
    OBVIOUS
  <1>2. CASE UNCHANGED limiterVars
    BY <1>1, <1>2 DEF LimiterTypeOK, limiterVars
  <1>3. CASE Tick
    BY <1>1, <1>3 DEF LimiterTypeOK, Tick
  <1>4. ASSUME NEW c \in Clients, CanInvoke(c)
        PROVE  LimiterTypeOK'
    <2>2. CASE Call(c)
      BY <1>1, <2>2 DEF LimiterTypeOK, Call
    <2>3. CASE TestKnown(c)
      BY <1>1, <2>3 DEF LimiterTypeOK, TestKnown
    <2>4. CASE FirstVisit(c)
      BY <1>1, <2>4 DEF LimiterTypeOK, FirstVisit, Grant
    <2>5. CASE CompareLimit(c)
      BY <1>1, <2>5 DEF LimiterTypeOK, CompareLimit
    <2>6. CASE LoadVisits(c)
      <3>1. visitors \in Nat
        BY <1>1, <2>6 DEF LimiterTypeOK, LoadVisits, CountInv
      <3> QED
        BY <1>1, <2>6, <3>1 DEF LimiterTypeOK, LoadVisits
    <2>7. CASE StoreVisits(c)
      BY <1>1, <2>7 DEF LimiterTypeOK, StoreVisits, Grant
    <2>8. CASE TestReached(c)
      BY <1>1, <2>8 DEF LimiterTypeOK, TestReached
    <2>9. CASE MarkReached(c)
      BY <1>1, <2>9 DEF LimiterTypeOK, MarkReached, Deny
    <2>10. CASE TestElapsed(c)
      BY <1>1, <2>10 DEF LimiterTypeOK, TestElapsed, Deny
    <2>11. CASE ResetVisits(c)
      BY <1>1, <2>11 DEF LimiterTypeOK, ResetVisits
    <2>12. CASE Unmark(c)
      <3>1. CASE reached = Absent
        BY <1>1, <2>12, <3>1 DEF LimiterTypeOK, Unmark
      <3>2. CASE reached # Absent
        <4>1. Grant /\ calling' = [calling EXCEPT ![c] = "idle"] /\ reached' = Absent
          BY <2>12, <3>2 DEF Unmark
        <4>2. granted' \in Seq(Nat) /\ refused' = refused
          BY <4>1, GrantStep DEF Grant
        <4>3. UNCHANGED <<visitors, now, loaded, calls, overlap>>
          BY <2>12 DEF Unmark
        <4> QED
          BY <1>1, <4>1, <4>2, <4>3 DEF LimiterTypeOK
      <3> QED
        BY <3>1, <3>2
    <2> QED
      BY <1>4, <2>2, <2>3, <2>4, <2>5, <2>6, <2>7, <2>8, <2>9, <2>10, <2>11, <2>12 DEF CanInvoke
  <1> QED
    BY <1>2, <1>3, <1>4 DEF LimiterNext

LEMMA CountKept ==
  ASSUME LimiterTypeOK, CountInv, [LimiterNext]_limiterVars
  PROVE  CountInv'
  <1> USE ILAssumption DEF Absent, GoesOn, table, outcomes, AtLimit
  <1>1. LimiterTypeOK /\ CountInv
    OBVIOUS
  <1>2. CASE UNCHANGED limiterVars
    BY <1>1, <1>2 DEF CountInv, limiterVars
  <1>3. CASE Tick
    BY <1>1, <1>3 DEF CountInv, Tick
  <1>4. ASSUME NEW c \in Clients, CanInvoke(c)
        PROVE  CountInv'
    <2>0. Len(granted) \in Nat
      BY <1>1 DEF LimiterTypeOK
    <2>2. CASE Call(c)
      BY <1>1, <2>2 DEF LimiterTypeOK, CountInv, Call
    <2>3. CASE TestKnown(c)
      BY <1>1, <2>3 DEF LimiterTypeOK, CountInv, TestKnown
    <2>4. CASE FirstVisit(c)
      BY <1>1, <2>0, <2>4, GrantStep DEF LimiterTypeOK, CountInv, FirstVisit, Grant
    <2>5. CASE CompareLimit(c)
      BY <1>1, <2>0, <2>5 DEF LimiterTypeOK, CountInv, CompareLimit
    <2>6. CASE LoadVisits(c)
      BY <1>1, <2>6 DEF LimiterTypeOK, CountInv, LoadVisits
    <2>7. CASE StoreVisits(c)
      BY <1>1, <2>0, <2>7, GrantStep DEF LimiterTypeOK, CountInv, StoreVisits, Grant
    <2>8. CASE TestReached(c)
      BY <1>1, <2>8 DEF LimiterTypeOK, CountInv, TestReached
    <2>9. CASE MarkReached(c)
      BY <1>1, <2>9 DEF LimiterTypeOK, CountInv, MarkReached, Deny
    <2>10. CASE TestElapsed(c)
      BY <1>1, <2>10 DEF LimiterTypeOK, CountInv, TestElapsed, Deny
    <2>11. CASE ResetVisits(c)
      BY <1>1, <2>0, <2>11 DEF LimiterTypeOK, CountInv, ResetVisits
    <2>12. CASE Unmark(c)
      BY <1>1, <2>0, <2>12, GrantStep DEF LimiterTypeOK, CountInv, Unmark, Grant
    <2> QED
      BY <1>4, <2>2, <2>3, <2>4, <2>5, <2>6, <2>7, <2>8, <2>9, <2>10, <2>11, <2>12 DEF CanInvoke
  <1> QED
    BY <1>2, <1>3, <1>4 DEF LimiterNext

-----------------------------------------------------------------------------
(* The window, while calls do not overlap. *)

(* When the calls of a behaviour have not overlapped by the end of a step, *)
(* the client that takes it is the only one in a call.                     *)
LEMMA OthersIdle ==
  ASSUME LimiterIInv, NEW c \in Clients, CanInvoke(c), ~ overlap'
  PROVE  /\ ~ overlap /\ Window
         /\ \A d \in Clients \ {c} : calling[d] \in {"idle", "raised"} /\ calling'[d] = calling[d]
         /\ calling \in [Clients -> Places] /\ calling' \in [Clients -> Places]
  <1>1. ~ overlap /\ Window /\ Alone
    <2>1. ~ overlap
      <3>1. CASE Call(c)
        BY <3>1 DEF Call
      <3>2. CASE ~ Call(c)
        <4>1. overlap' = overlap
          BY <3>2 DEF CanInvoke, TestKnown, FirstVisit, CompareLimit, LoadVisits, StoreVisits,
             TestReached, MarkReached, TestElapsed, ResetVisits, Unmark
        <4> QED
          BY <4>1
      <3> QED
        BY <3>1, <3>2
    <2> QED
      BY <2>1 DEF LimiterIInv, Window
  <1>2. calling \in [Clients -> Places]
    BY DEF LimiterIInv, LimiterTypeOK, Places
  <1>3. \A d \in Clients \ {c} : calling[d] \in {"idle", "raised"}
    <2>1. CASE Call(c)
      BY <1>2, <2>1 DEF Call
    <2>2. CASE ~ Call(c)
      <3>1. Active(c)
        BY <2>2
           DEF Active, CanInvoke, GoesOn, TestKnown, FirstVisit, CompareLimit, LoadVisits,
               StoreVisits,
           TestReached, MarkReached, TestElapsed, ResetVisits, Unmark
      <3> QED
        BY <1>1, <3>1 DEF Alone, Active
    <2> QED
      BY <2>1, <2>2
  <1>4. \A d \in Clients \ {c} : calling'[d] = calling[d]
    BY <1>2
       DEF CanInvoke, GoesOn, Call, TestKnown, FirstVisit, CompareLimit, LoadVisits, StoreVisits,
       TestReached, MarkReached, TestElapsed, ResetVisits, Unmark
  <1>5. calling' \in [Clients -> Places]
    BY TypeKept DEF LimiterIInv, LimiterTypeOK, Places, LimiterNext
  <1> QED
    BY <1>1, <1>2, <1>3, <1>4, <1>5

LEMMA AloneKept ==
  ASSUME LimiterIInv, NEW c \in Clients, CanInvoke(c), ~ overlap'
  PROVE  Alone'
  BY OthersIdle DEF Alone, Active

(* A step that grants nothing and leaves the dictionaries alone disturbs   *)
(* the window only by what the call itself may believe.                    *)
LEMMA TestsKeepWindow ==
  ASSUME LimiterIInv, NEW c \in Clients, CanInvoke(c), ~ overlap',
         UNCHANGED <<visitors, reached, now, granted>>,
         calling[c] # "unmark", calling'[c] # "unmark"
  PROVE  Alone' /\ Spaced' /\ Epoch'
  <1>1. Alone'
    BY AloneKept
  <1>2. Spaced'
    BY OthersIdle DEF Window, Spaced, Past
  <1>3. \A d \in Clients : calling[d] # "unmark" /\ calling'[d] # "unmark"
    BY OthersIdle
  <1>4. Epoch'
    BY <1>3, OthersIdle DEF Window, Epoch, Past
  <1> QED
    BY <1>1, <1>2, <1>4

(* A grant, at a time no earlier than the others and past those that no    *)
(* longer count.                                                           *)
LEMMA GrantKeepsSpaced ==
  ASSUME LimiterTypeOK, Spaced, Grant, now' = now,
         \A i \in 1..Len(granted) : i + Limit <= Len(granted) + 1 => Past(i, now)
  PROVE  Spaced'
  <1> DEFINE n == Len(granted)
  <1>1. /\ n \in Nat /\ Limit \in Nat \ {0} /\ now \in Nat /\ Period \in Nat
        /\ \A i \in 1..n : granted[i] \in Nat
    BY ILAssumption DEF LimiterTypeOK
  <1>2. Len(granted') = n + 1 /\ granted'[n + 1] = now /\ \A i \in 1..n : granted'[i] = granted[i]
    BY GrantStep
  <1>3. \A i \in 1..(n + 1) : i \in 1..n \/ i = n + 1
    BY <1>1
  <1>4. \A i \in 1..(n + 1) : granted'[i] <= now
    BY <1>1, <1>2, <1>3 DEF Spaced
  <1>5. ASSUME NEW i \in 1..(n + 1), NEW j \in 1..(n + 1), i <= j
        PROVE  granted'[i] <= granted'[j]
    <2>1. CASE j = n + 1
      BY <1>2, <1>4, <2>1
    <2>2. CASE j \in 1..n
      <3>1. i \in 1..n
        BY <1>1, <1>5, <2>2
      <3> QED
        BY <1>2, <1>5, <2>2, <3>1 DEF Spaced
    <2> QED
      BY <1>3, <2>1, <2>2
  <1>6. ASSUME NEW i \in 1..(n + 1), NEW j \in 1..(n + 1), i + Limit <= j
        PROVE  granted'[i] + Period < granted'[j]
    <2>1. i \in 1..n
      BY <1>1, <1>6
    <2>2. CASE j = n + 1
      BY <1>2, <1>6, <2>1, <2>2 DEF Past
    <2>3. CASE j \in 1..n
      BY <1>2, <1>6, <2>1, <2>3 DEF Spaced, Past
    <2> QED
      BY <1>3, <2>2, <2>3
  <1> HIDE DEF n
  <1>7. 1..Len(granted') = 1..(n + 1)
    BY <1>2
  <1> QED
    BY <1>4, <1>5, <1>6, <1>7 DEF Spaced, Past

LEMMA WindowKept ==
  ASSUME LimiterIInv, [LimiterNext]_limiterVars, ~ overlap'
  PROVE  Window'
  <1> USE ILAssumption DEF GoesOn, table, outcomes
  <1>1. LimiterTypeOK /\ CountInv
    BY DEF LimiterIInv
  <1>2. CASE UNCHANGED limiterVars
    BY <1>2 DEF LimiterIInv, limiterVars, Window, Alone, Active, Spaced, Epoch, CallInv, Past
  <1>3. CASE Tick
    <2>1. now' = now + 1 /\ UNCHANGED <<visitors, reached, calling, loaded, granted>> /\ Window
      BY <1>3 DEF Tick, LimiterIInv
    <2>2. now \in Nat /\ (reached # Absent => reached \in Nat) /\ Period \in Nat
          /\ \A i \in 1..Len(granted) : granted[i] \in Nat
      BY <1>1 DEF LimiterTypeOK
    <2>3. Alone'
      BY <2>1 DEF Window, Alone, Active
    <2>4. Spaced'
      BY <2>1, <2>2 DEF Window, Spaced, Past
    <2>5. Epoch'
      BY <2>1, <2>2 DEF Window, Epoch, Past
    <2>6. CallInv'
      BY <2>1, <2>2 DEF Window, CallInv, Past
    <2> QED
      BY <2>3, <2>4, <2>5, <2>6 DEF Window
  <1>4. ASSUME NEW c \in Clients, CanInvoke(c)
        PROVE  Window'
    <2> DEFINE n == Len(granted)
    <2>1. /\ n \in Nat /\ now \in Nat /\ Period \in Nat /\ Limit \in Nat \ {0}
          /\ visitors # Absent => visitors \in Nat
          /\ reached # Absent => reached \in Nat
          /\ \A i \in 1..n : granted[i] \in Nat
      BY <1>1 DEF LimiterTypeOK
    <2>2. /\ ~ overlap /\ Window
          /\ \A d \in Clients \ {c} : calling[d] \in {"idle", "raised"} /\ calling'[d] = calling[d]
          /\ calling \in [Clients -> Places] /\ calling' \in [Clients -> Places]
      BY <1>4, OthersIdle
    <2>3. Alone /\ Spaced /\ Epoch /\ CallInv
      BY <2>2 DEF Window
    <2>4. Alone'
      BY <1>4, AloneKept
    <2>5. CASE Call(c)
      <3>1. Alone' /\ Spaced' /\ Epoch'
        BY <1>4, <2>2, <2>5, TestsKeepWindow DEF Call
      <3>2. CallInv'
        BY <2>2, <2>5 DEF Call, CallInv, AtLimit
      <3> QED
        BY <3>1, <3>2 DEF Window
    <2>6. CASE TestKnown(c)
      <3>1. Alone' /\ Spaced' /\ Epoch'
        BY <1>4, <2>2, <2>6, TestsKeepWindow DEF TestKnown
      <3>2. CallInv'
        BY <2>2, <2>6 DEF TestKnown, CallInv, AtLimit
      <3> QED
        BY <3>1, <3>2 DEF Window
    <2>7. CASE CompareLimit(c)
      <3>1. Alone' /\ Spaced' /\ Epoch'
        BY <1>4, <2>2, <2>7, TestsKeepWindow DEF CompareLimit
      <3>2. CallInv'
        BY <2>2, <2>7 DEF CompareLimit, CallInv, AtLimit
      <3> QED
        BY <3>1, <3>2 DEF Window
    <2>8. CASE LoadVisits(c)
      <3>1. Alone' /\ Spaced' /\ Epoch'
        BY <1>4, <2>2, <2>8, TestsKeepWindow DEF LoadVisits
      <3>2. loaded'[c] = visitors
        BY <1>1, <2>8 DEF LoadVisits, LimiterTypeOK
      <3>3. CallInv'
        BY <2>2, <2>3, <2>8, <3>2 DEF LoadVisits, CallInv, AtLimit
      <3> QED
        BY <3>1, <3>3 DEF Window
    <2>9. CASE TestReached(c)
      <3>1. Alone' /\ Spaced' /\ Epoch'
        BY <1>4, <2>2, <2>9, TestsKeepWindow DEF TestReached
      <3>2. CallInv'
        BY <2>2, <2>3, <2>9 DEF TestReached, CallInv, AtLimit
      <3> QED
        BY <3>1, <3>2 DEF Window
    <2>10. CASE TestElapsed(c)
      <3>1. Alone' /\ Spaced' /\ Epoch'
        BY <1>4, <2>2, <2>10, TestsKeepWindow DEF TestElapsed, Deny
      <3>2. calling'[c] = "reset" => reached # Absent /\ now - reached > Period
        <4>1. SUFFICES ASSUME calling'[c] = "reset"
                       PROVE  reached # Absent /\ now - reached > Period
          OBVIOUS
        <4>2. reached # Absent /\ (now - reached) % Day > Period
          BY <2>2, <2>10, <4>1 DEF TestElapsed
        <4>3. now - reached \in Nat
          BY <2>1, <2>3, <4>2 DEF Epoch
        <4>4. (now - reached) % Day <= now - reached
          BY <4>3, ModLe
        <4>5. (now - reached) % Day \in Nat
          BY <4>3
        <4> QED
          BY <2>1, <4>2, <4>3, <4>4, <4>5
      <3>3. CallInv'
        BY <2>2, <2>3, <2>10, <3>2 DEF TestElapsed, Deny, CallInv, AtLimit
      <3> QED
        BY <3>1, <3>3 DEF Window
    <2>11. CASE FirstVisit(c)
      <3>1. visitors = Absent /\ granted = <<>> /\ n = 0 /\ reached = Absent
        <4>1. visitors = Absent /\ granted = <<>>
          BY <2>3, <2>11 DEF FirstVisit, CallInv, Epoch
        <4>2. \A d \in Clients : calling[d] # "unmark"
          BY <2>2, <2>11 DEF FirstVisit
        <4> QED
          BY <4>1, <4>2, <2>1, <2>3 DEF Epoch, Absent
      <3>2. Grant /\ now' = now /\ visitors' = 1 /\ reached' = Absent
        BY <2>11, <3>1 DEF FirstVisit
      <3>3. Spaced'
        BY <1>1, <2>1, <2>3, <3>1, <3>2, GrantKeepsSpaced
      <3>4. Len(granted') = 1
        BY <1>1, <3>1, <3>2, GrantStep
      <3>5. Epoch'
        BY <2>1, <3>2, <3>4 DEF Epoch, Absent
      <3>6. CallInv'
        BY <2>2, <2>11 DEF FirstVisit, CallInv, AtLimit
      <3> QED
        BY <2>4, <3>3, <3>5, <3>6 DEF Window
    <2>12. CASE StoreVisits(c)
      <3>1. /\ Grant /\ now' = now /\ visitors' = visitors + 1 /\ reached' = reached
            /\ visitors # Absent /\ visitors # Limit /\ calling'[c] = "idle" /\ calling[c] = "store"
        BY <1>1, <2>2, <2>3, <2>12 DEF StoreVisits, CallInv, CountInv
      <3>2. \A d \in Clients : calling[d] # "unmark" /\ calling'[d] # "unmark"
        BY <2>2, <3>1
      <3>3. reached = Absent
        BY <2>3, <3>1, <3>2 DEF Epoch
      <3>4. /\ 1 <= visitors /\ visitors < Limit /\ visitors \in Nat /\ visitors <= n
            /\ \A i, j \in 1..n : i <= n - visitors /\ n - visitors < j => Past(i, granted[j])
        BY <1>1, <2>1, <2>3, <3>1, <3>2 DEF Epoch, CountInv
      <3>5. \A i \in 1..n : i <= n - visitors => Past(i, now)
        <4>1. n \in 1..n /\ n - visitors < n /\ granted[n] <= now
          BY <2>1, <2>3, <3>4 DEF Spaced
        <4>2. ASSUME NEW i \in 1..n, i <= n - visitors
              PROVE  granted[i] + Period < now
          <5>1. granted[i] + Period < granted[n]
            BY <3>4, <4>1, <4>2 DEF Past
          <5> QED
            BY <2>1, <4>1, <5>1
        <4> QED
          BY <4>2 DEF Past
      <3>6. Spaced'
        <4>1. \A i \in 1..n : i + Limit <= n + 1 => i <= n - visitors
          BY <2>1, <3>4
        <4> QED
          BY <1>1, <2>3, <3>1, <3>5, <4>1, GrantKeepsSpaced
      <3>7. /\ Len(granted') = n + 1 /\ granted'[n + 1] = now
            /\ \A i \in 1..n : granted'[i] = granted[i]
        BY <1>1, <3>1, GrantStep
      <3>8. \A i, j \in 1..(n + 1) : i <= n - visitors /\ n - visitors < j =>
               granted'[i] + Period < granted'[j]
        <4>1. \A j \in 1..(n + 1) : j \in 1..n \/ j = n + 1
          BY <2>1
        <4>2. \A i \in 1..(n + 1) : i <= n - visitors => i \in 1..n
          BY <2>1, <3>4
        <4> QED
          BY <2>1, <3>4, <3>5, <3>7, <4>1, <4>2 DEF Past
      <3>9. Len(granted') - visitors' = n - visitors
        BY <2>1, <3>1, <3>4, <3>7
      <3>10. Epoch'
        <4> HIDE DEF n
        <4> QED
          BY <2>1, <3>1, <3>3, <3>4, <3>7, <3>8, <3>9 DEF Epoch, Absent, Past
      <3>11. CallInv'
        BY <2>2, <3>1 DEF CallInv, AtLimit
      <3> QED
        BY <2>4, <3>6, <3>10, <3>11 DEF Window
    <2>13. CASE MarkReached(c)
      <3>1. /\ granted' = granted /\ now' = now /\ visitors' = visitors /\ reached' = now
            /\ visitors = Limit /\ calling'[c] = "idle" /\ calling[c] = "mark"
        BY <1>1, <2>2, <2>3, <2>13 DEF MarkReached, Deny, CallInv, AtLimit
      <3>2. \A d \in Clients : calling[d] # "unmark" /\ calling'[d] # "unmark"
        BY <2>2, <3>1
      <3>3. Spaced'
        BY <2>3, <3>1 DEF Spaced, Past
      <3>4. Epoch'
        BY <2>1, <2>3, <3>1, <3>2 DEF Epoch, Spaced, Past
      <3>5. CallInv'
        BY <2>2, <3>1 DEF CallInv, AtLimit
      <3> QED
        BY <2>4, <3>3, <3>4, <3>5 DEF Window
    <2>14. CASE ResetVisits(c)
      <3>1. /\ granted' = granted /\ now' = now /\ visitors' = 1 /\ reached' = reached
            /\ reached # Absent /\ now - reached > Period /\ visitors = Limit
            /\ calling'[c] = "unmark" /\ calling[c] = "reset"
        BY <1>1, <2>2, <2>3, <2>14 DEF ResetVisits, CallInv, AtLimit
      <3>2. \A i \in 1..n : granted[i] <= reached
        BY <2>3, <3>1 DEF Epoch
      <3>3. \A i \in 1..n : Past(i, now)
        BY <2>1, <3>1, <3>2 DEF Past
      <3>4. Spaced'
        BY <2>3, <3>1 DEF Spaced, Past
      <3>5. Epoch'
        BY <2>1, <2>3, <3>1, <3>2 DEF Epoch, Absent, Past
      <3>6. CallInv'
        BY <2>2, <3>1, <3>3 DEF CallInv, AtLimit, Past
      <3> QED
        BY <2>4, <3>4, <3>5, <3>6 DEF Window
    <2>15. CASE Unmark(c)
      <3>1. /\ visitors = 1 /\ reached # Absent /\ calling[c] = "unmark"
            /\ \A i \in 1..n : Past(i, now)
        BY <2>3, <2>15 DEF Unmark, CallInv
      <3>2. Grant /\ now' = now /\ visitors' = 1 /\ reached' = Absent /\ calling'[c] = "idle"
        BY <2>2, <2>15, <3>1 DEF Unmark
      <3>3. Spaced'
        BY <1>1, <2>3, <3>1, <3>2, GrantKeepsSpaced
      <3>4. /\ Len(granted') = n + 1 /\ granted'[n + 1] = now
            /\ \A i \in 1..n : granted'[i] = granted[i]
        BY <1>1, <3>2, GrantStep
      <3>5. \A i, j \in 1..(n + 1) : i <= n /\ n < j => granted'[i] + Period < granted'[j]
        <4>1. \A j \in 1..(n + 1) : n < j => j = n + 1
          BY <2>1
        <4> QED
          BY <2>1, <3>1, <3>4, <4>1 DEF Past
      <3>6. Len(granted') - visitors' = n
        BY <2>1, <3>2, <3>4
      <3>7. Epoch'
        <4> HIDE DEF n
        <4> QED
          BY <2>1, <3>2, <3>4, <3>5, <3>6 DEF Epoch, Absent, Past
      <3>8. CallInv'
        BY <2>2, <3>2 DEF CallInv, AtLimit
      <3> QED
        BY <2>4, <3>3, <3>7, <3>8 DEF Window
    <2> QED
      BY <1>4, <2>5, <2>6, <2>7, <2>8, <2>9, <2>10, <2>11, <2>12, <2>13, <2>14, <2>15 DEF CanInvoke
  <1> QED
    BY <1>2, <1>3, <1>4 DEF LimiterNext

-----------------------------------------------------------------------------
LEMMA LimiterInductive == LimiterIInv /\ [LimiterNext]_limiterVars => LimiterIInv'
  BY TypeKept, CountKept, WindowKept DEF LimiterIInv

(* Every variable keeps its type: a count that is not there is never read  *)
(* by  += 1, which in the code would be a KeyError.                        *)
THEOREM LimiterTypeCorrect == LimiterSpec => []LimiterTypeOK
  <1>1. LimiterIInv => LimiterTypeOK
    BY DEF LimiterIInv
  <1> QED
    BY <1>1, InitLimiter, LimiterInductive, PTL DEF LimiterSpec

(* For every number of threads, limit and period: while calls do not       *)
(* overlap no Period seconds hold more than Limit grants, and, overlap or  *)
(* not, nobody is refused before Limit calls have been granted.            *)
THEOREM LimitKept == LimiterSpec => []LimitExact
  <1>1. LimiterIInv => LimitExact
    BY SpacedIsLimited
       DEF LimiterIInv, Window, CountInv, LimitExact, NoEarlyRefusal, LimitKeptWithoutOverlap
  <1> QED
    BY <1>1, InitLimiter, LimiterInductive, PTL DEF LimiterSpec
=============================================================================
