------------------------ MODULE PasswordManagerProofs ------------------------
(***************************************************************************)
(* Safety of the password manager for every number of connections, every   *)
(* threshold range and every interleaving of the unlocked steps.           *)
(***************************************************************************)
EXTENDS PasswordManager, SequenceTheorems, TLAPS

\* Places where the attempt is being counted, and where a record is held.
Counting == {"lookup", "create", "fetch", "load", "store", "decide", "allow", "delete"}
Holding == {"load", "store", "decide"}

\* A thread that is updating a record has a reference to one, and a thread past
\* its first step has a password to check.
RefInv ==
    \A c \in Conns :
        /\ pc[c] \in Holding => ref[c] # Absent
        /\ pc[c] # "idle" => pw[c] \in Passwords

TypeInv == TypeOK /\ RefInv

\* Only short passwords are counted, learned or accepted.
PasswordInv ==
    /\ blacklist \subseteq Long \ Configured
    /\ Configured \subseteq allowed
    /\ allowed \subseteq Configured \cup (Passwords \ Long)
    /\ \A c \in Conns :
          /\ pc[c] \in Counting => pw[c] \notin Long
          /\ pc[c] = "delete" => pw[c] \in allowed
          /\ pc[c] = "log" /\ last[c].success => pw[c] \in allowed
          /\ pc[c] = "open" => pw[c] \in allowed

\* A record belongs to one key, and its count, and what a thread is about to
\* write there, never exceeds the attempts made under that key.
RecordInv ==
    /\ \A i \in 1..Len(records) : records[i].count <= spent[records[i].key]
    /\ \A k \in Keys : tracking[k] # Absent => records[tracking[k]].key = k
    /\ \A c \in Conns :
          /\ pc[c] \in Holding => records[ref[c]].key = Key(c)
          /\ pc[c] = "store" => loaded[c] + 1 <= spent[Key(c)]

\* An attempt that is being accepted has a number its key has earned.
AcceptInv ==
    \A c \in Conns :
        /\ pc[c] \in {"allow", "delete"} => last[c].attempt_number <= spent[Key(c)]
        /\ pc[c] = "allow" => EarlySuccess \/ last[c].attempt_number >= MinAttempts

IInv == TypeInv /\ PasswordInv /\ RecordInv /\ AcceptInv /\ Earned

-----------------------------------------------------------------------------
\* A connection is counted under one of the keys.
LEMMA KeyType == ASSUME NEW c \in Conns PROVE Key(c) \in Keys
BY DEF Keys

RecordType == [key : Keys, threshold : MinAttempts..MaxAttempts, count : Nat]

\* The places of a thread: what counting and holding a record include.
LEMMA PlacesFacts ==
  /\ {"idle", "check", "log", "open", "raised"} \subseteq Places \ Holding
  /\ {"lookup", "create", "fetch", "allow", "delete"} \subseteq Places \ Holding
  /\ Holding \subseteq Places
  /\ Holding = {"load", "store", "decide"}
BY DEF Places, Holding

\* The type invariant holds at the start.
LEMMA InitType == Init => TypeInv
BY PMAssumption, KeyType, PlacesFacts
   DEF Init, TypeInv, TypeOK, RefInv, Absent, Attempt, Holding, PMAssumption

\* Storing a count changes the count of one record and nothing else.
LEMMA StoreType ==
  ASSUME TypeInv, NEW c \in Conns, StoreCount(c)
  PROVE  /\ records' \in Seq(RecordType)
         /\ Len(records') = Len(records)
         /\ \A i \in 1..Len(records) :
               /\ records'[i].key = records[i].key
               /\ records'[i].threshold = records[i].threshold
               /\ records'[i].count = IF i = ref[c] THEN loaded[c] + 1 ELSE records[i].count
<1> DEFINE i == ref[c]
           e == [records[i] EXCEPT !.count = loaded[c] + 1]
<1>1. records \in Seq(RecordType) /\ i \in 1..Len(records) /\ loaded[c] + 1 \in Nat
  <2>1. records \in Seq(RecordType)
    BY DEF TypeInv, TypeOK, RecordType
  <2>2. ref[c] \in 0..Len(records) /\ loaded[c] \in Nat
    BY DEF TypeInv, TypeOK
  <2>3. ref[c] # Absent
    BY DEF TypeInv, RefInv, StoreCount, Goto, Holding
  <2>4. QED
    BY <2>1, <2>2, <2>3 DEF Absent
<1>2. records[i] \in RecordType
  BY <1>1
<1>3. /\ e \in RecordType
      /\ e.key = records[i].key
      /\ e.threshold = records[i].threshold
      /\ e.count = loaded[c] + 1
  BY <1>1, <1>2 DEF RecordType
<1>4. records' = [records EXCEPT ![i] = e]
  BY DEF StoreCount
<1>5. QED
  BY <1>1, <1>3, <1>4, ExceptSeq

\* A step moves only its own thread, from one place to another.
LEMMA StepMoves ==
  ASSUME TypeInv, NEW c \in Conns, Step(c)
  PROVE  \E to \in Places : pc' = [pc EXCEPT ![c] = to]
<1> USE PlacesFacts DEF Goto
<1>1. CASE \E p \in Passwords : Begin(c, p)
  BY <1>1 DEF Begin
<1>2. CASE AcceptAllowed(c) \/ RejectLong(c) \/ CountAttempt(c)
  BY <1>2 DEF AcceptAllowed, RejectLong, CountAttempt
<1>3. CASE LookupState(c) \/ CreateState(c) \/ FetchState(c)
  BY <1>3 DEF LookupState, CreateState, FetchState
<1>4. CASE LoadCount(c) \/ StoreCount(c)
  BY <1>4 DEF LoadCount, StoreCount
<1>5. CASE Decide(c)
  BY <1>5 DEF Decide, Outcomes
<1>6. CASE AllowPassword(c) \/ DeleteState(c) \/ LogAttempt(c)
  BY <1>6 DEF AllowPassword, DeleteState, LogAttempt
<1>7. QED
  BY <1>1, <1>2, <1>3, <1>4, <1>5, <1>6 DEF Step

\* The part of the type invariant about shared data.
SharedType ==
    /\ allowed \subseteq Passwords
    /\ blacklist \subseteq Passwords
    /\ records \in Seq(RecordType)
    /\ tracking \in [Keys -> 0..Len(records)]
    /\ spent \in [Keys -> Nat]
    /\ failures \in [Keys -> Nat]

LocalType ==
    /\ pw \in [Conns -> Passwords \cup {NoPassword}]
    /\ ref \in [Conns -> 0..Len(records)]
    /\ loaded \in [Conns -> Nat]
    /\ last \in [Conns -> [attempt_number : Nat, required_attempts : Nat, success : BOOLEAN]]
    /\ logged \in [Conns -> Nat]
    /\ tries \in [Conns -> Nat]

\* The type invariant in three parts, so that a proof can hide two of them.
LEMMA TypeParts == TypeOK <=> SharedType /\ LocalType /\ pc \in [Conns -> Places]
BY DEF TypeOK, SharedType, LocalType, RecordType

\* Every step keeps the types of the shared and the local data.
LEMMA StepData ==
  ASSUME TypeInv, NEW c \in Conns, Step(c)
  PROVE  SharedType' /\ LocalType'
<1>0. c \in Conns /\ Key(c) \in Keys /\ SharedType /\ LocalType /\ Len(records) \in Nat
  BY KeyType, TypeParts, LenProperties DEF TypeInv, SharedType
<1> USE DEF SharedType, LocalType, shared, local, history
<1>1. ASSUME NEW p \in Passwords, Begin(c, p) PROVE SharedType' /\ LocalType'
  <2>1. /\ p \in Passwords
        /\ pw' = [pw EXCEPT ![c] = p]
        /\ tries' = [tries EXCEPT ![c] = @ + 1]
        /\ UNCHANGED <<shared, ref, loaded, last, logged, history>>
    BY ONLY <1>1, p \in Passwords DEF Begin
  <2>2. pw' \in [Conns -> Passwords \cup {NoPassword}] /\ tries' \in [Conns -> Nat]
    BY ONLY <1>0, <2>1
  <2>3. QED
    BY ONLY <1>0, <2>1, <2>2
<1>2. CASE AcceptAllowed(c)
  <2>1. /\ last' = [last EXCEPT ![c] = Attempt(1, 1, TRUE)]
        /\ UNCHANGED <<shared, pw, ref, loaded, logged, tries, history>>
    BY ONLY <1>2 DEF AcceptAllowed
  <2>2. last' \in [Conns -> [attempt_number : Nat, required_attempts : Nat, success : BOOLEAN]]
    BY ONLY <1>0, <2>1 DEF Attempt
  <2>3. QED
    BY ONLY <1>0, <2>1, <2>2
<1>3. CASE RejectLong(c)
  <2>1. /\ pw[c] \in Passwords
        /\ blacklist' = blacklist \cup {pw[c]}
        /\ last' = [last EXCEPT ![c] = Attempt(0, 0, FALSE)]
        /\ UNCHANGED <<allowed, tracking, records, pw, ref, loaded, logged, tries, history>>
    BY ONLY <1>3, PMAssumption DEF RejectLong, PMAssumption
  <2>2. last' \in [Conns -> [attempt_number : Nat, required_attempts : Nat, success : BOOLEAN]]
    BY ONLY <1>0, <2>1 DEF Attempt
  <2>3. QED
    BY ONLY <1>0, <2>1, <2>2
<1>4. CASE CountAttempt(c) \/ LookupState(c)
  <2>1. UNCHANGED <<shared, local, history>>
    BY ONLY <1>4 DEF CountAttempt, LookupState
  <2>2. QED
    BY ONLY <1>0, <2>1
<1>5. CASE CreateState(c)
  <2>1. PICK threshold \in MinAttempts..MaxAttempts :
          records' = Append(records, [key |-> Key(c), threshold |-> threshold, count |-> 0])
    BY ONLY <1>5 DEF CreateState
  <2>2. records' \in Seq(RecordType) /\ Len(records') = Len(records) + 1
    BY ONLY <1>0, <2>1, AppendProperties DEF RecordType
  <2>3. 0..Len(records) \subseteq 0..Len(records') /\ Len(records) + 1 \in 0..Len(records')
    BY ONLY <1>0, <2>2
  <2>4. /\ tracking' = [tracking EXCEPT ![Key(c)] = Len(records) + 1]
        /\ UNCHANGED <<allowed, blacklist, local, history>>
    BY ONLY <1>5 DEF CreateState
  <2>5. tracking' \in [Keys -> 0..Len(records')] /\ ref' \in [Conns -> 0..Len(records')]
    BY ONLY <1>0, <2>3, <2>4
  <2>6. QED
    BY ONLY <1>0, <2>2, <2>4, <2>5
<1>6. CASE FetchState(c)
  <2>1. /\ \/ UNCHANGED ref
           \/ ref' = [ref EXCEPT ![c] = tracking[Key(c)]]
        /\ UNCHANGED <<shared, pw, loaded, last, logged, tries, history>>
    BY ONLY <1>6 DEF FetchState
  <2>2. ref' \in [Conns -> 0..Len(records)]
    BY ONLY <1>0, <2>1
  <2>3. QED
    BY ONLY <1>0, <2>1, <2>2
<1>7. CASE LoadCount(c)
  <2>1. ref[c] \in 1..Len(records)
    BY <1>0, <1>7 DEF LoadCount, Goto, Absent, RefInv, Holding, TypeInv
  <2>2. records[ref[c]] \in RecordType
    BY ONLY <1>0, <2>1
  <2>3. records[ref[c]].count \in Nat
    BY ONLY <2>2 DEF RecordType
  <2>4. /\ loaded' = [loaded EXCEPT ![c] = records[ref[c]].count]
        /\ spent' = [spent EXCEPT ![Key(c)] = @ + 1]
        /\ UNCHANGED <<shared, pw, ref, last, logged, tries, failures>>
    BY ONLY <1>7 DEF LoadCount
  <2>5. loaded' \in [Conns -> Nat]
    BY ONLY <1>0, <2>3, <2>4
  <2>6. spent' \in [Keys -> Nat]
    BY ONLY <1>0, <2>4
  <2>7. QED
    BY ONLY <1>0, <2>4, <2>5, <2>6
<1>8. CASE StoreCount(c)
  <2>1. records' \in Seq(RecordType) /\ Len(records') = Len(records)
    BY ONLY <1>0, <1>8, TypeInv, StoreType
  <2>2. UNCHANGED <<allowed, blacklist, tracking, local, history>>
    BY ONLY <1>8 DEF StoreCount
  <2>3. QED
    BY ONLY <1>0, <2>1, <2>2
<1>9. CASE Decide(c)
  <2>1. ref[c] \in 1..Len(records)
    BY <1>0, <1>9 DEF Decide, Absent, RefInv, Holding, TypeInv
  <2>2. records[ref[c]] \in RecordType
    BY ONLY <1>0, <2>1
  <2>3. records[ref[c]].count \in Nat /\ records[ref[c]].threshold \in Nat
    BY ONLY <2>2, PMAssumption DEF RecordType, PMAssumption
  <2>4. PICK success \in BOOLEAN :
          /\ last' = [last EXCEPT ![c] = Attempt(records[ref[c]].count, records[ref[c]].threshold, success)]
          /\ failures' = [failures EXCEPT ![Key(c)] = IF success THEN 0 ELSE @ + 1]
    BY ONLY <1>9 DEF Decide, Outcomes
  <2>5. UNCHANGED <<shared, pw, ref, loaded, logged, tries, spent>>
    BY ONLY <1>9 DEF Decide
  <2>6. failures' \in [Keys -> Nat]
    BY ONLY <1>0, <2>4
  <2>7. last' \in [Conns -> [attempt_number : Nat, required_attempts : Nat, success : BOOLEAN]]
    BY ONLY <1>0, <2>3, <2>4, success \in BOOLEAN DEF Attempt
  <2>8. QED
    BY ONLY <1>0, <2>5, <2>6, <2>7
<1>10. CASE AllowPassword(c)
  <2>1. pw[c] \in Passwords
    BY <1>0, <1>10 DEF AllowPassword, Goto, RefInv, TypeInv
  <2>2. allowed' = allowed \cup {pw[c]} /\ UNCHANGED <<blacklist, tracking, records, local, history>>
    BY ONLY <1>10 DEF AllowPassword
  <2>3. QED
    BY ONLY <1>0, <2>1, <2>2
<1>11. CASE DeleteState(c)
  <2>1. /\ tracking' = [tracking EXCEPT ![Key(c)] = 0]
        /\ UNCHANGED <<allowed, blacklist, records, local, history>>
    BY ONLY <1>11 DEF DeleteState, Absent
  <2>2. tracking' \in [Keys -> 0..Len(records)]
    BY ONLY <1>0, <2>1
  <2>3. QED
    BY ONLY <1>0, <2>1, <2>2
<1>12. CASE LogAttempt(c)
  <2>1. /\ logged' = [logged EXCEPT ![c] = @ + 1]
        /\ UNCHANGED <<shared, pw, ref, loaded, last, tries, history>>
    BY ONLY <1>12 DEF LogAttempt
  <2>2. logged' \in [Conns -> Nat]
    BY ONLY <1>0, <2>1
  <2>3. QED
    BY ONLY <1>0, <2>1, <2>2
<1>13. QED
  BY ONLY Step(c), <1>1, <1>2, <1>3, <1>4, <1>5, <1>6, <1>7, <1>8, <1>9, <1>10, <1>11, <1>12
     DEF Step

\* Every step keeps the references of threads that hold a record.
LEMMA StepRef == ASSUME TypeInv, NEW c \in Conns, Step(c) PROVE RefInv'
<1> USE PlacesFacts DEF Goto, RefInv, shared, local
<1>0. pc \in [Conns -> Places] /\ ref \in [Conns -> Nat] /\ RefInv /\ pw \in [Conns -> Passwords \cup {NoPassword}]
  BY DEF TypeInv, TypeOK
<1>1. CASE \E p \in Passwords : Begin(c, p)
  BY <1>0, <1>1 DEF Begin
<1>2. CASE AcceptAllowed(c) \/ RejectLong(c) \/ CountAttempt(c)
  BY <1>0, <1>2 DEF AcceptAllowed, RejectLong, CountAttempt
<1>3. CASE LookupState(c) \/ CreateState(c)
  BY <1>0, <1>3 DEF LookupState, CreateState
<1>4. CASE FetchState(c)
  BY <1>0, <1>4 DEF FetchState
<1>5. CASE LoadCount(c) \/ StoreCount(c)
  BY <1>0, <1>5 DEF LoadCount, StoreCount
<1>6. CASE Decide(c)
  BY <1>0, <1>6 DEF Decide, Outcomes
<1>7. CASE AllowPassword(c) \/ DeleteState(c) \/ LogAttempt(c)
  BY <1>0, <1>7 DEF AllowPassword, DeleteState, LogAttempt
<1>8. QED
  BY <1>1, <1>2, <1>3, <1>4, <1>5, <1>6, <1>7 DEF Step

\* The type invariant is inductive.
LEMMA NextType == TypeInv /\ [Next]_vars => TypeInv'
<1>1. CASE UNCHANGED vars
  BY <1>1 DEF vars, local, history, TypeInv, TypeOK, RefInv
<1>2. ASSUME TypeInv, NEW c \in Conns, Step(c) PROVE TypeInv'
  <2>1. pc' \in [Conns -> Places]
    BY <1>2, StepMoves DEF TypeInv, TypeOK
  <2>2. SharedType' /\ LocalType' /\ RefInv'
    BY <1>2, StepData, StepRef
  <2>3. QED
    BY <2>1, <2>2 DEF TypeInv, TypeOK, SharedType, LocalType, RecordType
<1>3. QED
  BY <1>1, <1>2 DEF Next

\* Every variable keeps its type in every reachable state.
THEOREM TypeCorrect == Spec => []TypeOK
<1>1. TypeInv => TypeOK
  BY DEF TypeInv
<1>2. QED
  BY <1>1, InitType, NextType, PTL DEF Spec

-----------------------------------------------------------------------------
(* Passwords: what is blacklisted and what is allowed stay apart.          *)

\* Every step keeps the blacklist and the allowed passwords apart.
LEMMA StepPassword ==
  ASSUME TypeInv, PasswordInv, NEW c \in Conns, Step(c)
  PROVE  PasswordInv'
<1> USE DEF PasswordInv, Goto, shared, local, Counting
<1>0. /\ pc \in [Conns -> Places]
      /\ pw \in [Conns -> Passwords \cup {NoPassword}]
      /\ last \in [Conns -> [attempt_number : Nat, required_attempts : Nat, success : BOOLEAN]]
      /\ \A d \in Conns : pc[d] # "idle" => pw[d] \in Passwords
  BY DEF TypeInv, TypeOK, RefInv
<1>1. CASE \E p \in Passwords : Begin(c, p)
  BY <1>0, <1>1 DEF Begin
<1>2. CASE AcceptAllowed(c)
  BY <1>0, <1>2 DEF AcceptAllowed
<1>3. CASE RejectLong(c)
  <2>1. pw[c] \in Long \ Configured
    BY <1>3 DEF RejectLong
  <2>2. QED
    BY <1>0, <1>3, <2>1 DEF RejectLong, Attempt
<1>4. CASE CountAttempt(c) \/ LookupState(c) \/ CreateState(c) \/ FetchState(c)
  BY <1>0, <1>4 DEF CountAttempt, LookupState, CreateState, FetchState
<1>5. CASE LoadCount(c) \/ StoreCount(c)
  BY <1>0, <1>5 DEF LoadCount, StoreCount
<1>6. CASE Decide(c)
  BY <1>0, <1>6 DEF Decide, Outcomes, Attempt
<1>7. CASE AllowPassword(c)
  BY <1>0, <1>7 DEF AllowPassword
<1>8. CASE DeleteState(c)
  BY <1>0, <1>8 DEF DeleteState
<1>9. CASE LogAttempt(c)
  BY <1>0, <1>9 DEF LogAttempt
<1>10. QED
  BY <1>1, <1>2, <1>3, <1>4, <1>5, <1>6, <1>7, <1>8, <1>9 DEF Step

-----------------------------------------------------------------------------
(* Counting: a record never counts more than its key has tried.            *)

\* The number of attempts made under a key never goes down.
LEMMA SpentGrows ==
  ASSUME TypeInv, NEW c \in Conns, Step(c)
  PROVE  \A k \in Keys : spent'[k] >= spent[k]
<1>1. spent \in [Keys -> Nat]
  BY DEF TypeInv, TypeOK
<1>2. CASE LoadCount(c)
  BY <1>1, <1>2, KeyType DEF LoadCount
<1>3. CASE UNCHANGED spent
  BY <1>1, <1>3
<1>4. QED
  BY <1>2, <1>3 DEF Step, Begin, AcceptAllowed, RejectLong, CountAttempt, LookupState,
     CreateState, FetchState, StoreCount, Decide, AllowPassword, DeleteState, LogAttempt, history

\* A new dictionary is the last record, and the table points to it.
LEMMA CreateType ==
  ASSUME TypeInv, NEW c \in Conns, CreateState(c)
  PROVE  /\ Len(records') = Len(records) + 1
         /\ \A i \in 1..Len(records) : records'[i] = records[i]
         /\ records'[Len(records) + 1].key = Key(c)
         /\ records'[Len(records) + 1].count = 0
<1>1. PICK threshold \in MinAttempts..MaxAttempts :
        records' = Append(records, [key |-> Key(c), threshold |-> threshold, count |-> 0])
  BY DEF CreateState
<1>2. records \in Seq(RecordType) /\ [key |-> Key(c), threshold |-> threshold, count |-> 0] \in RecordType
  BY KeyType DEF TypeInv, TypeOK, RecordType
<1>3. QED
  BY <1>1, <1>2, AppendProperties

\* Steps that leave the records, the table and the counts alone.
LEMMA QuietRecord ==
  ASSUME TypeInv, RecordInv, NEW c \in Conns, NEW to \in Places \ Holding,
         pc' = [pc EXCEPT ![c] = to],
         UNCHANGED <<records, ref, loaded, spent>>,
         \A k \in Keys : tracking'[k] \in {Absent, tracking[k]}
  PROVE  RecordInv'
BY PlacesFacts DEF TypeInv, TypeOK, RecordInv

\* Every step keeps the counts of records at or below the attempts made.
LEMMA StepRecord ==
  ASSUME TypeInv, RecordInv, NEW c \in Conns, Step(c)
  PROVE  RecordInv'
<1>0. /\ pc \in [Conns -> Places]
      /\ tracking \in [Keys -> 0..Len(records)]
      /\ ref \in [Conns -> 0..Len(records)]
      /\ loaded \in [Conns -> Nat]
      /\ spent \in [Keys -> Nat]
      /\ \A i \in 1..Len(records) : records[i].key \in Keys /\ records[i].count \in Nat
      /\ Len(records) \in Nat
      /\ \A d \in Conns : pc[d] \in Holding => ref[d] \in 1..Len(records)
  <2>1. records \in Seq(RecordType)
    BY DEF TypeInv, TypeOK, RecordType
  <2>2. \A i \in 1..Len(records) : records[i] \in RecordType
    BY <2>1
  <2>3. \A i \in 1..Len(records) : records[i].key \in Keys /\ records[i].count \in Nat
    BY <2>2 DEF RecordType
  <2>4. Len(records) \in Nat
    BY <2>1, LenProperties
  <2>5. /\ pc \in [Conns -> Places]
        /\ tracking \in [Keys -> 0..Len(records)]
        /\ ref \in [Conns -> 0..Len(records)]
        /\ loaded \in [Conns -> Nat]
        /\ spent \in [Keys -> Nat]
    BY DEF TypeInv, TypeOK
  <2>6. \A d \in Conns : pc[d] \in Holding => ref[d] # 0
    BY DEF TypeInv, RefInv, Absent
  <2>7. QED
    BY <2>3, <2>4, <2>5, <2>6
<1>1. CASE \E p \in Passwords : Begin(c, p)
  BY <1>0, <1>1, QuietRecord, PlacesFacts DEF Begin, Goto, shared, local, history
<1>2. CASE AcceptAllowed(c) \/ RejectLong(c) \/ CountAttempt(c) \/ LookupState(c)
  BY <1>0, <1>2, QuietRecord, PlacesFacts
     DEF AcceptAllowed, RejectLong, CountAttempt, LookupState, Goto, shared, local, history
<1>3. CASE CreateState(c)
  <2>1. /\ UNCHANGED <<ref, loaded, spent>>
        /\ tracking' = [tracking EXCEPT ![Key(c)] = Len(records) + 1]
        /\ pc' = [pc EXCEPT ![c] = "fetch"]
    BY <1>3 DEF CreateState, Goto, local, history
  <2>2. \A i \in 1..Len(records') : records'[i].count <= spent'[records'[i].key]
    BY <1>0, <1>3, <2>1, CreateType, KeyType DEF RecordInv
  <2>3. \A k \in Keys : tracking'[k] # Absent => records'[tracking'[k]].key = k
    <3>1. ASSUME NEW k \in Keys \ {Key(c)}, tracking[k] # Absent
          PROVE  records'[tracking'[k]].key = k
      <4>1. tracking'[k] = tracking[k] /\ tracking[k] \in 1..Len(records)
        BY <1>0, <2>1, <3>1 DEF Absent
      <4>2. QED
        BY <1>3, <3>1, <4>1, CreateType DEF RecordInv
    <3>2. records'[tracking'[Key(c)]].key = Key(c)
      BY <1>0, <1>3, <2>1, CreateType, KeyType
    <3>3. QED
      BY <1>0, <2>1, <3>1, <3>2
  <2>4. ASSUME NEW d \in Conns, pc'[d] \in Holding
        PROVE  pc[d] = pc'[d] /\ records'[ref[d]].key = Key(d)
    BY <1>0, <1>3, <2>1, <2>4, CreateType, PlacesFacts DEF RecordInv
  <2>5. QED
    BY <1>0, <2>1, <2>2, <2>3, <2>4, PlacesFacts DEF RecordInv
<1>4. CASE FetchState(c)
  <2>1. CASE tracking[Key(c)] = Absent
    BY <1>0, <1>4, <2>1, QuietRecord, PlacesFacts DEF FetchState, Goto, shared, local, history
  <2>2. CASE tracking[Key(c)] # Absent
    BY <1>0, <1>4, <2>2, KeyType, PlacesFacts
       DEF FetchState, Goto, shared, local, history, RecordInv
  <2>3. QED
    BY <2>1, <2>2
<1>5. CASE LoadCount(c)
  <2>1. /\ pc[c] = "load" /\ pc' = [pc EXCEPT ![c] = "store"]
        /\ loaded' = [loaded EXCEPT ![c] = records[ref[c]].count]
        /\ spent' = [spent EXCEPT ![Key(c)] = @ + 1]
        /\ UNCHANGED <<records, tracking, ref>>
    BY <1>5 DEF LoadCount, Goto, shared, history
  <2>2. loaded'[c] + 1 <= spent'[Key(c)]
    BY <1>0, <2>1, KeyType, PlacesFacts DEF RecordInv
  <2>3. \A k \in Keys : spent'[k] \in Nat /\ spent'[k] >= spent[k]
    BY <1>0, <2>1, KeyType
  <2>4. QED
    BY <1>0, <2>1, <2>2, <2>3, KeyType, PlacesFacts DEF RecordInv
<1>6. CASE StoreCount(c)
  <2>1. /\ pc[c] = "store" /\ pc' = [pc EXCEPT ![c] = "decide"]
        /\ UNCHANGED <<tracking, ref, loaded, spent>>
    BY <1>6 DEF StoreCount, Goto, local, history
  <2>2. \A i \in 1..Len(records') : records'[i].count <= spent'[records'[i].key]
    <3>1. SUFFICES ASSUME NEW i \in 1..Len(records) PROVE records'[i].count <= spent[records[i].key]
      BY <1>6, <2>1, StoreType
    <3>2. CASE i = ref[c]
      <4>1. records'[i].count = loaded[c] + 1 /\ records[i].key = Key(c)
        BY <1>6, <2>1, <3>2, StoreType, PlacesFacts DEF RecordInv
      <4>2. QED
        BY <2>1, <4>1 DEF RecordInv
    <3>3. CASE i # ref[c]
      BY <1>6, <3>3, StoreType DEF RecordInv
    <3>4. QED
      BY <3>2, <3>3
  <2>3. \A k \in Keys : tracking'[k] # Absent => records'[tracking'[k]].key = k
    <3>1. ASSUME NEW k \in Keys, tracking[k] # Absent PROVE records'[tracking[k]].key = k
      <4>1. tracking[k] \in 1..Len(records)
        BY <1>0, <3>1 DEF Absent
      <4>2. QED
        BY <1>6, <3>1, <4>1, StoreType DEF RecordInv
    <3>2. QED
      BY <2>1, <3>1
  <2>4. ASSUME NEW d \in Conns, pc'[d] \in Holding
        PROVE  records'[ref[d]].key = Key(d)
    <3>1. ref[d] \in 1..Len(records) /\ records[ref[d]].key = Key(d)
      BY <1>0, <2>1, <2>4, PlacesFacts DEF RecordInv
    <3>2. QED
      BY <1>6, <3>1, StoreType
  <2>5. QED
    BY <1>0, <2>1, <2>2, <2>3, <2>4 DEF RecordInv
<1>7. CASE Decide(c)
  <2>1. PICK to \in {"allow", "log"} : Goto(c, "decide", to)
    BY <1>7 DEF Decide
  <2>2. QED
    BY <1>0, <1>7, <2>1, QuietRecord, PlacesFacts DEF Decide, Goto, shared
<1>8. CASE AllowPassword(c) \/ DeleteState(c) \/ LogAttempt(c)
  BY <1>0, <1>8, QuietRecord, PlacesFacts
     DEF AllowPassword, DeleteState, LogAttempt, Goto, shared, local, history
<1>9. QED
  BY <1>1, <1>2, <1>3, <1>4, <1>5, <1>6, <1>7, <1>8 DEF Step

\* What is being accepted was counted in a record of the same key.
LEMMA StepAccept ==
  ASSUME TypeInv, RecordInv, AcceptInv, NEW c \in Conns, Step(c)
  PROVE  AcceptInv'
<1>0. /\ pc \in [Conns -> Places]
      /\ last \in [Conns -> [attempt_number : Nat, required_attempts : Nat, success : BOOLEAN]]
      /\ \A k \in Keys : spent[k] \in Nat /\ spent'[k] \in Nat /\ spent'[k] >= spent[k]
  BY SpentGrows, StepData DEF TypeInv, TypeOK, SharedType
<1> USE KeyType DEF AcceptInv, Goto, shared, local
<1>1. CASE \E p \in Passwords : Begin(c, p)
  BY <1>0, <1>1 DEF Begin
<1>2. CASE AcceptAllowed(c) \/ RejectLong(c)
  <2>1. pc' = [pc EXCEPT ![c] = "log"] /\ \A d \in Conns \ {c} : last'[d] = last[d]
    BY <1>0, <1>2 DEF AcceptAllowed, RejectLong
  <2>2. UNCHANGED spent
    BY <1>2 DEF AcceptAllowed, RejectLong, history
  <2>3. QED
    BY <1>0, <2>1, <2>2
<1>3. CASE CountAttempt(c) \/ LookupState(c) \/ CreateState(c) \/ FetchState(c)
  BY <1>0, <1>3 DEF CountAttempt, LookupState, CreateState, FetchState
<1>4. CASE LoadCount(c) \/ StoreCount(c)
  BY <1>0, <1>4 DEF LoadCount, StoreCount
<1>5. CASE Decide(c)
  <2> DEFINE r == records[ref[c]]
  <2>1. PICK success \in Outcomes(r) :
          /\ Goto(c, "decide", IF success THEN "allow" ELSE "log")
          /\ last' = [last EXCEPT ![c] = Attempt(r.count, r.threshold, success)]
    BY <1>5 DEF Decide
  <2>2. r \in RecordType /\ ref[c] \in 1..Len(records)
    <3>1. records \in Seq(RecordType) /\ ref[c] \in 0..Len(records)
      BY DEF TypeInv, TypeOK, RecordType
    <3>2. ref[c] # 0
      BY <1>5, PlacesFacts DEF Decide, TypeInv, RefInv, Absent
    <3>3. QED
      BY <3>1, <3>2
  <2>3. r.count \in Nat /\ r.threshold \in Nat /\ r.threshold >= MinAttempts /\ MinAttempts \in Nat
    BY <2>2, PMAssumption DEF RecordType, PMAssumption
  <2>4. r.count <= spent[Key(c)]
    <3>1. pc[c] \in Holding
      BY <1>5, PlacesFacts DEF Decide
    <3>2. records[ref[c]].key = Key(c)
      BY <3>1 DEF RecordInv
    <3>3. QED
      BY <2>2, <3>2 DEF RecordInv
  <2>5. success => EarlySuccess \/ r.count >= MinAttempts
    <3> HIDE DEF r
    <3>1. CASE r.count >= r.threshold
      BY <2>3, <3>1
    <3>2. CASE ~(r.count >= r.threshold) /\ ~EarlySuccess
      <4>1. Outcomes(r) = {FALSE}
        BY ONLY <3>2 DEF Outcomes
      <4>2. success = FALSE
        BY ONLY <2>1, <4>1
      <4>3. QED
        BY ONLY <4>2
    <3>3. QED
      BY <3>1, <3>2
  <2>6. last'[c].attempt_number = r.count
    BY <1>0, <2>1 DEF Attempt
  <2>7. \A d \in Conns \ {c} : pc'[d] = pc[d] /\ last'[d] = last[d]
    BY <1>0, <2>1
  <2>8. pc'[c] = IF success THEN "allow" ELSE "log"
    BY <1>0, <2>1
  <2>9. UNCHANGED spent
    BY <1>5 DEF Decide
  <2> HIDE DEF r
  <2>10. QED
    BY <2>4, <2>5, <2>6, <2>7, <2>8, <2>9
<1>6. CASE AllowPassword(c) \/ DeleteState(c) \/ LogAttempt(c)
  BY <1>0, <1>6 DEF AllowPassword, DeleteState, LogAttempt
<1>7. QED
  BY <1>1, <1>2, <1>3, <1>4, <1>5, <1>6 DEF Step

\* A step that adds to the allowed passwords has an earned attempt.
LEMMA StepEarned ==
  ASSUME TypeInv, AcceptInv, Earned, NEW c \in Conns, Step(c)
  PROVE  Earned'
<1>0. /\ \A k \in Keys : spent[k] \in Nat /\ spent'[k] \in Nat /\ spent'[k] >= spent[k]
      /\ MinAttempts \in Nat
      /\ last[c].attempt_number \in Nat
  BY SpentGrows, StepData, PMAssumption DEF TypeInv, TypeOK, SharedType, PMAssumption
<1>1. CASE AllowPassword(c)
  <2>1. EarlySuccess \/ last[c].attempt_number >= MinAttempts
    BY <1>1 DEF AllowPassword, Goto, AcceptInv
  <2>2. last[c].attempt_number <= spent[Key(c)]
    BY <1>1 DEF AllowPassword, Goto, AcceptInv
  <2>3. EarlySuccess \/ spent'[Key(c)] >= MinAttempts
    BY <1>0, <2>1, <2>2, KeyType
  <2>4. QED
    BY <2>3, KeyType DEF Earned
<1>2. CASE UNCHANGED allowed
  BY <1>0, <1>2 DEF Earned
<1>3. QED
  BY <1>1, <1>2 DEF Step, Begin, AcceptAllowed, RejectLong, CountAttempt, LookupState, CreateState,
     FetchState, LoadCount, StoreCount, Decide, DeleteState, LogAttempt, shared

-----------------------------------------------------------------------------
\* The inductive invariant holds at the start.
LEMMA InitInv == Init => IInv
<1> SUFFICES ASSUME Init PROVE IInv
  OBVIOUS
<1>1. TypeInv
  BY InitType
<1>2. PasswordInv
  BY PMAssumption DEF Init, PasswordInv, Counting, PMAssumption
<1>3. RecordInv
  BY KeyType DEF Init, RecordInv, Holding, Absent
<1>4. AcceptInv /\ Earned
  BY DEF Init, AcceptInv, Earned
<1>5. QED
  BY <1>1, <1>2, <1>3, <1>4 DEF IInv

\* Every step, and stuttering, keeps the inductive invariant.
LEMMA NextInv == IInv /\ [Next]_vars => IInv'
<1>1. CASE UNCHANGED vars
  BY <1>1, NextType DEF IInv, vars, local, history, PasswordInv, RecordInv, AcceptInv, Earned
<1>2. ASSUME IInv, NEW c \in Conns, Step(c) PROVE IInv'
  <2>1. TypeInv'
    BY <1>2, NextType DEF IInv, Next
  <2>2. PasswordInv' /\ RecordInv' /\ AcceptInv' /\ Earned'
    BY <1>2, StepPassword, StepRecord, StepAccept, StepEarned DEF IInv
  <2>3. QED
    BY <2>1, <2>2 DEF IInv
<1>3. QED
  BY <1>1, <1>2 DEF Next

\* The strengthening the safety theorems rest on is inductive.
THEOREM Invariance == Spec => []IInv
BY InitInv, NextInv, PTL DEF Spec

\* A blacklisted password never becomes acceptable and never opened a session,
\* for every number of threads and every interleaving.
THEOREM BlacklistSafe == Spec => []BlacklistNeverAccepted
<1>1. IInv => BlacklistNeverAccepted
  BY DEF IInv, PasswordInv, BlacklistNeverAccepted
<1>2. QED
  BY <1>1, Invariance, PTL

\* Without early success nothing is learned before some client has made
\* password_min_attempts counted attempts, lost updates or not.
THEOREM EarnedSafe == Spec => []Earned
<1>1. IInv => Earned
  BY DEF IInv
<1>2. QED
  BY <1>1, Invariance, PTL

\* The attempt number an acceptance reports never exceeds the attempts made.
THEOREM CountSafe == Spec => []CountNeverAhead
<1>1. IInv => CountNeverAhead
  BY DEF IInv, AcceptInv, CountNeverAhead
<1>2. QED
  BY <1>1, Invariance, PTL

-----------------------------------------------------------------------------
(* Clients that wait for their answers.  A key then has one attempt under  *)
(* way at a time, and what that attempt reads is what it wrote.            *)

CountOf(k) == IF tracking[k] = Absent THEN 0 ELSE records[tracking[k]].count

\* The attempt of c is the only one of its key.
Alone(c) == \A d \in Conns : d # c /\ Key(d) = Key(c) => ~Busy(d)

\* What is in the log, and that no exception ended the attempt.
LogAt(c) ==
    /\ pc[c] # "raised"
    /\ Busy(c) => logged[c] + 1 = tries[c]
    /\ ~Busy(c) => logged[c] = tries[c]

\* Where the attempt is says what its key's record and its failures are.
PlaceAt(c) ==
    /\ pc[c] = "create" => tracking[Key(c)] = Absent
    /\ pc[c] \in {"fetch", "load", "store", "decide", "allow", "delete"} => tracking[Key(c)] # Absent
    /\ pc[c] \in Holding => ref[c] = tracking[Key(c)]
    /\ pc[c] = "store" => loaded[c] = CountOf(Key(c))
    /\ pc[c] = "decide" => failures[Key(c)] + 1 = CountOf(Key(c))
    /\ pc[c] = "allow" => last[c].attempt_number = CountOf(Key(c))
    /\ pc[c] \in {"allow", "delete"} => failures[Key(c)] = 0
    /\ pc[c] \in {"check", "lookup", "create", "fetch", "load", "store", "log"} =>
          failures[Key(c)] = CountOf(Key(c))

SerialInv ==
    /\ \A c \in Conns : LogAt(c) /\ PlaceAt(c) /\ (Busy(c) => Alone(c))
    /\ \A k \in Keys : (\A c \in Conns : Key(c) = k => ~Busy(c)) => failures[k] = CountOf(k)

\* A step of c leaves other connections, and other keys, as they are.
Frame(c) ==
    /\ Alone(c)
    /\ \E to \in Places : pc' = [pc EXCEPT ![c] = to]
    /\ \A k \in Keys : k # Key(c) =>
          /\ tracking'[k] = tracking[k] /\ failures'[k] = failures[k]
          /\ CountOf(k)' = CountOf(k)
    /\ \A d \in Conns : d # c =>
          /\ ref'[d] = ref[d] /\ loaded'[d] = loaded[d] /\ last'[d] = last[d]
          /\ logged'[d] = logged[d] /\ tries'[d] = tries[d]

\* What a step of c must establish for c itself.
LEMMA FrameKeeps ==
  ASSUME TypeInv, SerialInv, NEW c \in Conns, Frame(c), LogAt(c)', PlaceAt(c)',
         ~Busy(c)' => failures'[Key(c)] = CountOf(Key(c))'
  PROVE  SerialInv'
<1>1. /\ pc \in [Conns -> Places]
      /\ \A d \in Conns : d # c => pc'[d] = pc[d]
  BY DEF Frame, TypeInv, TypeOK
<1>2. \A d \in Conns : d # c => (Busy(d)' <=> Busy(d))
  BY <1>1 DEF Busy
<1>3. ASSUME NEW d \in Conns, d # c
      PROVE  LogAt(d)' /\ PlaceAt(d)'
  <2>1. LogAt(d) /\ PlaceAt(d) /\ pc'[d] = pc[d] /\ (Busy(d)' <=> Busy(d))
    BY <1>1, <1>2, <1>3 DEF SerialInv
  <2>2. /\ ref'[d] = ref[d] /\ loaded'[d] = loaded[d] /\ last'[d] = last[d]
        /\ logged'[d] = logged[d] /\ tries'[d] = tries[d]
    BY <1>3 DEF Frame
  <2>3. LogAt(d)'
    BY <2>1, <2>2 DEF LogAt
  <2>4. CASE Key(d) = Key(c)
    <3>1. pc'[d] \in {"idle", "open", "raised"}
      BY <1>3, <2>1, <2>4 DEF Frame, Alone, Busy
    <3>2. PlaceAt(d)'
      BY <3>1 DEF PlaceAt, Holding
    <3>3. QED
      BY <2>3, <3>2
  <2>5. CASE Key(d) # Key(c)
    <3>1. /\ tracking'[Key(d)] = tracking[Key(d)] /\ failures'[Key(d)] = failures[Key(d)]
          /\ CountOf(Key(d))' = CountOf(Key(d))
      BY <2>5, KeyType DEF Frame
    <3>2. PlaceAt(d)'
      BY <2>1, <2>2, <3>1 DEF PlaceAt
    <3>3. QED
      BY <2>3, <3>2
  <2>6. QED
    BY <2>4, <2>5
<1>4. ASSUME NEW d \in Conns, Busy(d)'
      PROVE  Alone(d)'
  <2>1. CASE d = c
    BY <1>2, <2>1 DEF Frame, Alone
  <2>2. CASE d # c
    <3>1. Busy(d) /\ Alone(d) /\ Key(d) # Key(c)
      BY <1>2, <1>4, <2>2 DEF SerialInv, Frame, Alone
    <3>2. QED
      BY <1>2, <3>1 DEF Alone
  <2>3. QED
    BY <2>1, <2>2
<1>5. ASSUME NEW k \in Keys, \A d \in Conns : Key(d) = k => ~Busy(d)'
      PROVE  failures'[k] = CountOf(k)'
  <2>1. CASE k = Key(c)
    BY <1>5, <2>1
  <2>2. CASE k # Key(c)
    BY <1>2, <1>5, <2>2 DEF SerialInv, Frame
  <2>3. QED
    BY <2>1, <2>2
<1>6. QED
  BY <1>3, <1>4, <1>5 DEF SerialInv

\* Another key's record is not the one that a thread of this key holds.
LEMMA OtherRecord ==
  ASSUME IInv, NEW c \in Conns, pc[c] \in Holding, NEW k \in Keys, k # Key(c), tracking[k] # Absent
  PROVE  tracking[k] # ref[c]
BY DEF IInv, RecordInv

\* The steps that leave records and the table as they are.
LEMMA SameCounts ==
  ASSUME UNCHANGED <<tracking, records>>
  PROVE  \A k \in Keys : CountOf(k)' = CountOf(k)
BY DEF CountOf

LEMMA StepAlone ==
  ASSUME SerialInv, SerialClients, NEW c \in Conns, Step(c)
  PROVE  Alone(c)
<1>1. CASE \E p \in Passwords : Begin(c, p)
  BY <1>1 DEF Begin, Alone
<1>2. CASE Busy(c)
  BY <1>2 DEF SerialInv
<1>3. QED
  BY <1>1, <1>2 DEF Step, Busy, Goto, AcceptAllowed, RejectLong, CountAttempt, LookupState,
     CreateState, FetchState, LoadCount, StoreCount, Decide, AllowPassword, DeleteState, LogAttempt

\* What c's own part of the invariant is.
Own(c) == LogAt(c) /\ PlaceAt(c) /\ (~Busy(c) => failures[Key(c)] = CountOf(Key(c)))

\* Every step of c keeps the frame, and c's own part.
LEMMA StepFrame ==
  ASSUME IInv, SerialInv, SerialClients, NEW c \in Conns, Step(c)
  PROVE  Frame(c) /\ Own(c)'
<1> DEFINE k == Key(c)
<1>1. /\ pc \in [Conns -> Places] /\ TypeInv /\ k \in Keys
      /\ tracking \in [Keys -> 0..Len(records)] /\ failures \in [Keys -> Nat]
      /\ records \in Seq(RecordType) /\ Len(records) \in Nat
      /\ ref \in [Conns -> 0..Len(records)] /\ loaded \in [Conns -> Nat]
      /\ last \in [Conns -> [attempt_number : Nat, required_attempts : Nat, success : BOOLEAN]]
      /\ logged \in [Conns -> Nat] /\ tries \in [Conns -> Nat]
  BY KeyType, LenProperties DEF IInv, TypeInv, TypeOK, RecordType
<1>2. Alone(c) /\ \E to \in Places : pc' = [pc EXCEPT ![c] = to]
  BY StepAlone, StepMoves DEF IInv
<1>3. LogAt(c) /\ PlaceAt(c)
  BY DEF SerialInv
<1>4. ~Busy(c) => failures[k] = CountOf(k)
  BY <1>1, <1>2 DEF SerialInv, Alone
<1>5. ASSUME NEW p \in Passwords, Begin(c, p)
      PROVE  Frame(c) /\ Own(c)'
  <2>1. /\ pc[c] = "idle" /\ pc'[c] = "check"
        /\ tries' = [tries EXCEPT ![c] = @ + 1]
        /\ UNCHANGED <<tracking, records, ref, loaded, last, logged, failures>>
    BY <1>1, <1>5 DEF Begin, Goto, shared, history
  <2>2. Frame(c)
    BY <1>1, <1>2, <2>1, SameCounts DEF Frame
  <2>3. LogAt(c)' /\ Busy(c)'
    BY <1>1, <1>3, <2>1 DEF LogAt, Busy
  <2>4. PlaceAt(c)'
    BY <1>1, <1>4, <2>1, SameCounts DEF PlaceAt, Busy, Holding
  <2>5. QED
    BY <2>2, <2>3, <2>4 DEF Own
<1>6. CASE AcceptAllowed(c) \/ RejectLong(c)
  <2>1. /\ pc[c] = "check" /\ pc'[c] = "log"
        /\ \/ last' = [last EXCEPT ![c] = Attempt(1, 1, TRUE)]
           \/ last' = [last EXCEPT ![c] = Attempt(0, 0, FALSE)]
        /\ UNCHANGED <<tracking, records, ref, loaded, logged, tries, failures>>
    BY <1>1, <1>6 DEF AcceptAllowed, RejectLong, Goto, shared, history
  <2>2. Frame(c)
    BY <1>1, <1>2, <2>1, SameCounts DEF Frame
  <2>3. LogAt(c)' /\ Busy(c)'
    BY <1>3, <2>1 DEF LogAt, Busy
  <2>4. PlaceAt(c)'
    BY <1>1, <1>3, <2>1, SameCounts DEF PlaceAt, Holding
  <2>5. QED
    BY <2>2, <2>3, <2>4 DEF Own
<1>7. CASE CountAttempt(c) \/ LookupState(c)
  <2>1. /\ UNCHANGED <<tracking, records, ref, loaded, last, logged, tries, failures>>
        /\ \/ pc[c] = "check" /\ pc'[c] = "lookup"
           \/ pc[c] = "lookup" /\ pc'[c] = IF tracking[k] = Absent THEN "create" ELSE "fetch"
    BY <1>1, <1>7 DEF CountAttempt, LookupState, Goto, shared, local, history
  <2>2. Frame(c)
    BY <1>1, <1>2, <2>1, SameCounts DEF Frame
  <2>3. LogAt(c)' /\ Busy(c)'
    BY <1>3, <2>1 DEF LogAt, Busy
  <2>4. PlaceAt(c)'
    BY <1>1, <1>3, <2>1, SameCounts DEF PlaceAt, Holding
  <2>5. QED
    BY <2>2, <2>3, <2>4 DEF Own
<1>8. CASE CreateState(c)
  <2>1. PICK threshold \in MinAttempts..MaxAttempts :
           records' = Append(records, [key |-> k, threshold |-> threshold, count |-> 0])
    BY <1>8 DEF CreateState
  <2>2. /\ pc[c] = "create" /\ pc'[c] = "fetch"
        /\ tracking' = [tracking EXCEPT ![k] = Len(records) + 1]
        /\ UNCHANGED <<ref, loaded, last, logged, tries, failures>>
    BY <1>1, <1>8 DEF CreateState, Goto, local, history
  <2>3. /\ records'[Len(records) + 1].count = 0
        /\ \A i \in 1..Len(records) : records'[i] = records[i]
    <3>1. [key |-> k, threshold |-> threshold, count |-> 0] \in RecordType
      BY <1>1 DEF RecordType
    <3>2. QED
      BY <1>1, <2>1, <3>1, AppendProperties
  <2>4. CountOf(k)' = 0 /\ tracking'[k] # Absent
    BY <1>1, <2>2, <2>3 DEF CountOf, Absent
  <2>5. CountOf(k) = 0
    BY <1>3, <2>2 DEF PlaceAt, CountOf
  <2>6. \A j \in Keys : j # k => tracking'[j] = tracking[j] /\ CountOf(j)' = CountOf(j)
    BY <1>1, <2>2, <2>3 DEF CountOf, Absent
  <2>7. Frame(c)
    BY <1>2, <2>2, <2>6 DEF Frame
  <2>8. LogAt(c)' /\ Busy(c)'
    BY <1>3, <2>2 DEF LogAt, Busy
  <2>9. PlaceAt(c)'
    BY <1>3, <2>2, <2>4, <2>5 DEF PlaceAt, Holding
  <2>10. QED
    BY <2>7, <2>8, <2>9 DEF Own
<1>9. CASE FetchState(c)
  <2>1. pc[c] = "fetch" /\ tracking[k] # Absent
    BY <1>3, <1>9 DEF FetchState, Goto, PlaceAt
  <2>2. /\ pc'[c] = "load" /\ ref' = [ref EXCEPT ![c] = tracking[k]]
        /\ UNCHANGED <<tracking, records, loaded, last, logged, tries, failures>>
    BY <1>1, <1>9, <2>1 DEF FetchState, Goto, shared, history
  <2>3. Frame(c)
    BY <1>1, <1>2, <2>2, SameCounts DEF Frame
  <2>4. LogAt(c)' /\ Busy(c)'
    BY <1>3, <2>1, <2>2 DEF LogAt, Busy
  <2>5. PlaceAt(c)'
    BY <1>1, <1>3, <2>1, <2>2, SameCounts DEF PlaceAt, Holding
  <2>6. QED
    BY <2>3, <2>4, <2>5 DEF Own
<1>10. CASE LoadCount(c)
  <2>1. /\ pc[c] = "load" /\ pc'[c] = "store" /\ loaded' = [loaded EXCEPT ![c] = records[ref[c]].count]
        /\ UNCHANGED <<tracking, records, ref, last, logged, tries, failures>>
    BY <1>1, <1>10 DEF LoadCount, Goto, shared
  <2>2. Frame(c)
    BY <1>1, <1>2, <2>1, SameCounts DEF Frame
  <2>3. LogAt(c)' /\ Busy(c)'
    BY <1>3, <2>1 DEF LogAt, Busy
  <2>4. loaded'[c] = CountOf(k)
    BY <1>1, <1>3, <2>1 DEF PlaceAt, Holding, CountOf
  <2>5. PlaceAt(c)'
    BY <1>1, <1>3, <2>1, <2>4, SameCounts DEF PlaceAt, Holding
  <2>6. QED
    BY <2>2, <2>3, <2>5 DEF Own
<1>11. CASE StoreCount(c)
  <2>1. /\ pc[c] = "store" /\ pc'[c] = "decide"
        /\ UNCHANGED <<tracking, ref, loaded, last, logged, tries, failures>>
    BY <1>1, <1>11 DEF StoreCount, Goto, local, history
  <2>2. /\ Len(records') = Len(records)
        /\ \A i \in 1..Len(records) :
              records'[i].count = IF i = ref[c] THEN loaded[c] + 1 ELSE records[i].count
    BY <1>1, <1>11, StoreType
  <2>3. /\ ref[c] = tracking[k] /\ tracking[k] # Absent /\ loaded[c] = CountOf(k)
        /\ failures[k] = CountOf(k)
    BY <1>3, <2>1 DEF PlaceAt, Holding
  <2>4. CountOf(k)' = CountOf(k) + 1
    BY <1>1, <2>1, <2>2, <2>3 DEF CountOf, Absent
  <2>5. \A j \in Keys : j # k => CountOf(j)' = CountOf(j)
    <3>1. \A j \in Keys : j # k /\ tracking[j] # Absent => tracking[j] # ref[c]
      BY <2>1, OtherRecord DEF Holding
    <3>2. QED
      BY <1>1, <2>1, <2>2, <3>1 DEF CountOf, Absent
  <2>6. Frame(c)
    BY <1>2, <2>1, <2>5 DEF Frame
  <2>7. LogAt(c)' /\ Busy(c)'
    BY <1>3, <2>1 DEF LogAt, Busy
  <2>8. PlaceAt(c)'
    BY <1>3, <2>1, <2>3, <2>4 DEF PlaceAt, Holding
  <2>9. QED
    BY <2>6, <2>7, <2>8 DEF Own
<1>12. CASE Decide(c)
  <2>1. PICK success \in Outcomes(records[ref[c]]) :
           /\ Goto(c, "decide", IF success THEN "allow" ELSE "log")
           /\ last' = [last EXCEPT ![c] = Attempt(records[ref[c]].count, records[ref[c]].threshold, success)]
           /\ failures' = [failures EXCEPT ![k] = IF success THEN 0 ELSE @ + 1]
    BY <1>12 DEF Decide
  <2>2. UNCHANGED <<tracking, records, ref, loaded, logged, tries>>
    BY <1>12 DEF Decide, shared
  <2>3. pc[c] = "decide" /\ pc'[c] = IF success THEN "allow" ELSE "log"
    BY <1>1, <2>1 DEF Goto
  <2>4. last'[c].attempt_number = CountOf(k) /\ \A d \in Conns : d # c => last'[d] = last[d]
    BY <1>1, <1>3, <2>1, <2>3 DEF PlaceAt, Holding, CountOf, Attempt
  <2>5. /\ failures'[k] = IF success THEN 0 ELSE CountOf(k)
        /\ \A j \in Keys : j # k => failures'[j] = failures[j]
    BY <1>1, <1>3, <2>1, <2>3 DEF PlaceAt
  <2>6. Frame(c)
    BY <1>1, <1>2, <2>2, <2>4, <2>5, SameCounts DEF Frame
  <2>7. LogAt(c)' /\ Busy(c)'
    BY <1>3, <2>2, <2>3 DEF LogAt, Busy
  <2>8. PlaceAt(c)'
    <3>1. CountOf(k)' = CountOf(k)
      BY <1>1, <2>2, SameCounts
    <3>2. tracking'[k] # Absent
      BY <1>3, <2>2, <2>3 DEF PlaceAt
    <3>3. CASE success
      BY <2>3, <2>4, <2>5, <3>1, <3>2, <3>3 DEF PlaceAt, Holding
    <3>4. CASE ~success
      BY <2>3, <2>5, <3>1, <3>4 DEF PlaceAt, Holding
    <3>5. QED
      BY <3>3, <3>4
  <2>9. QED
    BY <2>6, <2>7, <2>8 DEF Own
<1>13. CASE AllowPassword(c)
  <2>1. /\ pc[c] = "allow" /\ pc'[c] = "delete"
        /\ UNCHANGED <<tracking, records, ref, loaded, last, logged, tries, failures>>
    BY <1>1, <1>13 DEF AllowPassword, Goto, local, history
  <2>2. Frame(c)
    BY <1>1, <1>2, <2>1, SameCounts DEF Frame
  <2>3. LogAt(c)' /\ Busy(c)'
    BY <1>3, <2>1 DEF LogAt, Busy
  <2>4. PlaceAt(c)'
    BY <1>1, <1>3, <2>1, SameCounts DEF PlaceAt, Holding
  <2>5. QED
    BY <2>2, <2>3, <2>4 DEF Own
<1>14. CASE DeleteState(c)
  <2>1. pc[c] = "delete" /\ tracking[k] # Absent /\ failures[k] = 0
    BY <1>3, <1>14 DEF DeleteState, Goto, PlaceAt
  <2>2. /\ pc'[c] = "log" /\ tracking' = [tracking EXCEPT ![k] = Absent]
        /\ UNCHANGED <<records, ref, loaded, last, logged, tries, failures>>
    BY <1>1, <1>14, <2>1 DEF DeleteState, Goto, local, history
  <2>3. CountOf(k)' = 0
    BY <1>1, <2>2 DEF CountOf
  <2>4. \A j \in Keys : j # k => tracking'[j] = tracking[j] /\ CountOf(j)' = CountOf(j)
    BY <1>1, <2>2 DEF CountOf
  <2>5. Frame(c)
    BY <1>2, <2>2, <2>4 DEF Frame
  <2>6. LogAt(c)' /\ Busy(c)'
    BY <1>3, <2>1, <2>2 DEF LogAt, Busy
  <2>7. PlaceAt(c)'
    BY <2>1, <2>2, <2>3 DEF PlaceAt, Holding
  <2>8. QED
    BY <2>5, <2>6, <2>7 DEF Own
<1>15. CASE LogAttempt(c)
  <2>1. /\ pc[c] = "log" /\ pc'[c] \in {"open", "idle"} /\ logged' = [logged EXCEPT ![c] = @ + 1]
        /\ UNCHANGED <<tracking, records, ref, loaded, last, tries, failures>>
    BY <1>1, <1>15 DEF LogAttempt, Goto, shared, history
  <2>2. Frame(c)
    BY <1>1, <1>2, <2>1, SameCounts DEF Frame
  <2>3. LogAt(c)'
    BY <1>1, <1>3, <2>1 DEF LogAt, Busy
  <2>4. PlaceAt(c)'
    BY <2>1 DEF PlaceAt, Holding
  <2>5. failures'[k] = CountOf(k)'
    BY <1>1, <1>3, <2>1, SameCounts DEF PlaceAt
  <2>6. QED
    BY <2>2, <2>3, <2>4, <2>5 DEF Own
<1>16. QED
  BY <1>5, <1>6, <1>7, <1>8, <1>9, <1>10, <1>11, <1>12, <1>13, <1>14, <1>15 DEF Step

\* So the attempts of a key stay one at a time.
LEMMA StepSerial ==
  ASSUME IInv, SerialInv, SerialClients, NEW c \in Conns, Step(c)
  PROVE  SerialInv'
BY StepFrame, FrameKeeps DEF IInv, Own

LEMMA InitSerial == Init => SerialInv
BY KeyType DEF Init, SerialInv, LogAt, PlaceAt, Busy, Holding, CountOf

LEMMA NextSerial == SerialClients /\ IInv /\ SerialInv /\ [Next]_vars => SerialInv'
<1>1. CASE UNCHANGED vars
  BY <1>1 DEF vars, local, history, SerialInv, LogAt, PlaceAt, Alone, Busy, CountOf
<1>2. QED
  BY <1>1, StepSerial DEF Next

\* For clients that wait for their answers no attempt and no count is lost:
\* every attempt is in the log, and reconnecting does not reset the count.
THEOREM AttemptsAreKept ==
  ASSUME SerialClients
  PROVE  Spec => []AttemptsKept
<1>1. SerialInv => AttemptsKept
  BY DEF SerialInv, LogAt, AttemptsKept, EveryAttemptLogged, CountSurvivesReconnects, CountOf
<1>2. IInv /\ SerialInv /\ [Next]_vars => SerialInv'
  BY NextSerial
<1>3. QED
  BY <1>1, <1>2, InitSerial, Invariance, PTL DEF Spec

-----------------------------------------------------------------------------
(* The refinement of DeferredAuth.tla: deciding a failure is Reject, and   *)
(* adding to _allowed is Accept; no other step changes a streak.           *)

\* The streak of c's key when its attempt is the only one.
ThreadStreak(c) ==
    IF tracking[Key(c)] = Absent \/ pc[c] = "delete" THEN 0
    ELSE CountOf(Key(c)) - (IF pc[c] \in {"decide", "allow"} THEN 1 ELSE 0)

LEMMA StreakOfThread ==
  ASSUME NEW c \in Conns, Alone(c)
  PROVE  StreakOf(Key(c)) = ThreadStreak(c)
<1>1. \A d \in Conns : Key(d) = Key(c) /\ pc[d] \in {"delete", "decide", "allow"} => d = c
  BY DEF Alone, Busy
<1>2. QED
  BY <1>1 DEF StreakOf, ThreadStreak, CountOf

LEMMA StreakOfThreadNext ==
  ASSUME NEW c \in Conns, Alone(c)'
  PROVE  StreakOf(Key(c))' = ThreadStreak(c)'
<1>1. \A d \in Conns : Key(d) = Key(c) /\ pc'[d] \in {"delete", "decide", "allow"} => d = c
  BY DEF Alone, Busy
<1>2. QED
  BY <1>1 DEF StreakOf, ThreadStreak, CountOf

\* But for an attempt about to be accepted, that is the failures since then.
LEMMA StreakIsFailures ==
  ASSUME NEW c \in Conns, Own(c), Alone(c), pc[c] \in Places \ {"allow"},
         failures[Key(c)] \in Nat, CountOf(Key(c)) \in Nat
  PROVE  StreakOf(Key(c)) = failures[Key(c)]
<1>1. ThreadStreak(c) = failures[Key(c)]
  BY DEF ThreadStreak, Own, LogAt, PlaceAt, Busy, Places, CountOf
<1>2. QED
  BY <1>1, StreakOfThread

LEMMA StreakIsFailuresNext ==
  ASSUME NEW c \in Conns, Own(c)', Alone(c)', pc'[c] \in Places \ {"allow"},
         failures'[Key(c)] \in Nat, CountOf(Key(c))' \in Nat
  PROVE  StreakOf(Key(c))' = failures'[Key(c)]
<1>1. ThreadStreak(c)' = failures'[Key(c)]
  BY DEF ThreadStreak, Own, LogAt, PlaceAt, Busy, Places, CountOf
<1>2. QED
  BY <1>1, StreakOfThreadNext

\* The streaks of the other keys stay.
LEMMA OtherStreaks ==
  ASSUME TypeInv, NEW c \in Conns, NEW k \in Keys, k # Key(c), tracking'[k] = tracking[k],
         CountOf(k)' = CountOf(k), \A d \in Conns : d # c => pc'[d] = pc[d]
  PROVE  StreakOf(k)' = StreakOf(k)
BY DEF StreakOf, CountOf


\* An attempt changes the streak of its own key alone.
LEMMA StreakChange ==
  ASSUME TypeInv, NEW c \in Conns, Frame(c), NEW n, StreakOf(Key(c))' = n
  PROVE  [k \in Keys |-> StreakOf(k)]' = [[k \in Keys |-> StreakOf(k)] EXCEPT ![Key(c)] = n]
<1>1. \A d \in Conns : d # c => pc'[d] = pc[d]
  BY DEF Frame, TypeInv, TypeOK
<1>2. \A k \in Keys : k # Key(c) => StreakOf(k)' = StreakOf(k)
  BY <1>1, OtherStreaks DEF Frame
<1>3. QED
  BY <1>2, KeyType

LEMMA StreakSame ==
  ASSUME TypeInv, NEW c \in Conns, Frame(c), StreakOf(Key(c))' = StreakOf(Key(c))
  PROVE  [k \in Keys |-> StreakOf(k)]' = [k \in Keys |-> StreakOf(k)]
BY StreakChange, KeyType

\* The counts are numbers, before and after a step.
LEMMA CountType ==
  ASSUME TypeInv
  PROVE  \A k \in Keys : CountOf(k) \in Nat
<1>1. /\ tracking \in [Keys -> 0..Len(records)] /\ records \in Seq(RecordType)
      /\ Len(records) \in Nat
  BY LenProperties DEF TypeInv, TypeOK, RecordType
<1>2. ASSUME NEW i \in 1..Len(records)
      PROVE  records[i].count \in Nat
  <2>1. records[i] \in RecordType
    BY <1>1, ElementOfSeq
  <2>2. QED
    BY <2>1 DEF RecordType
<1>3. QED
  BY <1>1, <1>2 DEF CountOf, Absent

LEMMA CountTypeNext ==
  ASSUME TypeInv'
  PROVE  \A k \in Keys : CountOf(k)' \in Nat
<1>1. /\ tracking' \in [Keys -> 0..Len(records')] /\ records' \in Seq(RecordType)
      /\ Len(records') \in Nat
  BY LenProperties DEF TypeInv, TypeOK, RecordType
<1>2. ASSUME NEW i \in 1..Len(records')
      PROVE  records'[i].count \in Nat
  <2>1. records'[i] \in RecordType
    BY <1>1, ElementOfSeq
  <2>2. QED
    BY <2>1 DEF RecordType
<1>3. QED
  BY <1>1, <1>2 DEF CountOf, Absent

\* Each of the thirteen steps is Reject, Accept or no step of the validator.
LEMMA StepRefines ==
  ASSUME IInv, IInv', SerialInv, SerialClients, NEW c \in Conns, Step(c)
  PROVE  [Auth!Next]_(Auth!vars)
<1> DEFINE k == Key(c)
           streaks == [j \in Keys |-> StreakOf(j)]
<1>1. /\ TypeInv /\ TypeInv' /\ k \in Keys /\ pc \in [Conns -> Places] /\ pc' \in [Conns -> Places]
      /\ failures[k] \in Nat /\ failures'[k] \in Nat
      /\ CountOf(k) \in Nat /\ CountOf(k)' \in Nat
  BY KeyType, CountType, CountTypeNext DEF IInv, TypeInv, TypeOK
<1>2. Frame(c) /\ Own(c)' /\ Alone(c) /\ Alone(c)'
  <2>1. Frame(c) /\ Own(c)' /\ Alone(c)
    BY StepFrame DEF Frame
  <2>2. \A d \in Conns : d # c => pc'[d] = pc[d]
    BY <1>1, <2>1 DEF Frame
  <2>3. Alone(c)'
    BY <2>1, <2>2 DEF Alone, Busy
  <2>4. QED
    BY <2>1, <2>3
<1>3. Own(c)
  BY <1>1, <1>2 DEF SerialInv, Own, Alone
<1>4. ASSUME streaks' = streaks, allowed' = allowed
      PROVE  [Auth!Next]_(Auth!vars)
  BY <1>4 DEF Auth!vars
<1>5. CASE Decide(c)
  <2> DEFINE r == records[ref[c]]
  <2>1. PICK success \in Outcomes(r) :
           /\ Goto(c, "decide", IF success THEN "allow" ELSE "log")
           /\ failures' = [failures EXCEPT ![k] = IF success THEN 0 ELSE @ + 1]
    BY <1>5 DEF Decide
  <2>2. /\ UNCHANGED <<allowed, tracking, records>> /\ pc[c] = "decide"
        /\ pc'[c] = IF success THEN "allow" ELSE "log"
    BY <1>1, <1>5, <2>1 DEF Decide, Goto, shared
  <2>3. ref[c] = tracking[k] /\ tracking[k] # Absent /\ failures[k] + 1 = CountOf(k)
    BY <1>3, <2>2 DEF Own, PlaceAt, Holding
  <2>4. CountOf(k)' = CountOf(k) /\ CountOf(k) = r.count
    BY <2>2, <2>3 DEF CountOf
  <2>5. StreakOf(k) = failures[k]
    BY <1>1, <1>2, <1>3, <2>2, StreakIsFailures
  <2>6. CASE success
    <3>1. ThreadStreak(c)' = CountOf(k) - 1
      BY <2>2, <2>3, <2>4, <2>6 DEF ThreadStreak
    <3>2. StreakOf(k)' = StreakOf(k)
      BY <1>1, <1>2, <2>3, <2>5, <3>1, StreakOfThreadNext
    <3>3. streaks' = streaks
      BY <1>1, <1>2, <3>2, StreakSame
    <3>4. QED
      BY <1>4, <2>2, <3>3
  <2>7. CASE ~success
    <3>1. failures' = [failures EXCEPT ![k] = @ + 1] /\ pc'[c] = "log"
      BY <2>1, <2>2, <2>7
    <3>2. failures'[k] = failures[k] + 1
      BY <1>1, <3>1 DEF IInv, TypeInv, TypeOK
    <3>3. StreakOf(k)' = StreakOf(k) + 1
      BY <1>1, <1>2, <2>5, <3>1, <3>2, StreakIsFailuresNext
    <3>4. streaks' = [streaks EXCEPT ![k] = StreakOf(k) + 1]
      BY <1>1, <1>2, <3>3, StreakChange
    <3>5. StreakOf(k) + 1 < MaxAttempts
      <4>1. ~(r.count >= r.threshold)
        BY <2>1, <2>7 DEF Outcomes
      <4>2. r \in RecordType
        <5>1. records \in Seq(RecordType) /\ tracking[k] \in 0..Len(records)
          BY <1>1 DEF TypeInv, TypeOK, RecordType
        <5>2. ref[c] \in 1..Len(records)
          BY <2>3, <5>1 DEF Absent
        <5>3. QED
          BY <5>1, <5>2
      <4>3. r.threshold \in MinAttempts..MaxAttempts /\ r.count \in Nat
        BY <4>2 DEF RecordType
      <4>4. MinAttempts \in Nat /\ MaxAttempts \in Nat
        BY PMAssumption DEF PMAssumption
      <4> HIDE DEF r
      <4>5. QED
        BY <2>3, <2>4, <2>5, <4>1, <4>3, <4>4
    <3>6. Auth!Reject(k)
      <4>1. streaks[k] = StreakOf(k)
        BY <1>1
      <4>2. QED
        BY <2>2, <3>4, <3>5, <4>1 DEF Auth!Reject
    <3>7. QED
      BY <1>1, <3>6 DEF Auth!Next
  <2>8. QED
    BY <2>6, <2>7
<1>6. CASE AllowPassword(c)
  <2>1. /\ pc[c] = "allow" /\ pc'[c] = "delete" /\ allowed' = allowed \cup {pw[c]}
    BY <1>1, <1>6 DEF AllowPassword, Goto
  <2>2. tracking[k] # Absent /\ last[c].attempt_number = CountOf(k)
    BY <1>3, <2>1 DEF Own, PlaceAt
  <2>3. StreakOf(k) = CountOf(k) - 1
    BY <1>1, <1>2, <2>1, <2>2, StreakOfThread DEF ThreadStreak
  <2>4. StreakOf(k)' = 0
    BY <1>1, <1>2, <2>1, StreakOfThreadNext DEF ThreadStreak
  <2>5. streaks' = [streaks EXCEPT ![k] = 0]
    BY <1>1, <1>2, <2>4, StreakChange
  <2>6. pw[c] \in Passwords /\ pw[c] \notin Long
    BY <2>1 DEF IInv, TypeInv, RefInv, PasswordInv, Counting
  <2>7. EarlySuccess \/ StreakOf(k) + 1 >= MinAttempts
    <3>1. EarlySuccess \/ last[c].attempt_number >= MinAttempts
      BY <2>1 DEF IInv, AcceptInv
    <3>2. StreakOf(k) + 1 = last[c].attempt_number
      BY <1>1, <2>2, <2>3
    <3>3. QED
      BY <3>1, <3>2
  <2>8. Auth!Accept(k, pw[c])
    <3>1. streaks[k] = StreakOf(k)
      BY <1>1
    <3>2. QED
      BY <2>1, <2>5, <2>6, <2>7, <3>1 DEF Auth!Accept
  <2>9. QED
    BY <1>1, <2>6, <2>8 DEF Auth!Next
<1>7. CASE ~ (Decide(c) \/ AllowPassword(c))
  <2>1. UNCHANGED <<allowed, failures>> /\ pc[c] # "allow" /\ pc'[c] # "allow"
    BY <1>1, <1>7 DEF Step, Goto, shared, local, history, Begin, AcceptAllowed, RejectLong,
       CountAttempt, LookupState, CreateState, FetchState, LoadCount, StoreCount, DeleteState,
       LogAttempt
  <2>2. StreakOf(k) = failures[k] /\ StreakOf(k)' = failures'[k]
    BY <1>1, <1>2, <1>3, <2>1, StreakIsFailures, StreakIsFailuresNext
  <2>3. streaks' = streaks
    BY <1>1, <1>2, <2>1, <2>2, StreakSame
  <2>4. QED
    BY <1>4, <2>1, <2>3
<1>8. QED
  BY <1>5, <1>6, <1>7

LEMMA InitRefines == Init => Auth!Init
BY KeyType DEF Init, Auth!Init, StreakOf

LEMMA NextRefines ==
  SerialClients /\ IInv /\ IInv' /\ SerialInv /\ [Next]_vars => [Auth!Next]_(Auth!vars)
<1>1. CASE UNCHANGED vars
  <2>1. UNCHANGED <<allowed, tracking, records, pc>>
    BY <1>1 DEF vars
  <2>2. [k \in Keys |-> StreakOf(k)]' = [k \in Keys |-> StreakOf(k)]
    BY <2>1 DEF StreakOf
  <2>3. QED
    BY <2>1, <2>2 DEF Auth!vars
<1>2. QED
  BY <1>1, StepRefines DEF Next

\* For clients that wait for their answers, the interleaved steps of the
\* unlocked code are one indivisible Accept or Reject.
THEOREM Refines ==
  ASSUME SerialClients
  PROVE  Spec => ImplementsDeferredAuth
<1>1. IInv /\ IInv' /\ SerialInv /\ [Next]_vars => [Auth!Next]_(Auth!vars)
  BY NextRefines
<1>2. IInv /\ SerialInv /\ [Next]_vars => SerialInv'
  BY NextSerial
<1>3. QED
  BY <1>1, <1>2, InitSerial, InitRefines, Invariance, PTL
     DEF Spec, ImplementsDeferredAuth, Auth!Spec

=============================================================================
