-------------------------- MODULE LogReadersProofs --------------------------
(***************************************************************************)
(* The two processes that read the event log while the honeypot writes it, *)
(* proved for any events, days, caps and restarts.  Of IocWriter.tla: its  *)
(* types, that the database says what the log says up to the committed     *)
(* cursors, and that it only grows.  Of LogProcessor.tla: its types, that  *)
(* each event is delivered once and in order as far as failures allow, and *)
(* that sessions that have ended are forgotten.  The lemmas about          *)
(* sequences, the files and their lines serve both.                        *)
(***************************************************************************)
EXTENDS IocWriter, LogProcessor, SequenceTheorems, WellFoundedInduction, TLAPS

-----------------------------------------------------------------------------
(* The IOC writer.  What it keeps up is a relation between the files,      *)
(* a state t of the database, commands b that are not in it yet, and how   *)
(* far each file has been read; it holds of what is committed and of what  *)
(* the open transaction sees.                                              *)

\* The text of e is at position i of day d, and starts a line that is its own
\* as far as the file goes.
Begins(f, e, d, i) ==
    /\ f[d][i] = Text(e, "whole")
    /\ i > 1 => f[d][i - 1] = Newline
    /\ i < Len(f[d]) => f[d][i + 1] = Newline

\* e is in the tables, or will be when the commands of b are.
Noted(t, b, e) ==
    /\ \A v \in Indicators[e] : <<v, Address(e)>> \in t.ips
    /\ \/ /\ SessionOf[e] \in DOMAIN b
          /\ CommandOf[e] \in ToSet(b[SessionOf[e]])
       \/ /\ SessionOf[e] \in DOMAIN t.sessions
          /\ \/ CommandOf[e] \in ToSet(t.sessions[SessionOf[e]])
             \/ Len(t.sessions[SessionOf[e]]) = MaxCommands

\* A piece of e has been read.
Seen(f, e, cur) ==
    \E d \in Days : \E i \in 1..cur[d] : f[d][i] # Newline /\ f[d][i].of = e

Complete(f, t, b, cur) ==
    \A e \in Events, d \in Days : \A i \in 1..cur[d] : Begins(f, e, d, i) => Noted(t, b, e)

Typed(f, s, c, cur) ==
    \E e \in Events : Seen(f, e, cur) /\ SessionOf[e] = s /\ CommandOf[e] = c

Backed(f, t, b, cur) ==
    /\ \A p \in t.ips : \E e \in Events :
          Seen(f, e, cur) /\ p[1] \in Indicators[e] /\ p[2] = Address(e)
    /\ \A s \in DOMAIN t.sessions : \A c \in ToSet(t.sessions[s]) : Typed(f, s, c, cur)
    /\ \A s \in DOMAIN b : \A c \in ToSet(b[s]) : Typed(f, s, c, cur)

Linked(t, b) ==
    /\ \A v \in Values : ToSet(t.sids[v]) \subseteq DOMAIN t.sessions \cup DOMAIN b
    /\ \A s \in DOMAIN t.sessions \cup DOMAIN b : <<AddressOf[s], AddressOf[s]>> \in t.ips
    /\ t.campaigns \subseteq t.camps

Sound(f, t, b, cur) == Complete(f, t, b, cur) /\ Backed(f, t, b, cur) /\ Linked(t, b)

\* How far each file has been read.
Reach == [d \in Days |-> IF d = file THEN pos ELSE tx.cursor[d]]

\* Where the reader is: it never is behind what it has committed, or past the
\* end of a file, and outside a file nothing is buffered.
ReaderInv ==
    /\ at = "lines" <=> file \in Days
    /\ at # "lines" => buf = NoBuf
    /\ at \in {"poll", "campaigns"} => tx = db
    /\ at = "lines" => tx.cursor[file] <= pos
    /\ \A d \in Days : db.cursor[d] <= tx.cursor[d] /\ Reach[d] <= Len(files[d])
    /\ db.ips \subseteq tx.ips /\ DOMAIN db.sessions \subseteq DOMAIN tx.sessions

IInv ==
    /\ TypeOK
    /\ ReaderInv
    /\ Sound(files, db, NoBuf, db.cursor)
    /\ Sound(files, tx, buf, Reach)

-----------------------------------------------------------------------------
(* Sequences.                                                              *)

\* A set of positions has a first one.
LEMMA FirstOf ==
  ASSUME NEW S, S \subseteq Nat, S # {}
  PROVE  \E i \in S : \A j \in S : i <= j
  <1> DEFINE R == OpToRel(<, Nat)
  <1>1. IsWellFoundedOn(R, Nat)
    BY NatLessThanWellFounded
  <1>2. \A x, y \in Nat : x < y => <<x, y>> \in R
    BY DEF OpToRel
  <1> HIDE DEF R
  <1>3. PICK i \in S : \A j \in S : ~ (<<j, i>> \in R)
    BY <1>1, WFMin
  <1>4. ASSUME NEW j \in S PROVE i <= j
    <2>1. i \in Nat /\ j \in Nat
      OBVIOUS
    <2>2. ~ (j < i)
      BY <1>2, <1>3, <2>1
    <2> QED
      BY <2>1, <2>2
  <1> QED
    BY <1>4

LEMMA ToSetIs ==
  ASSUME NEW S, NEW q \in Seq(S)
  PROVE  /\ ToSet(q) \subseteq S
         /\ \A x : x \in ToSet(q) <=> \E i \in 1..Len(q) : x = q[i]
  <1>1. DOMAIN q = 1..Len(q) /\ \A i \in 1..Len(q) : q[i] \in S
    BY LenProperties, ElementOfSeq
  <1> QED
    BY <1>1 DEF ToSet

LEMMA ToSetAppend ==
  ASSUME NEW S, NEW q \in Seq(S), NEW x \in S
  PROVE  Append(q, x) \in Seq(S) /\ ToSet(Append(q, x)) = ToSet(q) \cup {x}
  <1> DEFINE r == Append(q, x)
  <1>1. /\ r \in Seq(S) /\ Len(r) = Len(q) + 1 /\ r[Len(q) + 1] = x
        /\ \A i \in 1..Len(q) : r[i] = q[i]
        /\ Len(q) \in Nat
    BY AppendProperties, LenProperties
  <1> HIDE DEF r
  <1>2. \A y : y \in ToSet(r) <=> \E i \in 1..(Len(q) + 1) : y = r[i]
    BY <1>1, ToSetIs
  <1>3. \A y : y \in ToSet(q) <=> \E i \in 1..Len(q) : y = q[i]
    BY ToSetIs
  <1>4. \A y : y \in ToSet(r) <=> y \in ToSet(q) \/ y = x
    BY <1>1, <1>2, <1>3
  <1> QED
    BY <1>1, <1>4 DEF r

LEMMA ToSetConcat ==
  ASSUME NEW S, NEW q \in Seq(S), NEW r \in Seq(S)
  PROVE  /\ q \o r \in Seq(S) /\ Len(q \o r) = Len(q) + Len(r)
         /\ ToSet(q \o r) = ToSet(q) \cup ToSet(r)
  <1> DEFINE w == q \o r
  <1>1. /\ w \in Seq(S) /\ Len(w) = Len(q) + Len(r) /\ Len(q) \in Nat /\ Len(r) \in Nat
        /\ \A i \in 1..(Len(q) + Len(r)) : w[i] = IF i <= Len(q) THEN q[i] ELSE r[i - Len(q)]
    BY ConcatProperties, LenProperties
  <1> HIDE DEF w
  <1>2. /\ \A y : y \in ToSet(w) <=> \E i \in 1..Len(w) : y = w[i]
        /\ \A y : y \in ToSet(q) <=> \E i \in 1..Len(q) : y = q[i]
        /\ \A y : y \in ToSet(r) <=> \E i \in 1..Len(r) : y = r[i]
    BY <1>1, ToSetIs
  <1>3. ASSUME NEW y \in ToSet(w) PROVE y \in ToSet(q) \cup ToSet(r)
    <2>1. PICK i \in 1..Len(w) : y = w[i]
      BY <1>2
    <2>2. CASE i <= Len(q)
      BY <1>1, <1>2, <2>1, <2>2
    <2>3. CASE i > Len(q)
      <3>1. i - Len(q) \in 1..Len(r) /\ y = r[i - Len(q)]
        BY <1>1, <2>1, <2>3
      <3> QED
        BY <1>2, <3>1
    <2> QED
      BY <1>1, <2>2, <2>3
  <1>4. ASSUME NEW y \in ToSet(q) PROVE y \in ToSet(w)
    <2>1. PICK i \in 1..Len(q) : y = q[i]
      BY <1>2
    <2>2. i \in 1..Len(w) /\ y = w[i]
      BY <1>1, <2>1
    <2> QED
      BY <1>2, <2>2
  <1>5. ASSUME NEW y \in ToSet(r) PROVE y \in ToSet(w)
    <2>1. PICK i \in 1..Len(r) : y = r[i]
      BY <1>2
    <2>2. PICK j \in 1..Len(w) : j = Len(q) + i
      BY <1>1
    <2>3. ~ (j <= Len(q)) /\ j - Len(q) = i
      BY <1>1, <2>2
    <2>4. y = w[j]
      BY <1>1, <2>1, <2>3
    <2> QED
      BY <1>2, <2>2, <2>4
  <1> QED
    BY <1>1, <1>3, <1>4, <1>5 DEF w

\* The end of a list that is not too long is the list.
LEMMA ListsAre ==
  ASSUME NEW S, NEW n \in Nat
  PROVE  \A q : q \in Lists(S, n) <=> q \in Seq(S) /\ Len(q) <= n
  <1>1. ASSUME NEW q \in Lists(S, n) PROVE q \in Seq(S) /\ Len(q) <= n
    <2>1. PICK m \in 0..n : q \in [1..m -> S]
      BY DEF Lists
    <2>2. q \in Seq(S) /\ Len(q) = m
      BY <2>1, SeqDef, LenProperties
    <2> QED
      BY <2>1, <2>2
  <1>2. ASSUME NEW q, q \in Seq(S), Len(q) <= n PROVE q \in Lists(S, n)
    <2>1. Len(q) \in 0..n /\ q \in [1..Len(q) -> S]
      BY <1>2, LenProperties
    <2> QED
      BY <2>1 DEF Lists
  <1> QED
    BY <1>1, <1>2

LEMMA LastOf ==
  ASSUME NEW S, NEW q \in Seq(S), NEW n \in Nat \ {0}
  PROVE  /\ Latest(q, n) \in Lists(S, n)
         /\ ToSet(Latest(q, n)) \subseteq ToSet(q)
         /\ Latest(q, n) = q \/ Len(Latest(q, n)) = n
  <1> DEFINE m == IF Len(q) > n THEN Len(q) - n + 1 ELSE 1
             w == SubSeq(q, m, Len(q))
  <1>1. Len(q) \in Nat /\ \A i \in 1..Len(q) : q[i] \in S
    BY LenProperties, ElementOfSeq
  <1>2. m \in Nat /\ m >= 1 /\ (Len(q) > n => m = Len(q) - n + 1) /\ (Len(q) <= n => m = 1)
    BY <1>1
  <1> HIDE DEF m
  <1>3. /\ w \in Seq(S)
        /\ Len(w) = IF m <= Len(q) THEN Len(q) - m + 1 ELSE 0
        /\ \A i \in 1..(Len(q) - m + 1) : w[i] = q[m + i - 1]
    BY <1>1, <1>2, SubSeqProperties
  <1>4. Len(q) <= n => w = q
    BY <1>2, SubSeqFull
  <1> HIDE DEF w
  <1>5. Len(w) <= n /\ (Len(q) > n => Len(w) = n)
    BY <1>1, <1>2, <1>3
  <1>6. ASSUME NEW y \in ToSet(w) PROVE y \in ToSet(q)
    <2>1. PICK i \in 1..Len(w) : y = w[i]
      BY <1>3, ToSetIs
    <2>2. m + i - 1 \in 1..Len(q) /\ y = q[m + i - 1]
      BY <1>1, <1>2, <1>3, <2>1
    <2> QED
      BY <2>2, ToSetIs
  <1>7. Latest(q, n) = w
    BY DEF Latest, m, w
  <1> QED
    BY <1>1, <1>3, <1>4, <1>5, <1>6, <1>7, ListsAre

\* One more element of q, if it is not in r.
Grown(w, q, r, i) == IF q[i] \in ToSet(r) THEN w ELSE Append(w, q[i])

\* There is a function as the one that Fresh is defined with ...
LEMMA CollectorExists ==
  ASSUME NEW S, NEW q \in Seq(S), NEW r
  PROVE  \E f : f = [i \in 0..Len(q) |-> IF i = 0 THEN <<>> ELSE Grown(f[i - 1], q, r, i)]
  <1> DEFINE Q(n, f) == f = [i \in 0..n |-> IF i = 0 THEN <<>> ELSE Grown(f[i - 1], q, r, i)]
             bad == {n \in Nat : ~ \E f : Q(n, f)}
  <1>1. Len(q) \in Nat
    BY LenProperties
  <1>2. SUFFICES ASSUME bad # {} PROVE FALSE
    BY <1>1
  <1>3. PICK n \in bad : \A m \in bad : n <= m
    BY <1>2, FirstOf
  <1>4. n # 0
    <2>1. Q(0, [i \in 0..0 |-> <<>>])
      OBVIOUS
    <2> QED
      BY <2>1, <1>3
  <1>5. n \in Nat /\ n - 1 \in Nat /\ \E f : Q(n - 1, f)
    <2> HIDE DEF Q
    <2>1. n \in Nat /\ n - 1 \in Nat /\ ~ (n <= n - 1)
      BY <1>3, <1>4
    <2>2. n - 1 \notin bad
      BY <1>3, <2>1
    <2> QED
      BY <2>1, <2>2
  <1>6. PICK f : Q(n - 1, f)
    BY <1>5
  <1> DEFINE g == [i \in 0..n |-> IF i = n THEN Grown(f[n - 1], q, r, n) ELSE f[i]]
  <1>7. \A i \in 0..(n - 1) : f[i] = IF i = 0 THEN <<>> ELSE Grown(f[i - 1], q, r, i)
    BY <1>6
  <1>8. \A i \in 0..(n - 1) : g[i] = f[i]
    BY <1>5
  <1>9. g[n] = Grown(g[n - 1], q, r, n)
    BY <1>5, <1>8
  <1>10. \A i \in 1..(n - 1) : g[i] = Grown(g[i - 1], q, r, i)
    BY <1>5, <1>7, <1>8
  <1>11. \A i \in 0..n : g[i] = IF i = 0 THEN <<>> ELSE Grown(g[i - 1], q, r, i)
    BY <1>5, <1>7, <1>8, <1>9, <1>10
  <1>12. g = [i \in 0..n |-> g[i]]
    OBVIOUS
  <1> HIDE DEF g
  <1>13. Q(n, g)
    BY <1>11, <1>12
  <1> QED
    BY <1>3, <1>13

\* ... and what it collects are the elements of q that are not in r.
LEMMA FreshIs ==
  ASSUME NEW S, NEW q \in Seq(S), NEW r
  PROVE  /\ Fresh(q, r) \in Seq(S)
         /\ ToSet(Fresh(q, r)) = ToSet(q) \ ToSet(r)
  <1> DEFINE g == CHOOSE f : f = [i \in 0..Len(q) |->
                                     IF i = 0 THEN <<>> ELSE Grown(f[i - 1], q, r, i)]
             Upto(i) == {q[j] : j \in 1..i} \ ToSet(r)
             bad == {i \in 0..Len(q) : g[i] \notin Seq(S) \/ ToSet(g[i]) # Upto(i)}
  <1>1. g = [i \in 0..Len(q) |-> IF i = 0 THEN <<>> ELSE Grown(g[i - 1], q, r, i)]
    BY CollectorExists
  <1>2. Fresh(q, r) = g[Len(q)]
    BY DEF Fresh, Grown
  <1> HIDE DEF g
  <1>3. Len(q) \in Nat /\ \A i \in 1..Len(q) : q[i] \in S
    BY LenProperties, ElementOfSeq
  <1>4. g[0] = <<>> /\ \A i \in 1..Len(q) : g[i] = Grown(g[i - 1], q, r, i)
    BY <1>1, <1>3
  <1>5. bad = {}
    <2>1. SUFFICES ASSUME bad # {} PROVE FALSE
      OBVIOUS
    <2>2. bad \subseteq Nat
      BY <1>3
    <2>3. PICK i \in bad : \A j \in bad : i <= j
      BY <2>1, <2>2, FirstOf
    <2>4. i # 0
      <3>1. <<>> \in Seq(S) /\ 1..Len(<<>>) = {}
        BY EmptySeq
      <3>2. ToSet(<<>>) = {}
        BY <3>1, ToSetIs
      <3>3. Upto(0) = {}
        OBVIOUS
      <3> QED
        BY <1>4, <2>3, <3>1, <3>2, <3>3
    <2>5. i \in 1..Len(q) /\ i - 1 \in 0..Len(q) /\ ~ (i <= i - 1)
      BY <1>3, <2>3, <2>4
    <2>6. g[i - 1] \in Seq(S) /\ ToSet(g[i - 1]) = Upto(i - 1)
      BY <2>3, <2>5
    <2>7. Upto(i) = IF q[i] \in ToSet(r) THEN Upto(i - 1) ELSE Upto(i - 1) \cup {q[i]}
      <3>1. \A j : j \in 1..i <=> j \in 1..(i - 1) \/ j = i
        BY <1>3, <2>5
      <3> QED
        BY <3>1
    <2>8. /\ Append(g[i - 1], q[i]) \in Seq(S)
          /\ ToSet(Append(g[i - 1], q[i])) = ToSet(g[i - 1]) \cup {q[i]}
      BY <1>3, <2>5, <2>6, ToSetAppend
    <2>9. g[i] = IF q[i] \in ToSet(r) THEN g[i - 1] ELSE Append(g[i - 1], q[i])
      BY <1>4, <2>5 DEF Grown
    <2>10. g[i] \in Seq(S) /\ ToSet(g[i]) = Upto(i)
      BY <2>6, <2>7, <2>8, <2>9
    <2> QED
      BY <2>3, <2>10
  <1>6. g[Len(q)] \in Seq(S) /\ ToSet(g[Len(q)]) = Upto(Len(q))
    <2> HIDE DEF Upto
    <2>1. Len(q) \in 0..Len(q)
      BY <1>3
    <2> QED
      BY <1>5, <2>1
  <1>7. ToSet(q) = {q[j] : j \in 1..Len(q)}
    BY LenProperties DEF ToSet
  <1> QED
    BY <1>2, <1>6, <1>7

-----------------------------------------------------------------------------
(* The files.                                                              *)

Longer(f, g) ==
    \A d \in Days : Len(f[d]) <= Len(g[d]) /\ \A i \in 1..Len(f[d]) : g[d][i] = f[d][i]

LEMMA TextFacts ==
  ASSUME NEW e \in Events, NEW part \in {"whole", "first", "rest"}
  PROVE  Text(e, part) \in Piece /\ Text(e, part) # Newline /\ Text(e, part).of = e
  BY ELAssumption DEF ELAssumption, Text, Piece

LEMMA DaysFacts == /\ \A d \in Days : d \in Nat /\ d # 0
                   /\ 0 \notin Days /\ LastDay \in Nat /\ 1 \in Days
  BY ELAssumption DEF ELAssumption, Days

\* Threads only add to the ends of files.
LEMMA WritesGrow ==
  ASSUME LogTypeOK, NEW e \in Events, NEW from \in {"open", "rest", "flush"},
         NEW to \in {"rest", "flush", "logged"}, NEW pieces \in Seq(Piece), Writes(e, from, to, pieces)
  PROVE  LogTypeOK' /\ Longer(files, files')
  <1>1. path[e] \in Days /\ files \in [Days -> Seq(Piece)] /\ UNCHANGED <<today, path>>
    BY DEF LogTypeOK, Writes
  <1>2. /\ files[path[e]] \o pieces \in Seq(Piece)
        /\ Len(files[path[e]]) <= Len(files[path[e]] \o pieces)
        /\ \A i \in 1..Len(files[path[e]]) : (files[path[e]] \o pieces)[i] = files[path[e]][i]
    BY <1>1, ConcatProperties, LenProperties
  <1>3. files' = [files EXCEPT ![path[e]] = files[path[e]] \o pieces]
    BY DEF Writes
  <1> DEFINE new == files[path[e]] \o pieces
  <1> HIDE DEF new
  <1>4. files' \in [Days -> Seq(Piece)] /\ files'[path[e]] = new
        /\ \A d \in Days : d # path[e] => files'[d] = files[d]
    BY <1>1, <1>2, <1>3 DEF new
  <1>5. Longer(files, files')
    <2>1. \A d \in Days : Len(files[d]) \in Nat
      BY <1>1, LenProperties
    <2>2. /\ Len(files[path[e]]) <= Len(new)
          /\ \A i \in 1..Len(files[path[e]]) : new[i] = files[path[e]][i]
      BY <1>2 DEF new
    <2>3. ASSUME NEW d \in Days
          PROVE  Len(files[d]) <= Len(files'[d]) /\ \A i \in 1..Len(files[d]) : files'[d][i] = files[d][i]
      <3>1. CASE d = path[e]
        BY <1>4, <2>2, <3>1
      <3>2. CASE d # path[e]
        BY <1>4, <2>1, <3>2
      <3> QED
        BY <3>1, <3>2
    <2> QED
      BY <2>3 DEF Longer
  <1>6. /\ writing' \in [Events -> {"new", "open", "rest", "flush", "logged"}]
        /\ \A a \in Events : writing'[a] # "new" => writing[a] # "new"
    BY DEF Writes, LogTypeOK
  <1> QED
    BY <1>1, <1>4, <1>5, <1>6 DEF LogTypeOK

LEMMA LogGrows ==
  ASSUME LogTypeOK, Midnight \/ \E e \in Events : Log(e)
  PROVE  LogTypeOK' /\ Longer(files, files')
  <1>1. \A d \in Days : Len(files[d]) \in Nat
    BY LenProperties DEF LogTypeOK
  <1>2. CASE Midnight
    <2>1. today' \in Days
      BY <1>2, ELAssumption DEF Midnight, LogTypeOK, Days, ELAssumption
    <2> QED
      BY <1>1, <1>2, <2>1 DEF Midnight, LogTypeOK, Longer
  <1>3. ASSUME NEW e \in Events, Log(e) PROVE LogTypeOK' /\ Longer(files, files')
    <2>1. CASE OpenLog(e)
      BY <1>1, <2>1 DEF OpenLog, LogTypeOK, Longer
    <2>2. /\ <<Text(e, "whole"), Newline>> \in Seq(Piece) /\ <<Text(e, "whole")>> \in Seq(Piece)
          /\ <<Text(e, "first")>> \in Seq(Piece) /\ <<Text(e, "rest")>> \in Seq(Piece)
          /\ <<Newline>> \in Seq(Piece)
      <3>1. /\ Text(e, "whole") \in Piece /\ Text(e, "first") \in Piece /\ Text(e, "rest") \in Piece
            /\ Newline \in Piece
        BY TextFacts DEF Piece
      <3> HIDE DEF Piece
      <3> QED
        BY <3>1
    <2>3. CASE WriteLine(e) \/ WriteText(e) \/ FlushNewline(e)
      BY <2>2, <2>3, WritesGrow DEF WriteLine, WriteText, FlushNewline
    <2> QED
      BY <1>3, <2>1, <2>3 DEF Log
  <1> QED
    BY <1>2, <1>3

\* Where the line that begins after position p ends.
LEMMA LineEndIs ==
  ASSUME LogTypeOK, NEW d \in Days, NEW p \in Nat, p < Len(files[d])
  PROVE  /\ LineEnd(d, p) \in (p + 1)..Len(files[d])
         /\ \A i \in (p + 1)..(LineEnd(d, p) - 1) : files[d][i] # Newline
         /\ LineEnd(d, p) < Len(files[d]) => files[d][LineEnd(d, p)] = Newline
  <1> DEFINE ends == {i \in (p + 1)..Len(files[d]) : files[d][i] = Newline}
  <1>1. Len(files[d]) \in Nat
    BY LenProperties DEF LogTypeOK
  <1>2. CASE ends = {}
    <2>1. LineEnd(d, p) = Len(files[d])
      BY <1>2 DEF LineEnd
    <2> QED
      BY <1>1, <1>2, <2>1
  <1>3. CASE ends # {}
    <2>1. LineEnd(d, p) = CHOOSE i \in ends : \A j \in ends : i <= j
      BY <1>3 DEF LineEnd
    <2>2. ends \subseteq Nat
      BY <1>1
    <2> HIDE DEF ends
    <2>3. LineEnd(d, p) \in ends /\ \A j \in ends : LineEnd(d, p) <= j
      BY <1>3, <2>1, <2>2, FirstOf
    <2> QED
      BY <1>1, <2>3 DEF ends
  <1> QED
    BY <1>2, <1>3

\* The line starts with a piece of the event it spells.
LEMMA LineSpells ==
  ASSUME NEW q \in Seq(Piece), NEW p \in Nat, NEW end \in (p + 1)..Len(q),
         NEW e \in EventsOf(SubSeq(q, p + 1, end))
  PROVE  /\ e \in Events /\ q[p + 1] # Newline /\ q[p + 1].of = e
         /\ q[p + 1] \in {Text(e, "whole"), Text(e, "first")}
  <1> DEFINE line == SubSeq(q, p + 1, end)
  <1>1. Len(q) \in Nat /\ \A i \in 1..Len(q) : q[i] \in Piece
    BY LenProperties, ElementOfSeq
  <1>2. line[1] = q[p + 1]
    <2>1. \A i \in (p + 1)..end : q[i] \in Piece
      BY <1>1
    <2>2. \A i \in 1..(end - (p + 1) + 1) : line[i] = q[p + 1 + i - 1]
      BY <1>1, <2>1, SubSeqProperties
    <2> QED
      BY <1>1, <2>2
  <1>3. e \in Events /\ Spells(line, e)
    BY DEF EventsOf
  <1> HIDE DEF line
  <1>4. PICK t \in {<<Text(e, "whole")>>, <<Text(e, "first"), Text(e, "rest")>>} :
                line \in {t, Append(t, Newline)}
    BY <1>3 DEF Spells
  <1>5. t[1] \in {Text(e, "whole"), Text(e, "first")} /\ Append(t, Newline)[1] = t[1]
    <2>1. CASE t = <<Text(e, "whole")>>
      BY <2>1
    <2>2. CASE t = <<Text(e, "first"), Text(e, "rest")>>
      BY <2>2
    <2> QED
      BY <2>1, <2>2
  <1>6. line[1] \in {Text(e, "whole"), Text(e, "first")}
    BY <1>4, <1>5
  <1> QED
    BY <1>2, <1>3, <1>6, TextFacts

\* A text that begins a line of its own is what is read next, or is behind.
LEMMA OwnLineRead ==
  ASSUME LogTypeOK, NEW d \in Days, NEW p \in Nat, p < Len(files[d]), NEW e \in Events,
         NEW i \in (p + 1)..LineEnd(d, p), Begins(files, e, d, i)
  PROVE  e \in EventsOf(SubSeq(files[d], p + 1, LineEnd(d, p)))
  <1> DEFINE q == files[d]
             end == LineEnd(d, p)
             line == SubSeq(q, p + 1, end)
  <1>1. /\ q \in Seq(Piece) /\ Len(q) \in Nat /\ \A j \in 1..Len(q) : q[j] \in Piece
        /\ Text(e, "whole") # Newline
    BY LenProperties, ElementOfSeq, TextFacts DEF LogTypeOK
  <1>2. /\ end \in (p + 1)..Len(q) /\ i \in (p + 1)..end
        /\ end < Len(q) => q[end] = Newline
        /\ \A j \in (p + 1)..(end - 1) : q[j] # Newline
    BY LineEndIs
  <1>3. /\ q[i] = Text(e, "whole")
        /\ i > 1 => q[i - 1] = Newline
        /\ i < Len(q) => q[i + 1] = Newline
    BY DEF Begins
  <1> HIDE DEF q, end
  <1>4. i = p + 1
    <2>1. SUFFICES ASSUME i > p + 1 PROVE FALSE
      BY <1>1, <1>2
    <2>2. i - 1 \in (p + 1)..(end - 1) /\ i > 1
      BY <1>1, <1>2, <2>1
    <2> QED
      BY <1>2, <1>3, <2>2
  <1>5. \A j \in 1..(end - (p + 1) + 1) : line[j] = q[p + 1 + j - 1]
    <2>1. \A j \in (p + 1)..end : q[j] \in Piece
      BY <1>1, <1>2
    <2> QED
      BY <1>1, <1>2, <2>1, SubSeqProperties
  <1>6. line \in Seq(Piece) /\ Len(line) = end - p
    <2>1. \A j \in (p + 1)..end : q[j] \in Piece
      BY <1>1, <1>2
    <2> QED
      BY <1>1, <1>2, <2>1, SubSeqProperties
  <1> HIDE DEF line
  <1>7. CASE end = p + 1
    <2>1. Len(line) = 1 /\ line[1] = Text(e, "whole")
      BY <1>1, <1>2, <1>3, <1>4, <1>5, <1>6, <1>7
    <2>2. /\ <<Text(e, "whole")>> \in Seq(Piece) /\ Len(<<Text(e, "whole")>>) = 1
          /\ <<Text(e, "whole")>>[1] = Text(e, "whole")
      BY TextFacts
    <2>3. \A j \in 1..Len(line) : line[j] = <<Text(e, "whole")>>[j]
      BY <2>1, <2>2
    <2>4. line = <<Text(e, "whole")>>
      BY <1>6, <2>1, <2>2, <2>3, SeqEqual
    <2> QED
      BY <2>4 DEF EventsOf, Spells, line, q, end
  <1>8. CASE end # p + 1
    <2>1. i < Len(q) /\ q[p + 2] = Newline /\ end = p + 2
      BY <1>1, <1>2, <1>3, <1>4, <1>8
    <2>2. Len(line) = 2 /\ line[1] = Text(e, "whole") /\ line[2] = Newline
      BY <1>1, <1>2, <1>3, <1>4, <1>5, <1>6, <2>1
    <2> DEFINE w == Append(<<Text(e, "whole")>>, Newline)
    <2>3. <<Text(e, "whole")>> \in Seq(Piece) /\ Newline \in Piece /\ Len(<<Text(e, "whole")>>) = 1
      BY TextFacts DEF Piece
    <2>4. w \in Seq(Piece) /\ Len(w) = 2 /\ w[1] = Text(e, "whole") /\ w[2] = Newline
      BY <2>3, AppendProperties
    <2> HIDE DEF w
    <2>5. \A j \in 1..Len(line) : line[j] = w[j]
      BY <2>2, <2>4
    <2>6. line = w
      BY <1>6, <2>2, <2>4, <2>5, SeqEqual
    <2> QED
      BY <2>6 DEF w, EventsOf, Spells, line, q, end
  <1> QED
    BY <1>7, <1>8

-----------------------------------------------------------------------------
(* The operations on the tables, table by table.                           *)

LEMMA EventFacts ==
  ASSUME NEW e \in Events
  PROVE  /\ SessionOf[e] \in Sessions /\ Address(e) \in Values /\ Indicators[e] \subseteq Values
         /\ Address(e) \in Indicators[e] /\ CommandOf[e] \in Commands
         /\ Address(e) = AddressOf[SessionOf[e]]
  BY IWAssumption DEF IWAssumption, Address

LEMMA MapsFacts ==
  ASSUME NEW S, NEW T
  PROVE  \A m : m \in Maps(S, T) <=>
            DOMAIN m \subseteq S /\ m = [x \in DOMAIN m |-> m[x]] /\ \A x \in DOMAIN m : m[x] \in T
  <1>1. ASSUME NEW m \in Maps(S, T)
        PROVE  DOMAIN m \subseteq S /\ m = [x \in DOMAIN m |-> m[x]] /\ \A x \in DOMAIN m : m[x] \in T
    <2>1. PICK R \in SUBSET S : m \in [R -> T]
      BY DEF Maps
    <2> QED
      BY <2>1
  <1>2. ASSUME NEW m, DOMAIN m \subseteq S, m = [x \in DOMAIN m |-> m[x]],
               \A x \in DOMAIN m : m[x] \in T
        PROVE  m \in Maps(S, T)
    <2>1. m \in [DOMAIN m -> T]
      BY <1>2
    <2> QED
      BY <1>2, <2>1 DEF Maps
  <1> QED
    BY <1>1, <1>2

LEMMA NoBufFacts == NoBuf \in Maps(Sessions, Seq(Commands)) /\ DOMAIN NoBuf = {}
  <1>1. DOMAIN NoBuf = {} /\ NoBuf = [x \in DOMAIN NoBuf |-> NoBuf[x]]
    BY DEF NoBuf
  <1> QED
    BY <1>1, MapsFacts

LEMMA DatabaseFacts ==
  ASSUME NEW t \in Database
  PROVE  /\ t.cursor \in [Days -> Nat] /\ t.sids \in [Values -> Lists(Sessions, MaxSids)]
         /\ t.ips \subseteq Values \X Values /\ t.campaigns \subseteq Values /\ t.camps \subseteq Values
         /\ t.sessions \in Maps(Sessions, Lists(Commands, MaxCommands))
         /\ DOMAIN t.sessions \subseteq Sessions
         /\ \A s \in DOMAIN t.sessions :
               t.sessions[s] \in Seq(Commands) /\ Len(t.sessions[s]) <= MaxCommands
  <1>1. /\ t.cursor \in [Days -> Nat] /\ t.sids \in [Values -> Lists(Sessions, MaxSids)]
        /\ t.ips \subseteq Values \X Values /\ t.campaigns \subseteq Values /\ t.camps \subseteq Values
        /\ t.sessions \in Maps(Sessions, Lists(Commands, MaxCommands))
    BY DEF Database
  <1> QED
    BY <1>1, MapsFacts, ListsAre, IWAssumption DEF IWAssumption

\* Records that differ in one or two fields.
WithIocs(t, sids, ips) == [t EXCEPT !.sids = sids, !.ips = ips]
WithPosition(t, d, p) == [t EXCEPT !.cursor = [@ EXCEPT ![d] = p]]
WithCamps(t, campaigns, camps) == [t EXCEPT !.campaigns = campaigns, !.camps = camps]

LEMMA WithTwo ==
  ASSUME NEW t \in Database,
         NEW sids \in [Values -> Lists(Sessions, MaxSids)], NEW ips \in SUBSET (Values \X Values),
         NEW r, r = WithIocs(t, sids, ips)
  PROVE  /\ r \in Database /\ r.sids = sids /\ r.ips = ips /\ r.cursor = t.cursor
         /\ r.sessions = t.sessions /\ r.campaigns = t.campaigns /\ r.camps = t.camps
  BY DEF Database, WithIocs

LEMMA WithCampaigns ==
  ASSUME NEW t \in Database, NEW campaigns \in SUBSET Values, NEW camps \in SUBSET Values,
         NEW r, r = WithCamps(t, campaigns, camps)
  PROVE  /\ r \in Database /\ r.campaigns = campaigns /\ r.camps = camps /\ r.cursor = t.cursor
         /\ r.sessions = t.sessions /\ r.sids = t.sids /\ r.ips = t.ips
  BY DEF Database, WithCamps

LEMMA WithSessions ==
  ASSUME NEW t \in Database, NEW sessions \in Maps(Sessions, Lists(Commands, MaxCommands)),
         NEW r, r = [t EXCEPT !.sessions = sessions]
  PROVE  /\ r \in Database /\ r.sessions = sessions /\ r.cursor = t.cursor /\ r.sids = t.sids
         /\ r.ips = t.ips /\ r.campaigns = t.campaigns /\ r.camps = t.camps
  BY DEF Database

LEMMA WithCursor ==
  ASSUME NEW t \in Database, NEW d \in Days, NEW p \in Nat,
         NEW r, r = WithPosition(t, d, p)
  PROVE  /\ r \in Database /\ r.cursor = [t.cursor EXCEPT ![d] = p] /\ r.sids = t.sids
         /\ r.ips = t.ips /\ r.campaigns = t.campaigns /\ r.camps = t.camps /\ r.sessions = t.sessions
  <1> DEFINE c == [t.cursor EXCEPT ![d] = p]
  <1>1. c \in [Days -> Nat]
    BY DatabaseFacts
  <1> HIDE DEF c
  <1>2. r = [t EXCEPT !.cursor = c]
    BY DEF c, WithPosition
  <1> QED
    BY <1>1, <1>2 DEF Database, c

\* What they leave of a table, as operators that a proof need not unfold.
Inserted(t, e, r) ==
    /\ r.cursor = t.cursor /\ r.sessions = t.sessions
    /\ r.campaigns = t.campaigns /\ r.camps = t.camps
    /\ r.ips = t.ips \cup {<<v, Address(e)>> : v \in Indicators[e]}
    /\ \A v \in Values : ToSet(r.sids[v]) \subseteq ToSet(t.sids[v]) \cup {SessionOf[e]}

Buffered(b, e, c) ==
    /\ DOMAIN c = DOMAIN b \cup {SessionOf[e]}
    /\ \A s \in DOMAIN b : s # SessionOf[e] => c[s] = b[s]
    /\ SessionOf[e] \in DOMAIN b =>
          ToSet(c[SessionOf[e]]) = ToSet(b[SessionOf[e]]) \cup {CommandOf[e]}
    /\ SessionOf[e] \notin DOMAIN b => ToSet(c[SessionOf[e]]) = {CommandOf[e]}

Upserted(t, b, r) ==
    /\ r.cursor = t.cursor /\ r.sids = t.sids /\ r.ips = t.ips
    /\ r.campaigns = t.campaigns /\ r.camps = t.camps
    /\ DOMAIN r.sessions = DOMAIN t.sessions \cup DOMAIN b
    /\ \A s \in DOMAIN r.sessions : \A c \in ToSet(r.sessions[s]) :
          \/ s \in DOMAIN t.sessions /\ c \in ToSet(t.sessions[s])
          \/ s \in DOMAIN b /\ c \in ToSet(b[s])
    /\ \A s \in DOMAIN t.sessions :
          /\ ToSet(t.sessions[s]) \subseteq ToSet(r.sessions[s])
                \/ Len(r.sessions[s]) = MaxCommands
          /\ Len(t.sessions[s]) = MaxCommands => Len(r.sessions[s]) = MaxCommands
    /\ \A s \in DOMAIN b :
          ToSet(b[s]) \subseteq ToSet(r.sessions[s]) \/ Len(r.sessions[s]) = MaxCommands

LEMMA UpsertIocsIs ==
  ASSUME NEW t \in Database, NEW e \in Events, NEW r, r = UpsertIocs(t, e)
  PROVE  r \in Database /\ Inserted(t, e, r)
  <1> DEFINE s == SessionOf[e]
             merge(q) == Latest(IF s \in ToSet(q) THEN q ELSE Append(q, s), MaxSids)
             sids == [v \in Values |-> IF v \in Indicators[e] THEN merge(t.sids[v]) ELSE t.sids[v]]
             ips == t.ips \cup {<<v, Address(e)>> : v \in Indicators[e]}
  <1>1. ASSUME NEW q \in Lists(Sessions, MaxSids)
        PROVE  /\ merge(q) \in Lists(Sessions, MaxSids)
               /\ ToSet(merge(q)) \subseteq ToSet(q) \cup {s}
    <2> DEFINE w == IF s \in ToSet(q) THEN q ELSE Append(q, s)
    <2>1. q \in Seq(Sessions) /\ s \in Sessions
      BY EventFacts, ListsAre, IWAssumption DEF IWAssumption
    <2>2. Append(q, s) \in Seq(Sessions) /\ ToSet(Append(q, s)) = ToSet(q) \cup {s}
      BY <2>1, ToSetAppend
    <2>3. w \in Seq(Sessions) /\ ToSet(w) \subseteq ToSet(q) \cup {s}
      BY <2>1, <2>2
    <2> HIDE DEF w
    <2>4. MaxSids \in Nat \ {0}
      BY IWAssumption DEF IWAssumption
    <2>5. Latest(w, MaxSids) \in Lists(Sessions, MaxSids) /\ ToSet(Latest(w, MaxSids)) \subseteq ToSet(w)
      BY <2>3, <2>4, LastOf
    <2> QED
      BY <2>3, <2>5 DEF w
  <1> HIDE DEF merge
  <1>2. t.sids \in [Values -> Lists(Sessions, MaxSids)] /\ t.ips \subseteq Values \X Values
    BY DatabaseFacts
  <1>3. /\ sids \in [Values -> Lists(Sessions, MaxSids)]
        /\ \A v \in Values : ToSet(sids[v]) \subseteq ToSet(t.sids[v]) \cup {s}
    <2>1. ASSUME NEW v \in Values
          PROVE  /\ sids[v] \in Lists(Sessions, MaxSids)
                 /\ ToSet(sids[v]) \subseteq ToSet(t.sids[v]) \cup {s}
      BY <1>1, <1>2
    <2> QED
      BY <2>1
  <1>4. ips \in SUBSET (Values \X Values)
    BY <1>2, EventFacts
  <1>5. r = WithIocs(t, sids, ips)
    BY DEF UpsertIocs, merge, WithIocs
  <1> HIDE DEF sids, ips
  <1>6. /\ r \in Database /\ r.sids = sids /\ r.ips = ips /\ r.cursor = t.cursor
        /\ r.sessions = t.sessions /\ r.campaigns = t.campaigns /\ r.camps = t.camps
    BY <1>3, <1>4, <1>5, WithTwo
  <1> QED
    BY <1>3, <1>6 DEF ips, Inserted

LEMMA BufferIs ==
  ASSUME NEW b \in Maps(Sessions, Seq(Commands)), NEW e \in Events, NEW c, c = Buffer(b, e)
  PROVE  c \in Maps(Sessions, Seq(Commands)) /\ Buffered(b, e, c)
  <1> DEFINE s == SessionOf[e]
             old == IF s \in DOMAIN b THEN b[s] ELSE <<>>
             w == Append(old, CommandOf[e])
  <1>1. DOMAIN b \subseteq Sessions /\ (\A x \in DOMAIN b : b[x] \in Seq(Commands)) /\ s \in Sessions
    BY MapsFacts, EventFacts
  <1>2. old \in Seq(Commands) /\ (s \notin DOMAIN b => ToSet(old) = {})
    <2>1. <<>> \in Seq(Commands) /\ 1..Len(<<>>) = {}
      BY EmptySeq
    <2>2. ToSet(<<>>) = {}
      BY <2>1, ToSetIs
    <2> QED
      BY <1>1, <2>1, <2>2
  <1>3. w \in Seq(Commands) /\ ToSet(w) = ToSet(old) \cup {CommandOf[e]}
    <2>1. CommandOf[e] \in Commands
      BY EventFacts
    <2> HIDE DEF old
    <2> QED
      BY <1>2, <2>1, ToSetAppend
  <1> HIDE DEF w
  <1>4. c = [x \in DOMAIN b \cup {s} |-> IF x # s THEN b[x] ELSE w]
    BY DEF Buffer, w
  <1>5. DOMAIN c = DOMAIN b \cup {s} /\ c[s] = w /\ \A x \in DOMAIN b : x # s => c[x] = b[x]
    BY <1>4
  <1>6. c = [x \in DOMAIN c |-> c[x]] /\ \A x \in DOMAIN c : c[x] \in Seq(Commands)
    BY <1>1, <1>3, <1>4
  <1>7. c \in Maps(Sessions, Seq(Commands))
    BY <1>1, <1>5, <1>6, MapsFacts
  <1> QED
    BY <1>2, <1>3, <1>5, <1>7 DEF Buffered

LEMMA MergedIs ==
  ASSUME NEW old \in Lists(Commands, MaxCommands), NEW new \in Seq(Commands),
         NEW m, m = Latest(old \o Fresh(new, old), MaxCommands)
  PROVE  /\ m \in Lists(Commands, MaxCommands)
         /\ ToSet(m) \subseteq ToSet(old) \cup ToSet(new)
         /\ Len(m) = MaxCommands \/ ToSet(old) \cup ToSet(new) \subseteq ToSet(m)
         /\ Len(old) = MaxCommands => Len(m) = MaxCommands
  <1> DEFINE u == Fresh(new, old)
             w == old \o u
  <1>1. /\ old \in Seq(Commands) /\ Len(old) \in Nat /\ Len(old) <= MaxCommands
        /\ u \in Seq(Commands) /\ Len(u) \in Nat /\ ToSet(u) = ToSet(new) \ ToSet(old)
        /\ MaxCommands \in Nat \ {0}
    BY FreshIs, LenProperties, ListsAre, IWAssumption DEF IWAssumption
  <1> HIDE DEF u
  <1>2. /\ w \in Seq(Commands) /\ Len(w) = Len(old) + Len(u)
        /\ ToSet(w) = ToSet(old) \cup ToSet(new)
    BY <1>1, ToSetConcat
  <1> HIDE DEF w
  <1>3. m = Latest(w, MaxCommands)
    BY DEF w, u
  <1>4. /\ m \in Lists(Commands, MaxCommands) /\ ToSet(m) \subseteq ToSet(w)
        /\ m = w \/ Len(m) = MaxCommands
    BY <1>1, <1>2, <1>3, LastOf
  <1>5. Len(m) <= MaxCommands
    BY <1>1, <1>4, ListsAre
  <1> QED
    BY <1>1, <1>2, <1>4, <1>5

LEMMA UpsertSessionsIs ==
  ASSUME NEW t \in Database, buf \in Maps(Sessions, Seq(Commands)), NEW r, r = UpsertSessions(t)
  PROVE  r \in Database /\ Upserted(t, buf, r)
  <1> DEFINE merged(s) ==
                IF s \notin DOMAIN buf THEN t.sessions[s]
                ELSE IF s \notin DOMAIN t.sessions THEN Latest(buf[s], MaxCommands)
                ELSE Latest(t.sessions[s] \o Fresh(buf[s], t.sessions[s]), MaxCommands)
             D == DOMAIN t.sessions \cup DOMAIN buf
             sessions == [s \in D |-> merged(s)]
  <1>1. /\ DOMAIN t.sessions \subseteq Sessions
        /\ \A s \in DOMAIN t.sessions : t.sessions[s] \in Lists(Commands, MaxCommands)
        /\ DOMAIN buf \subseteq Sessions /\ \A s \in DOMAIN buf : buf[s] \in Seq(Commands)
        /\ MaxCommands \in Nat \ {0}
    BY MapsFacts, IWAssumption DEF Database, IWAssumption
  <1>2. ASSUME NEW s \in DOMAIN t.sessions \ DOMAIN buf
        PROVE  merged(s) = t.sessions[s] /\ merged(s) \in Lists(Commands, MaxCommands)
    BY <1>1
  <1>3. ASSUME NEW s \in DOMAIN buf \ DOMAIN t.sessions
        PROVE  /\ merged(s) \in Lists(Commands, MaxCommands)
               /\ ToSet(merged(s)) \subseteq ToSet(buf[s])
               /\ ToSet(buf[s]) \subseteq ToSet(merged(s)) \/ Len(merged(s)) = MaxCommands
    <2>1. merged(s) = Latest(buf[s], MaxCommands)
      OBVIOUS
    <2> QED
      BY <1>1, <2>1, LastOf
  <1>4. ASSUME NEW s \in DOMAIN buf \cap DOMAIN t.sessions
        PROVE  /\ merged(s) \in Lists(Commands, MaxCommands)
               /\ ToSet(merged(s)) \subseteq ToSet(t.sessions[s]) \cup ToSet(buf[s])
               /\ \/ Len(merged(s)) = MaxCommands
                  \/ ToSet(t.sessions[s]) \cup ToSet(buf[s]) \subseteq ToSet(merged(s))
               /\ Len(t.sessions[s]) = MaxCommands => Len(merged(s)) = MaxCommands
    <2>1. merged(s) = Latest(t.sessions[s] \o Fresh(buf[s], t.sessions[s]), MaxCommands)
      OBVIOUS
    <2> HIDE DEF merged
    <2> QED
      BY <1>1, <2>1, MergedIs
  <1>5. r = [t EXCEPT !.sessions = sessions]
    BY DEF UpsertSessions
  <1> HIDE DEF merged
  <1>6. DOMAIN sessions = D /\ \A s \in D : sessions[s] = merged(s)
    OBVIOUS
  <1>7. \A s \in D : merged(s) \in Lists(Commands, MaxCommands)
    BY <1>2, <1>3, <1>4
  <1>8. sessions \in Maps(Sessions, Lists(Commands, MaxCommands))
    <2>1. sessions = [s \in DOMAIN sessions |-> sessions[s]] /\ D \subseteq Sessions
      BY <1>1
    <2> HIDE DEF sessions
    <2> QED
      BY <1>6, <1>7, <2>1, MapsFacts
  <1> HIDE DEF sessions
  <1>9. /\ r \in Database /\ r.sessions = sessions /\ r.cursor = t.cursor /\ r.sids = t.sids
        /\ r.ips = t.ips /\ r.campaigns = t.campaigns /\ r.camps = t.camps
    BY <1>5, <1>8, WithSessions
  <1>10. ASSUME NEW s \in D, NEW c \in ToSet(merged(s))
         PROVE  \/ s \in DOMAIN t.sessions /\ c \in ToSet(t.sessions[s])
                \/ s \in DOMAIN buf /\ c \in ToSet(buf[s])
    BY <1>2, <1>3, <1>4
  <1>11. ASSUME NEW s \in DOMAIN t.sessions
         PROVE  /\ ToSet(t.sessions[s]) \subseteq ToSet(merged(s)) \/ Len(merged(s)) = MaxCommands
                /\ Len(t.sessions[s]) = MaxCommands => Len(merged(s)) = MaxCommands
    BY <1>2, <1>4
  <1>12. ASSUME NEW s \in DOMAIN buf
         PROVE  ToSet(buf[s]) \subseteq ToSet(merged(s)) \/ Len(merged(s)) = MaxCommands
    BY <1>3, <1>4
  <1> QED
    BY <1>6, <1>9, <1>10, <1>11, <1>12 DEF Upserted

LEMMA ReplaceCampaignsIs ==
  ASSUME NEW t \in Database, Linked(t, NoBuf), NEW r, r = ReplaceCampaigns(t)
  PROVE  /\ r \in Database /\ r.cursor = t.cursor /\ r.sids = t.sids /\ r.ips = t.ips
         /\ r.sessions = t.sessions /\ r.campaigns \subseteq r.camps
  <1> DEFINE addresses == {AddressOf[s] : s \in Clustered(DOMAIN t.sessions)}
             camps == {v \in Values : \E a \in addresses : <<v, a>> \in t.ips}
  <1>1. CASE DOMAIN t.sessions = {}
    BY <1>1 DEF ReplaceCampaigns, Linked
  <1>2. CASE DOMAIN t.sessions # {}
    <2>1. r = WithCamps(t, addresses, camps)
      BY <1>2 DEF ReplaceCampaigns, WithCamps
    <2>2. addresses \subseteq Values /\ addresses \subseteq camps
      <3>1. \A s \in Clustered(DOMAIN t.sessions) : s \in DOMAIN t.sessions
        BY DEF Clustered
      <3>2. \A s \in DOMAIN t.sessions : AddressOf[s] \in Values /\ <<AddressOf[s], AddressOf[s]>> \in t.ips
        BY DatabaseFacts, IWAssumption DEF Linked, IWAssumption
      <3> QED
        BY <3>1, <3>2
    <2>3. camps \in SUBSET Values
      OBVIOUS
    <2> HIDE DEF addresses, camps
    <2>4. addresses \in SUBSET Values
      BY <2>2
    <2>5. /\ r \in Database /\ r.campaigns = addresses /\ r.camps = camps /\ r.cursor = t.cursor
          /\ r.sessions = t.sessions /\ r.sids = t.sids /\ r.ips = t.ips
      BY <2>1, <2>3, <2>4, WithCampaigns
    <2> QED
      BY <2>2, <2>5
  <1> QED
    BY <1>1, <1>2

-----------------------------------------------------------------------------
(* What the steps do to the relation of files and tables.                  *)

\* What f holds up to cur, g holds, and dur is no less.
Keeps(f, cur, g, dur) ==
    \A d \in Days :
        /\ cur[d] \in Nat /\ dur[d] \in Nat /\ cur[d] <= dur[d]
        /\ \A i \in 1..cur[d] : g[d][i] = f[d][i]

\* The position after the line that the cursor of d is at.
Onward(d, cur) == [cur EXCEPT ![d] = LineEnd(d, cur[d])]

Moved(d, cur, dur) ==
    /\ \A x \in Days : x # d => dur[x] = cur[x]
    /\ dur[d] = LineEnd(d, cur[d]) /\ dur[d] \in (cur[d] + 1)..Len(files[d])
    /\ cur[d] \in Nat

LEMMA SeenGrows ==
  ASSUME NEW f, NEW g, NEW cur, NEW dur, Keeps(f, cur, g, dur), NEW e, Seen(f, e, cur)
  PROVE  Seen(g, e, dur)
  <1>1. PICK d \in Days : \E i \in 1..cur[d] : f[d][i] # Newline /\ f[d][i].of = e
    BY DEF Seen
  <1>2. PICK i \in 1..cur[d] : f[d][i] # Newline /\ f[d][i].of = e
    BY <1>1
  <1>3. i \in 1..dur[d] /\ g[d][i] = f[d][i]
    BY DEF Keeps
  <1> QED
    BY <1>2, <1>3 DEF Seen

LEMMA BackedGrows ==
  ASSUME NEW f, NEW g, NEW cur, NEW dur, NEW t, NEW b, Keeps(f, cur, g, dur), Backed(f, t, b, cur)
  PROVE  Backed(g, t, b, dur)
  <1>1. \A e \in Events : Seen(f, e, cur) => Seen(g, e, dur)
    BY SeenGrows
  <1> QED
    BY <1>1 DEF Backed, Typed

LEMMA SoundGrows ==
  ASSUME NEW f \in [Days -> Seq(Piece)], NEW g \in [Days -> Seq(Piece)], Longer(f, g),
         NEW t, NEW b, NEW cur \in [Days -> Nat], \A d \in Days : cur[d] <= Len(f[d]),
         Sound(f, t, b, cur)
  PROVE  Sound(g, t, b, cur)
  <1>1. \A d \in Days : Len(f[d]) \in Nat /\ Len(g[d]) \in Nat
    BY LenProperties
  <1>2. ASSUME NEW e \in Events, NEW d \in Days, NEW i \in 1..cur[d], Begins(g, e, d, i)
        PROVE  Begins(f, e, d, i)
    <2>1. Len(f[d]) <= Len(g[d]) /\ \A j \in 1..Len(f[d]) : g[d][j] = f[d][j]
      BY DEF Longer
    <2>2. cur[d] \in Nat /\ i \in 1..Len(f[d])
      BY <1>1
    <2>3. i > 1 => i - 1 \in 1..Len(f[d])
      BY <1>1, <2>2
    <2>4. i < Len(f[d]) => i + 1 \in 1..Len(f[d]) /\ i < Len(g[d])
      BY <1>1, <2>1, <2>2
    <2> QED
      BY <1>2, <2>1, <2>2, <2>3, <2>4 DEF Begins
  <1>3. Complete(g, t, b, cur)
    BY <1>2 DEF Sound, Complete
  <1>4. Keeps(f, cur, g, cur)
    <2>1. ASSUME NEW d \in Days
          PROVE  cur[d] \in Nat /\ cur[d] <= cur[d] /\ \A i \in 1..cur[d] : g[d][i] = f[d][i]
      <3>1. \A i \in 1..Len(f[d]) : g[d][i] = f[d][i]
        BY DEF Longer
      <3> QED
        BY <1>1, <3>1
    <2> QED
      BY <2>1 DEF Keeps
  <1>5. Backed(g, t, b, cur)
    BY <1>4, BackedGrows DEF Sound
  <1> QED
    BY <1>3, <1>5 DEF Sound

\* The reader goes on to the end of the line.
LEMMA CursorMoves ==
  ASSUME LogTypeOK, NEW d \in Days, NEW cur \in [Days -> Nat], cur[d] < Len(files[d]),
         NEW dur, dur = Onward(d, cur)
  PROVE  dur \in [Days -> Nat] /\ Keeps(files, cur, files, dur) /\ Moved(d, cur, dur)
  <1>1. LineEnd(d, cur[d]) \in (cur[d] + 1)..Len(files[d]) /\ Len(files[d]) \in Nat /\ cur[d] \in Nat
    BY LineEndIs, LenProperties DEF LogTypeOK
  <1>2. dur = [cur EXCEPT ![d] = LineEnd(d, cur[d])]
    BY DEF Onward
  <1>3. dur \in [Days -> Nat] /\ \A x \in Days : cur[x] <= dur[x]
    BY <1>1, <1>2
  <1>4. Keeps(files, cur, files, dur)
    BY <1>3 DEF Keeps
  <1>5. Moved(d, cur, dur)
    BY <1>1, <1>2 DEF Moved
  <1> QED
    BY <1>3, <1>4, <1>5

\* A line that is no event of its own.
LEMMA SoundSkips ==
  ASSUME LogTypeOK, NEW d \in Days, NEW cur \in [Days -> Nat], cur[d] < Len(files[d]),
         NEW t, NEW b, Sound(files, t, b, cur),
         EventsOf(SubSeq(files[d], cur[d] + 1, LineEnd(d, cur[d]))) = {},
         NEW dur, dur = Onward(d, cur)
  PROVE  Sound(files, t, b, dur)
  <1>0. dur \in [Days -> Nat] /\ Keeps(files, cur, files, dur) /\ Moved(d, cur, dur)
    BY CursorMoves
  <1>1. /\ \A x \in Days : x # d => dur[x] = cur[x]
        /\ dur[d] = LineEnd(d, cur[d]) /\ cur[d] \in Nat
    BY <1>0 DEF Moved
  <1>2. ASSUME NEW e \in Events, NEW x \in Days, NEW i \in 1..dur[x], Begins(files, e, x, i)
        PROVE  Noted(t, b, e)
    <2>1. CASE i \in 1..cur[x]
      BY <1>2, <2>1 DEF Sound, Complete
    <2>2. CASE i \notin 1..cur[x]
      <3>1. x = d /\ i \in (cur[d] + 1)..LineEnd(d, cur[d])
        BY <1>1, <2>2
      <3>2. e \in EventsOf(SubSeq(files[d], cur[d] + 1, LineEnd(d, cur[d])))
        BY <1>1, <1>2, <3>1, OwnLineRead
      <3> QED
        BY <3>2
    <2> QED
      BY <2>1, <2>2
  <1>3. Backed(files, t, b, dur)
    BY <1>0, BackedGrows DEF Sound
  <1> QED
    BY <1>2, <1>3 DEF Sound, Complete

\* A line that is an event.
LEMMA SoundReads ==
  ASSUME LogTypeOK, NEW d \in Days, NEW cur \in [Days -> Nat], cur[d] < Len(files[d]),
         NEW t \in Database, NEW b \in Maps(Sessions, Seq(Commands)), Sound(files, t, b, cur),
         NEW e \in EventsOf(SubSeq(files[d], cur[d] + 1, LineEnd(d, cur[d]))),
         NEW dur, dur = Onward(d, cur),
         NEW u, u = UpsertIocs(t, e), NEW c, c = Buffer(b, e)
  PROVE  Sound(files, u, c, dur)
  <1>0. dur \in [Days -> Nat] /\ Keeps(files, cur, files, dur) /\ Moved(d, cur, dur)
    BY CursorMoves
  <1>1. /\ \A x \in Days : x # d => dur[x] = cur[x]
        /\ dur[d] = LineEnd(d, cur[d]) /\ dur[d] \in (cur[d] + 1)..Len(files[d]) /\ cur[d] \in Nat
    BY <1>0 DEF Moved
  <1>2. e \in Events /\ files[d][cur[d] + 1] # Newline /\ files[d][cur[d] + 1].of = e
    BY <1>1, LineSpells DEF LogTypeOK
  <1>3. Seen(files, e, dur)
    <2>1. cur[d] + 1 \in 1..dur[d]
      BY <1>1
    <2> QED
      BY <1>2, <2>1 DEF Seen
  <1>4. /\ u.sessions = t.sessions /\ u.campaigns = t.campaigns /\ u.camps = t.camps
        /\ u.ips = t.ips \cup {<<v, Address(e)>> : v \in Indicators[e]}
        /\ \A v \in Values : ToSet(u.sids[v]) \subseteq ToSet(t.sids[v]) \cup {SessionOf[e]}
    <2>1. Inserted(t, e, u)
      BY <1>2, UpsertIocsIs
    <2> QED
      BY <2>1 DEF Inserted
  <1>5. /\ DOMAIN c = DOMAIN b \cup {SessionOf[e]}
        /\ \A s \in DOMAIN b : s # SessionOf[e] => c[s] = b[s]
        /\ SessionOf[e] \in DOMAIN b =>
              ToSet(c[SessionOf[e]]) = ToSet(b[SessionOf[e]]) \cup {CommandOf[e]}
        /\ SessionOf[e] \notin DOMAIN b => ToSet(c[SessionOf[e]]) = {CommandOf[e]}
    <2>1. Buffered(b, e, c)
      BY <1>2, BufferIs
    <2> QED
      BY <2>1, Zenon DEF Buffered
  <1>6. Complete(files, u, c, dur)
    <2>1. ASSUME NEW a \in Events, Noted(t, b, a) PROVE Noted(u, c, a)
      <3>1. \A v \in Indicators[a] : <<v, Address(a)>> \in u.ips
        BY <1>4, <2>1 DEF Noted
      <3>2. CASE SessionOf[a] \in DOMAIN b /\ CommandOf[a] \in ToSet(b[SessionOf[a]])
        <4>1. SessionOf[a] \in DOMAIN c /\ CommandOf[a] \in ToSet(c[SessionOf[a]])
          BY <1>5, <3>2
        <4> QED
          BY <3>1, <4>1 DEF Noted
      <3>3. CASE ~(SessionOf[a] \in DOMAIN b /\ CommandOf[a] \in ToSet(b[SessionOf[a]]))
        BY <1>4, <2>1, <3>1, <3>3 DEF Noted
      <3> QED
        BY <3>2, <3>3
    <2>2. Noted(u, c, e)
      <3>1. SessionOf[e] \in DOMAIN c /\ CommandOf[e] \in ToSet(c[SessionOf[e]])
        BY <1>5
      <3> QED
        BY <1>4, <3>1 DEF Noted
    <2>3. ASSUME NEW a \in Events, NEW x \in Days, NEW i \in 1..dur[x], Begins(files, a, x, i)
          PROVE  Noted(u, c, a)
      <3>1. CASE i \in 1..cur[x]
        BY <2>1, <2>3, <3>1 DEF Sound, Complete
      <3>2. CASE i \notin 1..cur[x]
        <4>1. x = d /\ i \in (cur[d] + 1)..LineEnd(d, cur[d])
          BY <1>1, <3>2
        <4>2. a \in EventsOf(SubSeq(files[d], cur[d] + 1, LineEnd(d, cur[d])))
          BY <1>1, <2>3, <4>1, OwnLineRead
        <4>3. a = e
          BY <1>1, <1>2, <4>2, LineSpells DEF LogTypeOK
        <4> QED
          BY <2>2, <4>3
      <3> QED
        BY <3>1, <3>2
    <2> QED
      BY <2>3 DEF Complete
  <1>7. Backed(files, u, c, dur)
    <2>1. Backed(files, t, b, dur)
      BY <1>0, BackedGrows DEF Sound
    <2>2. \A p \in u.ips : \E a \in Events :
             Seen(files, a, dur) /\ p[1] \in Indicators[a] /\ p[2] = Address(a)
      <3>1. ASSUME NEW p \in t.ips
            PROVE  \E a \in Events :
                      Seen(files, a, dur) /\ p[1] \in Indicators[a] /\ p[2] = Address(a)
        BY <2>1, Zenon DEF Backed
      <3>2. ASSUME NEW v \in Indicators[e], NEW p, p = <<v, Address(e)>>
            PROVE  \E a \in Events :
                      Seen(files, a, dur) /\ p[1] \in Indicators[a] /\ p[2] = Address(a)
        <4>1. p[1] = v /\ p[2] = Address(e)
          BY <3>2
        <4> QED
          BY <1>2, <1>3, <3>2, <4>1, Zenon
      <3>3. \A p \in u.ips : p \in t.ips \/ \E v \in Indicators[e] : p = <<v, Address(e)>>
        BY <1>4
      <3> QED
        BY <3>1, <3>2, <3>3, Zenon
    <2>3. Typed(files, SessionOf[e], CommandOf[e], dur)
      BY <1>2, <1>3 DEF Typed
    <2>4. ASSUME NEW s \in DOMAIN c, NEW k \in ToSet(c[s]) PROVE Typed(files, s, k, dur)
      <3>1. CASE s # SessionOf[e]
        BY <1>5, <2>1, <3>1 DEF Backed
      <3>2. CASE s = SessionOf[e]
        <4>1. k = CommandOf[e] \/ (s \in DOMAIN b /\ k \in ToSet(b[s]))
          BY <1>5, <3>2
        <4> QED
          BY <2>1, <2>3, <3>2, <4>1 DEF Backed
      <3> QED
        BY <3>1, <3>2
    <2> QED
      BY <1>4, <2>1, <2>2, <2>4 DEF Backed
  <1>8. Linked(u, c)
    <2>1. Address(e) \in Indicators[e] /\ Address(e) = AddressOf[SessionOf[e]]
      BY <1>2, EventFacts
    <2>2. <<AddressOf[SessionOf[e]], AddressOf[SessionOf[e]]>> \in u.ips
      BY <1>4, <2>1
    <2> QED
      BY <1>4, <1>5, <2>2 DEF Sound, Linked
  <1> QED
    BY <1>6, <1>7, <1>8 DEF Sound

\* The sessions are written.
LEMMA SoundCloses ==
  ASSUME NEW cur, NEW t \in Database, buf \in Maps(Sessions, Seq(Commands)),
         Sound(files, t, buf, cur), NEW r, r = UpsertSessions(t),
         NEW u, u.ips = r.ips, u.sids = r.sids, u.sessions = r.sessions,
         u.campaigns = r.campaigns, u.camps = r.camps
  PROVE  Sound(files, u, NoBuf, cur)
  <1>0. Upserted(t, buf, r)
    BY UpsertSessionsIs
  <1>1. /\ u.sids = t.sids /\ u.ips = t.ips /\ u.campaigns = t.campaigns /\ u.camps = t.camps
        /\ DOMAIN u.sessions = DOMAIN t.sessions \cup DOMAIN buf
    BY <1>0 DEF Upserted
  <1>2. \A s \in DOMAIN u.sessions : \A c \in ToSet(u.sessions[s]) :
           \/ s \in DOMAIN t.sessions /\ c \in ToSet(t.sessions[s])
           \/ s \in DOMAIN buf /\ c \in ToSet(buf[s])
    BY <1>0 DEF Upserted
  <1>3. \A s \in DOMAIN t.sessions :
           /\ ToSet(t.sessions[s]) \subseteq ToSet(u.sessions[s])
                 \/ Len(u.sessions[s]) = MaxCommands
           /\ Len(t.sessions[s]) = MaxCommands => Len(u.sessions[s]) = MaxCommands
    BY <1>0 DEF Upserted
  <1>4. \A s \in DOMAIN buf :
           ToSet(buf[s]) \subseteq ToSet(u.sessions[s]) \/ Len(u.sessions[s]) = MaxCommands
    BY <1>0 DEF Upserted
  <1>5. DOMAIN NoBuf = {}
    BY NoBufFacts
  <1>6. ASSUME NEW e \in Events, Noted(t, buf, e) PROVE Noted(u, NoBuf, e)
    <2>1. \A v \in Indicators[e] : <<v, Address(e)>> \in u.ips
      BY <1>1, <1>6 DEF Noted
    <2>2. /\ SessionOf[e] \in DOMAIN u.sessions
          /\ \/ CommandOf[e] \in ToSet(u.sessions[SessionOf[e]])
             \/ Len(u.sessions[SessionOf[e]]) = MaxCommands
      BY <1>1, <1>3, <1>4, <1>6 DEF Noted
    <2> QED
      BY <2>1, <2>2 DEF Noted
  <1>7. Complete(files, u, NoBuf, cur)
    BY <1>6 DEF Sound, Complete
  <1>8. Backed(files, u, NoBuf, cur)
    <2>1. \A s \in DOMAIN u.sessions : \A c \in ToSet(u.sessions[s]) : Typed(files, s, c, cur)
      BY <1>2 DEF Sound, Backed
    <2> QED
      BY <1>1, <1>5, <2>1 DEF Sound, Backed
  <1>9. Linked(u, NoBuf)
    BY <1>1, <1>5 DEF Sound, Linked
  <1> QED
    BY <1>7, <1>8, <1>9 DEF Sound

\* Campaigns are detected again.
LEMMA SoundDetects ==
  ASSUME NEW cur, NEW t \in Database, Sound(files, t, NoBuf, cur), NEW r, r = ReplaceCampaigns(t)
  PROVE  Sound(files, r, NoBuf, cur)
  <1>1. /\ r.sids = t.sids /\ r.ips = t.ips /\ r.sessions = t.sessions
        /\ r.campaigns \subseteq r.camps
    BY ReplaceCampaignsIs DEF Sound
  <1> QED
    BY <1>1 DEF Sound, Complete, Noted, Backed, Linked

-----------------------------------------------------------------------------
(* The invariant is inductive.                                             *)

LEMMA TypeIs ==
  ASSUME TypeOK
  PROVE  /\ LogTypeOK /\ db \in Database /\ tx \in Database
         /\ buf \in Maps(Sessions, Seq(Commands))
         /\ Reach \in [Days -> Nat] /\ db.cursor \in [Days -> Nat] /\ tx.cursor \in [Days -> Nat]
         /\ files \in [Days -> Seq(Piece)] /\ \A d \in Days : Len(files[d]) \in Nat
  <1>1. /\ LogTypeOK /\ db \in Database /\ tx \in Database /\ pos \in Nat
        /\ \E R \in SUBSET Sessions : buf \in [R -> Seq(Commands)]
    BY DEF TypeOK
  <1>2. buf \in Maps(Sessions, Seq(Commands))
    BY <1>1 DEF Maps
  <1>3. db.cursor \in [Days -> Nat] /\ tx.cursor \in [Days -> Nat]
    BY <1>1, DatabaseFacts
  <1>4. Reach \in [Days -> Nat]
    BY <1>1, <1>3 DEF Reach
  <1>5. files \in [Days -> Seq(Piece)] /\ \A d \in Days : Len(files[d]) \in Nat
    BY <1>1, LenProperties DEF LogTypeOK
  <1> QED
    BY <1>1, <1>2, <1>3, <1>4, <1>5

LEMMA ReachFacts ==
  ASSUME TypeOK, ReaderInv
  PROVE  \A d \in Days : /\ db.cursor[d] <= tx.cursor[d] /\ tx.cursor[d] <= Reach[d]
                         /\ db.cursor[d] <= Reach[d] /\ Reach[d] <= Len(files[d])
  <1>1. ASSUME NEW d \in Days
        PROVE  /\ db.cursor[d] <= tx.cursor[d] /\ tx.cursor[d] <= Reach[d]
               /\ db.cursor[d] <= Reach[d] /\ Reach[d] <= Len(files[d])
    <2>1. /\ db.cursor[d] \in Nat /\ tx.cursor[d] \in Nat /\ Reach[d] \in Nat
          /\ db.cursor[d] <= tx.cursor[d] /\ Reach[d] <= Len(files[d])
      BY TypeIs DEF ReaderInv
    <2>2. tx.cursor[d] <= Reach[d]
      <3>1. CASE d = file
        BY <2>1, <3>1 DEF ReaderInv, Reach
      <3>2. CASE d # file
        BY <2>1, <3>2 DEF Reach
      <3> QED
        BY <3>1, <3>2
    <2> QED
      BY <2>1, <2>2
  <1> QED
    BY <1>1

\* The files of the log are longer.
LEMMA HoneypotKeeps ==
  ASSUME IInv, Honeypot
  PROVE  IInv'
  <1>1. TypeOK /\ ReaderInv /\ Sound(files, db, NoBuf, db.cursor) /\ Sound(files, tx, buf, Reach)
    BY DEF IInv
  <1>2. /\ Midnight \/ \E e \in Events : Log(e)
        /\ UNCHANGED <<db, tx, at, todo, file, pos, buf, due, restarts>>
    BY DEF Honeypot, reader
  <1>3. LogTypeOK' /\ Longer(files, files')
    BY <1>1, <1>2, LogGrows, TypeIs
  <1>4. TypeOK'
    BY <1>1, <1>2, <1>3 DEF TypeOK
  <1>5. Reach' = Reach
    BY <1>2 DEF Reach
  <1>6. /\ files \in [Days -> Seq(Piece)] /\ \A d \in Days : Len(files[d]) \in Nat
        /\ db.cursor \in [Days -> Nat] /\ Reach \in [Days -> Nat]
    BY <1>1, TypeIs
  <1>7. files' \in [Days -> Seq(Piece)] /\ \A d \in Days : Len(files'[d]) \in Nat
    BY <1>3, LenProperties DEF LogTypeOK
  <1>8. \A d \in Days : db.cursor[d] <= Reach[d] /\ Reach[d] <= Len(files[d])
    BY <1>1, ReachFacts
  <1>9. ReaderInv'
    BY <1>1, <1>2, <1>3, <1>5, <1>6, <1>7 DEF ReaderInv, Longer
  <1>10. \A d \in Days : db.cursor[d] <= Len(files[d])
    BY <1>6, <1>8
  <1>11. Sound(files', db, NoBuf, db.cursor)
    BY <1>1, <1>3, <1>6, <1>7, <1>10, SoundGrows
  <1>12. Sound(files', tx, buf, Reach)
    BY <1>1, <1>3, <1>6, <1>7, <1>8, SoundGrows
  <1> QED
    BY <1>2, <1>4, <1>5, <1>9, <1>11, <1>12 DEF IInv

\* A step that leaves the files, the tables and what is buffered.
LEMMA ReaderKeeps ==
  ASSUME IInv, TypeOK', ReaderInv', UNCHANGED <<files, db, tx, buf>>, Reach' = Reach
  PROVE  IInv'
  BY DEF IInv

LEMMA PollKeeps ==
  ASSUME IInv, Poll \/ OpenFile \/ SkipCampaigns \/ CampaignTimer
  PROVE  IInv'
  <1>1. /\ TypeOK /\ ReaderInv /\ LogTypeOK
        /\ files \in [Days -> Seq(Piece)] /\ \A d \in Days : Len(files[d]) \in Nat
        /\ db.cursor \in [Days -> Nat] /\ tx.cursor \in [Days -> Nat] /\ Reach \in [Days -> Nat]
    BY TypeIs DEF IInv
  <1>2. /\ UNCHANGED <<files, today, writing, path, db, tx, buf, restarts>>
        /\ UNCHANGED due \/ due' = TRUE
    BY DEF Poll, OpenFile, SkipCampaigns, CampaignTimer, logVars, reader
  <1>3. LogTypeOK'
    BY <1>1, <1>2 DEF LogTypeOK
  <1>4. 0 \notin Days
    BY DaysFacts
  <1>5. CASE Poll
    <2>1. /\ todo' = {path[e] : e \in Events} \ {0} /\ at = "poll"
          /\ at' \in {"campaigns", "files"} /\ UNCHANGED <<file, pos, due>>
      BY <1>5 DEF Poll
    <2>2. todo' \subseteq Days
      BY <1>1, <2>1 DEF LogTypeOK
    <2>3. TypeOK'
      BY <1>1, <1>2, <1>3, <2>1, <2>2 DEF TypeOK
    <2>4. Reach' = Reach
      BY <1>2, <2>1 DEF Reach
    <2>5. ReaderInv'
      BY <1>1, <1>2, <2>1, <2>4 DEF ReaderInv
    <2> QED
      BY <1>2, <2>3, <2>4, <2>5, ReaderKeeps
  <1>6. CASE OpenFile
    <2>1. PICK d \in todo :
            /\ todo' = todo \ {d} /\ UNCHANGED due
            /\ IF Len(files[d]) <= tx.cursor[d] THEN UNCHANGED <<at, file, pos>>
               ELSE at' = "lines" /\ file' = d /\ pos' = tx.cursor[d]
      BY <1>6 DEF OpenFile
    <2>2. at = "files" /\ file \notin Days /\ d \in Days
      BY <1>1, <1>6 DEF OpenFile, ReaderInv, TypeOK
    <2>3. CASE Len(files[d]) <= tx.cursor[d]
      <3>1. TypeOK'
        BY <1>1, <1>2, <1>3, <2>1, <2>3 DEF TypeOK
      <3>2. Reach' = Reach
        BY <1>2, <2>1, <2>3 DEF Reach
      <3>3. ReaderInv'
        BY <1>1, <1>2, <2>1, <2>2, <2>3, <3>2 DEF ReaderInv
      <3> QED
        BY <1>2, <3>1, <3>2, <3>3, ReaderKeeps
    <2>4. CASE ~(Len(files[d]) <= tx.cursor[d])
      <3>1. at' = "lines" /\ file' = d /\ pos' = tx.cursor[d]
        BY <2>1, <2>4
      <3>2. TypeOK'
        BY <1>1, <1>2, <1>3, <2>1, <2>2, <3>1 DEF TypeOK
      <3>3. Reach' = Reach
        <4>1. \A x \in Days : x # file /\ (x = d => pos' = tx.cursor[x])
          BY <2>2, <3>1
        <4> QED
          BY <1>2, <3>1, <4>1 DEF Reach
      <3>4. ReaderInv'
        BY <1>1, <1>2, <2>2, <3>1, <3>3 DEF ReaderInv
      <3> QED
        BY <1>2, <3>2, <3>3, <3>4, ReaderKeeps
    <2> QED
      BY <2>3, <2>4
  <1>7. CASE SkipCampaigns
    <2>1. at = "campaigns" /\ at' = "poll" /\ UNCHANGED <<todo, file, pos, due>>
      BY <1>7 DEF SkipCampaigns, reader
    <2>2. TypeOK'
      BY <1>1, <1>2, <1>3, <2>1 DEF TypeOK
    <2>3. Reach' = Reach
      BY <1>2, <2>1 DEF Reach
    <2>4. ReaderInv'
      BY <1>1, <1>2, <2>1, <2>3 DEF ReaderInv
    <2> QED
      BY <1>2, <2>2, <2>3, <2>4, ReaderKeeps
  <1>8. CASE CampaignTimer
    <2>1. UNCHANGED <<at, todo, file, pos>>
      BY <1>8 DEF CampaignTimer, reader
    <2>2. TypeOK'
      BY <1>1, <1>2, <1>3, <2>1 DEF TypeOK
    <2>3. Reach' = Reach
      BY <1>2, <2>1 DEF Reach
    <2>4. ReaderInv'
      BY <1>1, <1>2, <2>1, <2>3 DEF ReaderInv
    <2> QED
      BY <1>2, <2>2, <2>3, <2>4, ReaderKeeps
  <1> QED
    BY <1>5, <1>6, <1>7, <1>8

LEMMA ReadLineKeeps ==
  ASSUME IInv, ReadLine
  PROVE  IInv'
  <1>1. /\ TypeOK /\ ReaderInv /\ LogTypeOK
        /\ db \in Database /\ tx \in Database /\ buf \in Maps(Sessions, Seq(Commands))
        /\ \A d \in Days : Len(files[d]) \in Nat
        /\ tx.cursor \in [Days -> Nat] /\ Reach \in [Days -> Nat]
        /\ Sound(files, db, NoBuf, db.cursor) /\ Sound(files, tx, buf, Reach)
    BY TypeIs DEF IInv
  <1>2. /\ file \in Days /\ at = "lines" /\ Reach[file] = pos /\ pos \in Nat
        /\ pos < Len(files[file]) /\ pos' = LineEnd(file, pos)
        /\ UNCHANGED <<files, today, writing, path, db, at, todo, file, due, restarts>>
    BY <1>1 DEF ReadLine, ReaderInv, Reach, logVars, TypeOK
  <1>3. PICK line : line = SubSeq(files[file], pos + 1, LineEnd(file, pos))
    OBVIOUS
  <1>4. /\ tx' \in Database /\ tx'.cursor = tx.cursor /\ buf' \in Maps(Sessions, Seq(Commands))
        /\ tx'.sessions = tx.sessions /\ tx.ips \subseteq tx'.ips
        /\ Sound(files, tx', buf', Onward(file, Reach))
    <2>1. CASE EventsOf(line) = {}
      <3>1. tx' = tx /\ buf' = buf
        BY <1>2, <1>3, <2>1 DEF ReadLine
      <3>2. EventsOf(SubSeq(files[file], Reach[file] + 1, LineEnd(file, Reach[file]))) = {}
        BY <1>2, <1>3, <2>1
      <3>3. Sound(files, tx, buf, Onward(file, Reach))
        BY <1>1, <1>2, <3>2, SoundSkips
      <3> QED
        BY <1>1, <3>1, <3>3
    <2>2. CASE EventsOf(line) # {}
      <3>1. PICK e \in EventsOf(line) : tx' = UpsertIocs(tx, e) /\ buf' = Buffer(buf, e)
        BY <1>2, <1>3, <2>2 DEF ReadLine
      <3>2. e \in EventsOf(SubSeq(files[file], Reach[file] + 1, LineEnd(file, Reach[file])))
        BY <1>2, <1>3
      <3>3. PICK u : u = UpsertIocs(tx, e)
        OBVIOUS
      <3>4. PICK c : c = Buffer(buf, e)
        OBVIOUS
      <3>5. e \in Events
        BY DEF EventsOf
      <3>6. Sound(files, u, c, Onward(file, Reach))
        BY <1>1, <1>2, <3>2, <3>3, <3>4, SoundReads
      <3>7. u \in Database /\ Inserted(tx, e, u)
        BY <1>1, <3>3, <3>5, UpsertIocsIs
      <3>8. c \in Maps(Sessions, Seq(Commands))
        BY <1>1, <3>4, <3>5, BufferIs
      <3>9. u.cursor = tx.cursor /\ u.sessions = tx.sessions /\ tx.ips \subseteq u.ips
        BY <3>7 DEF Inserted
      <3> QED
        BY <3>1, <3>3, <3>4, <3>6, <3>7, <3>8, <3>9
    <2> QED
      BY <2>1, <2>2
  <1>5. LineEnd(file, pos) \in (pos + 1)..Len(files[file])
    BY <1>1, <1>2, LineEndIs
  <1>6. TypeOK'
    <2>1. LogTypeOK'
      BY <1>1, <1>2 DEF LogTypeOK
    <2>2. \E R \in SUBSET Sessions : buf' \in [R -> Seq(Commands)]
      BY <1>4 DEF Maps
    <2>3. pos' \in Nat
      BY <1>1, <1>2, <1>5
    <2> QED
      BY <1>1, <1>2, <1>4, <2>1, <2>2, <2>3 DEF TypeOK
  <1>7. Reach' = Onward(file, Reach)
    <2>1. \A d \in Days : (IF d = file THEN pos' ELSE tx.cursor[d])
                             = IF d = file THEN LineEnd(file, Reach[file]) ELSE Reach[d]
      BY <1>2 DEF Reach
    <2>2. Onward(file, Reach) = [d \in Days |-> IF d = file THEN LineEnd(file, Reach[file]) ELSE Reach[d]]
      BY <1>1, <1>2 DEF Onward
    <2>3. Reach' = [d \in Days |-> IF d = file THEN pos' ELSE tx.cursor[d]]
      BY <1>2, <1>4 DEF Reach
    <2> QED
      BY <2>1, <2>2, <2>3
  <1>8. ReaderInv'
    <2>1. \A d \in Days : Reach'[d] <= Len(files[d])
      BY <1>1, <1>2, <1>5, <1>7, ReachFacts DEF Onward
    <2>2. tx.cursor[file] <= pos'
      BY <1>1, <1>2, <1>5 DEF ReaderInv
    <2> QED
      BY <1>1, <1>2, <1>4, <2>1, <2>2 DEF ReaderInv
  <1> QED
    BY <1>1, <1>2, <1>4, <1>6, <1>7, <1>8 DEF IInv

LEMMA CloseFileKeeps ==
  ASSUME IInv, CloseFile
  PROVE  IInv'
  <1>1. /\ TypeOK /\ ReaderInv /\ LogTypeOK
        /\ db \in Database /\ tx \in Database /\ buf \in Maps(Sessions, Seq(Commands))
        /\ \A d \in Days : Len(files[d]) \in Nat
        /\ tx.cursor \in [Days -> Nat] /\ db.cursor \in [Days -> Nat] /\ Reach \in [Days -> Nat]
        /\ Sound(files, db, NoBuf, db.cursor) /\ Sound(files, tx, buf, Reach)
    BY TypeIs DEF IInv
  <1>2. /\ file \in Days /\ at = "lines" /\ pos \in Nat /\ pos = Len(files[file])
        /\ tx.cursor[file] <= pos
        /\ tx' = [UpsertSessions(tx) EXCEPT !.cursor = [@ EXCEPT ![file] = pos]]
        /\ at' = "files" /\ file' = 0 /\ pos' = 0 /\ buf' = NoBuf
        /\ UNCHANGED <<files, today, writing, path, db, todo, due, restarts>>
    BY <1>1 DEF CloseFile, ReaderInv, logVars, TypeOK
  <1>3. PICK r : r = UpsertSessions(tx)
    OBVIOUS
  <1>4. PICK u : u = WithPosition(r, file, pos)
    OBVIOUS
  <1>5. r \in Database /\ Upserted(tx, buf, r)
    BY <1>1, <1>3, UpsertSessionsIs
  <1>6. /\ u \in Database /\ u.cursor = [r.cursor EXCEPT ![file] = pos] /\ u.sids = r.sids
        /\ u.ips = r.ips /\ u.campaigns = r.campaigns /\ u.camps = r.camps /\ u.sessions = r.sessions
    BY <1>2, <1>4, <1>5, WithCursor
  <1>7. Sound(files, u, NoBuf, Reach)
    BY <1>1, <1>3, <1>6, SoundCloses
  <1>8. tx' = u
    BY <1>2, <1>3, <1>4 DEF WithPosition
  <1>9. /\ r.cursor = tx.cursor /\ r.ips = tx.ips
        /\ DOMAIN r.sessions = DOMAIN tx.sessions \cup DOMAIN buf
    BY <1>5 DEF Upserted
  <1>10. TypeOK'
    <2>1. LogTypeOK'
      BY <1>1, <1>2 DEF LogTypeOK
    <2>2. \E R \in SUBSET Sessions : buf' \in [R -> Seq(Commands)]
      BY <1>2, NoBufFacts DEF Maps
    <2> QED
      BY <1>1, <1>2, <1>6, <1>8, <2>1, <2>2 DEF TypeOK
  <1>11. 0 \notin Days
    BY DaysFacts
  <1>12. Reach' = Reach
    <2>1. Reach' = [d \in Days |-> IF d = file' THEN pos' ELSE u.cursor[d]]
      BY <1>8 DEF Reach
    <2>2. \A d \in Days : d # file' /\ u.cursor[d] = IF d = file THEN pos ELSE tx.cursor[d]
      BY <1>1, <1>2, <1>6, <1>9, <1>11
    <2> QED
      BY <2>1, <2>2 DEF Reach
  <1>13. ReaderInv'
    <2>1. \A d \in Days : db.cursor[d] <= u.cursor[d]
      <3>1. \A d \in Days : u.cursor[d] = Reach[d]
        BY <1>1, <1>2, <1>6, <1>9 DEF Reach
      <3> QED
        BY <1>1, <3>1, ReachFacts
    <2> QED
      BY <1>1, <1>2, <1>6, <1>8, <1>9, <1>11, <1>12, <2>1 DEF ReaderInv
  <1> QED
    BY <1>1, <1>2, <1>7, <1>8, <1>10, <1>12, <1>13 DEF IInv

\* A step after which nothing is read that is not committed.
LEMMA Settled ==
  ASSUME TypeOK, files' = files, db' \in Database, tx' = db', buf' = NoBuf, file' = 0,
         NEW cur \in [Days -> Nat], db'.cursor = cur, \A d \in Days : cur[d] <= Len(files[d]),
         at' \in {"poll", "campaigns"}, Sound(files, db', NoBuf, cur), TypeOK'
  PROVE  IInv'
  <1>1. 0 \notin Days
    BY DaysFacts
  <1>2. Reach' = cur
    <2>1. Reach' = [d \in Days |-> IF d = file' THEN pos' ELSE cur[d]]
      BY DEF Reach
    <2> QED
      BY <1>1, <2>1
  <1>3. ReaderInv'
    BY <1>1, <1>2 DEF ReaderInv
  <1> QED
    BY <1>2, <1>3 DEF IInv

LEMMA SettlingKeeps ==
  ASSUME IInv, Commit \/ DetectCampaigns \/ Restart
  PROVE  IInv'
  <1>1. /\ TypeOK /\ ReaderInv /\ LogTypeOK
        /\ db \in Database /\ tx \in Database /\ buf \in Maps(Sessions, Seq(Commands))
        /\ \A d \in Days : Len(files[d]) \in Nat
        /\ tx.cursor \in [Days -> Nat] /\ db.cursor \in [Days -> Nat] /\ Reach \in [Days -> Nat]
        /\ Sound(files, db, NoBuf, db.cursor) /\ Sound(files, tx, buf, Reach)
    BY TypeIs DEF IInv
  <1>2. /\ UNCHANGED <<files, today, writing, path>>
        /\ at' \in {"poll", "campaigns"} /\ tx' = db'
    BY DEF Commit, DetectCampaigns, Restart, logVars
  <1>3. LogTypeOK'
    BY <1>1, <1>2 DEF LogTypeOK
  <1>4. \E R \in SUBSET Sessions : NoBuf \in [R -> Seq(Commands)]
    BY NoBufFacts DEF Maps
  <1>5. \A d \in Days : db.cursor[d] <= Len(files[d]) /\ Reach[d] <= Len(files[d])
    <2>1. ASSUME NEW d \in Days PROVE db.cursor[d] <= Len(files[d]) /\ Reach[d] <= Len(files[d])
      BY <1>1, ReachFacts
    <2> QED
      BY <2>1
  <1>6. CASE Commit
    <2>1. /\ at = "files" /\ db' = tx /\ at' = "campaigns"
          /\ UNCHANGED <<tx, todo, file, pos, buf, due, restarts>>
      BY <1>6 DEF Commit, reader
    <2>2. buf = NoBuf /\ file \notin Days
      BY <1>1, <2>1 DEF ReaderInv
    <2>3. file = 0
      BY <1>1, <2>2 DEF TypeOK
    <2>4. Reach = tx.cursor
      BY <1>1, <2>2 DEF Reach
    <2>5. TypeOK'
      BY <1>1, <1>2, <1>3, <2>1 DEF TypeOK
    <2> QED
      BY <1>1, <1>2, <1>5, <2>1, <2>2, <2>3, <2>4, <2>5, Settled
  <1>7. CASE DetectCampaigns
    <2>1. /\ at = "campaigns" /\ tx' = ReplaceCampaigns(tx) /\ db' = tx' /\ due' = FALSE
          /\ at' = "poll" /\ UNCHANGED <<todo, file, pos, buf, restarts>>
      BY <1>7 DEF DetectCampaigns, reader
    <2>2. buf = NoBuf /\ file \notin Days /\ tx = db
      BY <1>1, <2>1 DEF ReaderInv
    <2>3. file = 0
      BY <1>1, <2>2 DEF TypeOK
    <2>4. PICK r : r = ReplaceCampaigns(db)
      OBVIOUS
    <2>5. Linked(db, NoBuf)
      BY <1>1 DEF Sound
    <2>6. r \in Database /\ r.cursor = db.cursor
      BY <1>1, <2>4, <2>5, ReplaceCampaignsIs
    <2>7. Sound(files, r, NoBuf, db.cursor)
      BY <1>1, <2>4, SoundDetects
    <2>8. db' = r
      BY <2>1, <2>2, <2>4
    <2>9. TypeOK'
      BY <1>1, <1>2, <1>3, <2>1, <2>6, <2>8 DEF TypeOK
    <2> QED
      BY <1>1, <1>2, <1>5, <2>1, <2>2, <2>3, <2>6, <2>7, <2>8, <2>9, Settled
  <1>8. CASE Restart
    <2>1. /\ db' = db /\ at' = "poll" /\ todo' = {} /\ file' = 0 /\ pos' = 0 /\ buf' = NoBuf
          /\ due' = TRUE /\ restarts' = restarts + 1
      BY <1>8 DEF Restart
    <2>2. TypeOK'
      BY <1>1, <1>2, <1>3, <1>4, <2>1 DEF TypeOK
    <2> QED
      BY <1>1, <1>2, <1>5, <2>1, <2>2, Settled
  <1> QED
    BY <1>6, <1>7, <1>8

LEMMA Inductive == IInv /\ [Next]_vars => IInv'
  <1> SUFFICES ASSUME IInv, [Next]_vars PROVE IInv'
    OBVIOUS
  <1>1. CASE ReadLine
    BY <1>1, ReadLineKeeps
  <1>2. CASE CloseFile
    BY <1>2, CloseFileKeeps
  <1>3. CASE Commit \/ DetectCampaigns \/ Restart
    BY <1>3, SettlingKeeps
  <1>4. CASE Honeypot
    BY <1>4, HoneypotKeeps
  <1>5. CASE Poll \/ OpenFile \/ SkipCampaigns \/ CampaignTimer
    BY <1>5, PollKeeps
  <1>6. CASE UNCHANGED vars
    BY <1>6 DEF IInv, vars, logVars, reader, TypeOK, LogTypeOK, ReaderInv, Reach
  <1> QED
    BY <1>1, <1>2, <1>3, <1>4, <1>5, <1>6 DEF Next, Run

LEMMA InitIInv == Init => IInv
  <1> SUFFICES ASSUME Init PROVE IInv
    OBVIOUS
  <1>1. /\ files = [d \in Days |-> <<>>] /\ today = 1
        /\ writing = [e \in Events |-> "new"] /\ path = [e \in Events |-> 0]
        /\ tx = db /\ at = "poll" /\ todo = {} /\ file = 0 /\ pos = 0 /\ buf = NoBuf
        /\ due = TRUE /\ restarts = 0
    BY DEF Init, LogInit
  <1>2. /\ db.cursor = [d \in Days |-> 0] /\ db.sids = [v \in Values |-> <<>>] /\ db.ips = {}
        /\ db.sessions = NoBuf /\ db.campaigns = {} /\ db.camps = {}
        /\ db = [cursor |-> db.cursor, sids |-> db.sids, ips |-> db.ips, sessions |-> db.sessions,
                 campaigns |-> db.campaigns, camps |-> db.camps]
    BY DEF Init, NoBuf
  <1>3. \A S : <<>> \in Seq(S) /\ Len(<<>>) = 0
    BY EmptySeq
  <1>4. ToSet(<<>>) = {}
    <2>1. 1..Len(<<>>) = {}
      BY <1>3
    <2> QED
      BY <1>3, <2>1, ToSetIs
  <1>5. NoBuf \in Maps(Sessions, Seq(Commands)) /\ DOMAIN NoBuf = {}
    BY NoBufFacts
  <1>6. NoBuf \in Maps(Sessions, Lists(Commands, MaxCommands))
    <2>1. NoBuf = [x \in DOMAIN NoBuf |-> NoBuf[x]]
      BY <1>5 DEF NoBuf
    <2> QED
      BY <1>5, <2>1, MapsFacts
  <1>7. <<>> \in Lists(Sessions, MaxSids)
    <2>1. MaxSids \in Nat /\ Len(<<>>) <= MaxSids
      BY <1>3, IWAssumption DEF IWAssumption
    <2> QED
      BY <1>3, <2>1, ListsAre
  <1>8. db \in Database
    BY <1>2, <1>6, <1>7 DEF Database
  <1>9. LogTypeOK
    BY <1>1, <1>3, DaysFacts DEF LogTypeOK
  <1>10. TypeOK
    <2>1. \E R \in SUBSET Sessions : NoBuf \in [R -> Seq(Commands)]
      BY <1>5 DEF Maps
    <2> QED
      BY <1>1, <1>8, <1>9, <2>1 DEF TypeOK
  <1>11. Reach = db.cursor
    BY <1>1, <1>2, DaysFacts DEF Reach
  <1>12. ReaderInv
    BY <1>1, <1>2, <1>3, <1>11, DaysFacts DEF ReaderInv
  <1>13. Sound(files, db, NoBuf, db.cursor)
    <2>1. Complete(files, db, NoBuf, db.cursor)
      <3>1. \A d \in Days : 1..db.cursor[d] = {}
        BY <1>2
      <3> QED
        BY <3>1 DEF Complete
    <2>2. Backed(files, db, NoBuf, db.cursor)
      BY <1>2, <1>5 DEF Backed
    <2>3. Linked(db, NoBuf)
      BY <1>2, <1>4, <1>5 DEF Linked
    <2> QED
      BY <2>1, <2>2, <2>3 DEF Sound
  <1> QED
    BY <1>1, <1>10, <1>11, <1>12, <1>13 DEF IInv

-----------------------------------------------------------------------------
(* The theorems.                                                           *)

LEMMA Invariant == Spec => []IInv
  BY InitIInv, Inductive, PTL DEF Spec

\* Type correctness: every state has the types TypeOK gives, and the tables keep
\* the caps of _MAX_SESSION_IDS and _MAX_SESSION_COMMANDS.
THEOREM TypeCorrect == Spec => []TypeOK
  <1>1. IInv => TypeOK
    BY DEF IInv
  <1> QED
    BY <1>1, Invariant, PTL

\* The database says what the log says up to the committed cursors: no event on a
\* line of its own is skipped (process_file), nothing is there that the cursors do
\* not tell of, and the tables agree.
THEOREM DatabaseIsExact == Spec => []CursorExact
  <1>1. ASSUME IInv PROVE CursorExact
    <2>1. /\ TypeOK /\ ReaderInv /\ Sound(files, db, NoBuf, db.cursor)
          /\ db.cursor \in [Days -> Nat] /\ \A d \in Days : Len(files[d]) \in Nat
      BY <1>1, TypeIs DEF IInv
    <2>2. DOMAIN NoBuf = {}
      BY NoBufFacts
    <2>3. ASSUME NEW e \in Events, NEW d \in Days, NEW i \in 1..(db.cursor[d] - 1), OwnLine(e, d, i)
          PROVE  Recorded(e)
      <3>1. i \in 1..db.cursor[d] /\ db.cursor[d] \in Nat
        BY <2>1
      <3>2. Begins(files, e, d, i)
        BY <2>3 DEF OwnLine, Begins
      <3>3. Noted(db, NoBuf, e)
        BY <2>1, <3>1, <3>2 DEF Sound, Complete
      <3> QED
        BY <2>2, <3>3 DEF Noted, Recorded
    <2>4. \A e \in Events : Seen(files, e, db.cursor) => Passed(e)
      BY DEF Seen, Passed
    <2>5. NothingAhead
      BY <2>1, <2>4 DEF Sound, Backed, Typed, NothingAhead
    <2>6. TablesAgree
      BY <2>1, <2>2 DEF Sound, Linked, TablesAgree
    <2> QED
      BY <2>3, <2>5, <2>6 DEF CursorExact, NothingSkipped
  <1> QED
    BY <1>1, Invariant, PTL

\* Nothing that was committed is taken back, by any poll, detection or restart.
THEOREM NothingTakenBack == Spec => DatabaseGrows
  <1> DEFINE Grows == /\ db.ips \subseteq db'.ips
                      /\ DOMAIN db.sessions \subseteq DOMAIN db'.sessions
                      /\ \A d \in Days : db.cursor[d] <= db'.cursor[d]
  <1>1. ASSUME IInv, [Next]_vars PROVE [Grows]_vars
    <2>1. /\ ReaderInv /\ db \in Database /\ tx \in Database /\ Sound(files, db, NoBuf, db.cursor)
          /\ db.cursor \in [Days -> Nat]
      BY <1>1, TypeIs DEF IInv
    <2>2. CASE db' = db
      BY <2>1, <2>2
    <2>3. CASE Commit
      BY <2>1, <2>3 DEF Commit, ReaderInv
    <2>4. CASE DetectCampaigns
      <3>1. db' = ReplaceCampaigns(db)
        BY <2>1, <2>4 DEF DetectCampaigns, ReaderInv
      <3>2. Linked(db, NoBuf)
        BY <2>1 DEF Sound
      <3>3. db'.ips = db.ips /\ db'.sessions = db.sessions /\ db'.cursor = db.cursor
        BY <2>1, <3>1, <3>2, ReplaceCampaignsIs
      <3> QED
        BY <2>1, <3>3
    <2>5. db' = db \/ Commit \/ DetectCampaigns
      BY <1>1 DEF Next, Run, Poll, OpenFile, ReadLine, CloseFile, SkipCampaigns, Honeypot,
                  CampaignTimer, Restart, vars
    <2> QED
      BY <2>2, <2>3, <2>4, <2>5
  <1>2. Spec => [][Grows]_vars
    BY <1>1, Invariant, PTL DEF Spec
  <1> QED
    BY <1>2 DEF DatabaseGrows

-----------------------------------------------------------------------------
(* The log processor.  Its invariant speaks of the sources as they are     *)
(* being read, when the last line of a file may lack its newline yet.      *)

Source(f, u, s) == IF s = Usage THEN u ELSE f[s]

\* x is the row at position i of source s, or an event whose text starts there ...
StartsAt(f, u, x, s, i) ==
    /\ i \in 1..Len(Source(f, u, s))
    /\ IF s = Usage THEN u[i] = x
       ELSE x \in Events /\ f[s][i] \in {Text(x, "whole"), Text(x, "first")}

\* ... and has, as far as the file goes, the line to itself.
Stood(f, u, x, s, i) ==
    /\ i \in 1..Len(Source(f, u, s))
    /\ IF s = Usage THEN u[i] = x ELSE x \in Events /\ Begins(f, x, s, i)

Written(f, u, x) == \E s \in Sources : \E i \in 1..Len(Source(f, u, s)) : StartsAt(f, u, x, s, i)

\* Each thread writes the text of its event once, into the file that it opened.
WellWritten(f, u, w, p) ==
    /\ \A d \in Days : \A i \in 1..Len(f[d]) :
          f[d][i] # Newline => d = p[f[d][i].of] /\ w[f[d][i].of] \notin {"new", "open"}
    /\ \A d \in Days : \A i, j \in 1..Len(f[d]) :
          (/\ f[d][i] # Newline /\ f[d][i].part \in {"whole", "first"}
           /\ f[d][j] # Newline /\ f[d][j].part \in {"whole", "first"}
           /\ f[d][i].of = f[d][j].of) => i = j
    /\ \A i, j \in 1..Len(u) : u[i] = u[j] => i = j

Reading == doing \in {"read", "push"}

\* How far each source has been read; an abandoned one, as far as it was saved.
ReadTo == [s \in Sources |-> IF s = src /\ Reading THEN head ELSE offset[s]]

Known == ToSet(sent) \cup ToSet(batch) \cup ToSet(buffer) \cup dropped

PlaceInv ==
    /\ (item # None) <=> (doing = "push")
    /\ \A s \in Sources : offset[s] <= ReadTo[s] /\ ReadTo[s] <= Len(Source(files, usage, s))
    /\ Reading /\ src = Usage => head <= rows
    /\ doing = "push" => \E j \in 1..head : StartsAt(files, usage, item, src, j)
    /\ \A x \in Known : Written(files, usage, x)

\* What stands in a source up to where it has been read is in one of some items.
Covered(f, u, upto, items) ==
    \A s \in Sources, x \in Items : \A i \in 1..upto[s] : Stood(f, u, x, s, i) => x \in items

ReadPast(f, u, x, upto) == \E s \in Sources : \E i \in 1..upto[s] : StartsAt(f, u, x, s, i)

TimesInv ==
    \A x \in Items :
        times[x] <= failures + crashes + (IF ReadPast(files, usage, x, ReadTo) THEN 1 ELSE 0)

Before(f, u, x, y) ==
    \E s \in Sources : \E i, j \in 1..Len(Source(f, u, s)) :
        i < j /\ Stood(f, u, x, s, i) /\ StartsAt(f, u, y, s, j)

\* What stands before an element of q is an earlier one, or one of some items.
Ordered(f, u, q, items) ==
    \A m \in 1..Len(q) : \A x \in Items :
        Before(f, u, x, q[m]) => x \in items \/ \E k \in 1..m : q[k] = x

OrderInv ==
    /\ Ordered(files, usage, sent, dropped)
    /\ Ordered(files, usage, batch, dropped \cup ToSet(sent))
    /\ Ordered(files, usage, buffer, dropped \cup ToSet(sent) \cup ToSet(batch))

\* Where the end of a session in a set has been put down after all the items of
\* the session that are of some types, it has not been read.
Closed(f, u, types, sessions, upto) ==
    \A d \in Days, x \in Events : \A j \in 1..Len(f[d]) :
        ( /\ TypeOf[x] = "session_end" /\ SidOf[x] \in sessions
          /\ Stood(f, u, x, d, j)
          /\ \A y \in Items : SidOf[y] = SidOf[x] /\ TypeOf[y] \in types =>
                \E k \in 1..j : Stood(f, u, y, d, k) ) => upto[d] < j

AnyType == {"session_start", "session_end", "other"}

SessionInv ==
    /\ Closed(files, usage, {"session_start"}, active, ReadTo)
    /\ Closed(files, usage, AnyType, acc, ReadTo)

ProcessorIInv ==
    /\ ProcessorTypeOK
    /\ WellWritten(files, usage, writing, path)
    /\ PlaceInv
    /\ Covered(files, usage, offset, Known)
    /\ Covered(files, usage, ReadTo, Known \cup {item})
    /\ TimesInv
    /\ OrderInv
    /\ SessionInv

\* Sources only grow.
Grow(f, u, g, v) ==
    /\ f \in [Days -> Seq(Piece)] /\ g \in [Days -> Seq(Piece)] /\ Longer(f, g)
    /\ u \in Seq(UsageRows) /\ v \in Seq(UsageRows)
    /\ Len(u) <= Len(v) /\ \A i \in 1..Len(u) : v[i] = u[i]

LEMMA SourceFacts ==
  ASSUME NEW s \in Sources
  PROVE  /\ s = Usage \/ s \in Days
         /\ s \in Days => s # Usage
  BY LPAssumption DEF Sources, LPAssumption, Days

LEMMA ItemFacts == /\ \A x \in UsageRows : x \notin Events
                   /\ None \notin Items /\ Items = Events \cup UsageRows
  BY LPAssumption DEF Items, LPAssumption

LEMMA SourceGrows ==
  ASSUME NEW f, NEW u, NEW g, NEW v, Grow(f, u, g, v), NEW s \in Sources
  PROVE  /\ Len(Source(f, u, s)) \in Nat /\ Len(Source(g, v, s)) \in Nat
         /\ Len(Source(f, u, s)) <= Len(Source(g, v, s))
         /\ \A i \in 1..Len(Source(f, u, s)) : Source(g, v, s)[i] = Source(f, u, s)[i]
  <1>1. CASE s = Usage
    BY <1>1, LenProperties DEF Grow, Source
  <1>2. CASE s # Usage
    <2>1. s \in Days
      BY <1>2, SourceFacts
    <2>2. Source(f, u, s) = f[s] /\ Source(g, v, s) = g[s] /\ f[s] \in Seq(Piece) /\ g[s] \in Seq(Piece)
      BY <1>2, <2>1 DEF Source, Grow
    <2>3. Len(f[s]) <= Len(g[s]) /\ \A i \in 1..Len(f[s]) : g[s][i] = f[s][i]
      BY <2>1 DEF Grow, Longer
    <2> QED
      BY <2>2, <2>3, LenProperties
  <1> QED
    BY <1>1, <1>2

LEMMA StartsGrow ==
  ASSUME NEW f, NEW u, NEW g, NEW v, Grow(f, u, g, v), NEW s \in Sources, NEW x,
         NEW i \in 1..Len(Source(f, u, s))
  PROVE  StartsAt(g, v, x, s, i) <=> StartsAt(f, u, x, s, i)
  <1>1. /\ i \in 1..Len(Source(g, v, s))
        /\ Source(g, v, s)[i] = Source(f, u, s)[i]
    BY SourceGrows
  <1>2. CASE s = Usage
    BY <1>1, <1>2 DEF StartsAt, Source
  <1>3. CASE s # Usage
    BY <1>1, <1>3 DEF StartsAt, Source
  <1> QED
    BY <1>2, <1>3

\* What stands alone now, where the source was written before, did so then.
LEMMA StoodBefore ==
  ASSUME NEW f, NEW u, NEW g, NEW v, Grow(f, u, g, v), NEW s \in Sources, NEW x,
         NEW i \in 1..Len(Source(f, u, s)), Stood(g, v, x, s, i)
  PROVE  Stood(f, u, x, s, i)
  <1>1. /\ Len(Source(f, u, s)) \in Nat
        /\ Len(Source(f, u, s)) <= Len(Source(g, v, s))
        /\ \A k \in 1..Len(Source(f, u, s)) : Source(g, v, s)[k] = Source(f, u, s)[k]
        /\ Len(Source(g, v, s)) \in Nat
    BY SourceGrows
  <1>2. CASE s = Usage
    BY <1>1, <1>2 DEF Stood, Source
  <1>3. CASE s # Usage
    <2>1. Source(f, u, s) = f[s] /\ Source(g, v, s) = g[s] /\ x \in Events /\ Begins(g, x, s, i)
      BY <1>3 DEF Source, Stood
    <2>2. f[s][i] = Text(x, "whole")
      BY <1>1, <2>1 DEF Begins
    <2>3. i > 1 => f[s][i - 1] = Newline
      <3>1. i > 1 => i - 1 \in 1..Len(Source(f, u, s))
        BY <1>1
      <3> QED
        BY <1>1, <2>1, <3>1 DEF Begins
    <2>4. i < Len(f[s]) => f[s][i + 1] = Newline
      <3>1. i < Len(f[s]) => (i + 1 \in 1..Len(Source(f, u, s)) /\ i < Len(g[s]))
        BY <1>1, <2>1
      <3> QED
        BY <1>1, <2>1, <3>1 DEF Begins
    <2> QED
      BY <1>3, <2>1, <2>2, <2>3, <2>4 DEF Stood, Begins
  <1> QED
    BY <1>2, <1>3

LEMMA StoodStarts ==
  ASSUME NEW f, NEW u, NEW x, NEW s, NEW i, Stood(f, u, x, s, i)
  PROVE  StartsAt(f, u, x, s, i)
  BY DEF Stood, StartsAt, Begins

\* What the code calls a complete line stands alone.
LEMMA StandsStood ==
  ASSUME LogTypeOK, NEW s \in Sources, NEW x \in Items, NEW i \in Places(s), StandsAt(x, s, i)
  PROVE  i \in 1..Len(Source(files, usage, s)) /\ Stood(files, usage, x, s, i)
  <1>1. i \in 1..Len(Source(files, usage, s))
    BY DEF Places, Source
  <1>2. CASE s = Usage
    BY <1>1, <1>2 DEF StandsAt, Stood
  <1>3. CASE s # Usage
    BY <1>1, <1>3 DEF StandsAt, Stood, OwnLine, Begins
  <1> QED
    BY <1>2, <1>3

\* An item starts in one place.
LEMMA StartsOnce ==
  ASSUME NEW f \in [Days -> Seq(Piece)], NEW u \in Seq(UsageRows), NEW w, NEW p,
         WellWritten(f, u, w, p), NEW x,
         NEW s \in Sources, NEW i, StartsAt(f, u, x, s, i),
         NEW t \in Sources, NEW j, StartsAt(f, u, x, t, j)
  PROVE  s = t /\ i = j
  <1>1. CASE s = Usage
    <2>1. i \in 1..Len(u) /\ u[i] = x /\ x \notin Events
      BY <1>1, ItemFacts, LenProperties, ElementOfSeq DEF StartsAt, Source
    <2>2. t = Usage /\ j \in 1..Len(u) /\ u[j] = x
      BY <2>1 DEF StartsAt, Source
    <2> QED
      BY <1>1, <2>1, <2>2 DEF WellWritten
  <1>2. CASE s # Usage
    <2>1. s \in Days /\ x \in Events /\ i \in 1..Len(f[s]) /\ f[s][i] \in {Text(x, "whole"), Text(x, "first")}
      BY <1>2, SourceFacts DEF StartsAt, Source
    <2>2. t # Usage
      <3>1. SUFFICES ASSUME t = Usage PROVE FALSE
        OBVIOUS
      <3>2. x \in UsageRows
        BY <3>1, LenProperties, ElementOfSeq DEF StartsAt, Source
      <3> QED
        BY <2>1, <3>2, ItemFacts
    <2>3. t \in Days /\ j \in 1..Len(f[t]) /\ f[t][j] \in {Text(x, "whole"), Text(x, "first")}
      BY <2>2, SourceFacts DEF StartsAt, Source
    <2>4. \A part \in {"whole", "first"} :
             Text(x, part) # Newline /\ Text(x, part).of = x /\ Text(x, part).part = part
      BY <2>1, ELAssumption DEF ELAssumption, Text
    <2>5. s = p[x] /\ t = p[x]
      BY <2>1, <2>3, <2>4 DEF WellWritten
    <2>6. i = j
      BY <2>1, <2>3, <2>4, <2>5 DEF WellWritten
    <2> QED
      BY <2>5, <2>6
  <1> QED
    BY <1>1, <1>2

\* The piece begins the text of an event.
IsStart(a) == a # Newline /\ a.part \in {"whole", "first"}

LEMMA WritesOnce ==
  ASSUME LogTypeOK, WellWritten(files, usage, writing, path),
         NEW e \in Events, NEW from \in {"open", "rest", "flush"}, NEW to \in {"rest", "flush", "logged"},
         NEW pieces \in Seq(Piece), Writes(e, from, to, pieces),
         \A k \in 1..Len(pieces) : pieces[k] # Newline => pieces[k].of = e,
         \A k, l \in 1..Len(pieces) : IsStart(pieces[k]) /\ IsStart(pieces[l]) => k = l,
         from # "open" => \A k \in 1..Len(pieces) : ~ IsStart(pieces[k])
  PROVE  WellWritten(files', usage, writing', path')
  <1> DEFINE D == path[e]
             q == files[D]
             n == Len(q)
             r == files'[D]
  <1>1. /\ D \in Days /\ files \in [Days -> Seq(Piece)] /\ path' = path
        /\ writing' = [writing EXCEPT ![e] = to] /\ writing[e] = from
        /\ files' = [files EXCEPT ![D] = q \o pieces]
        /\ writing \in [Events -> {"new", "open", "rest", "flush", "logged"}]
    BY DEF LogTypeOK, Writes
  <1>2. /\ q \in Seq(Piece) /\ n \in Nat /\ Len(pieces) \in Nat
        /\ r = q \o pieces
        /\ \A d \in Days : d # D => files'[d] = files[d]
    BY <1>1, LenProperties
  <1> HIDE DEF D, q, n, r
  <1>3. /\ Len(r) = n + Len(pieces)
        /\ \A i \in 1..(n + Len(pieces)) : r[i] = IF i <= n THEN q[i] ELSE pieces[i - n]
    BY <1>2, ConcatProperties, LenProperties DEF n
  <1>4. ASSUME NEW i \in 1..Len(r), i > n
        PROVE  i - n \in 1..Len(pieces) /\ r[i] = pieces[i - n]
    BY <1>2, <1>3, <1>4
  <1>5. ASSUME NEW i \in 1..Len(r), ~ (i > n)
        PROVE  i \in 1..n /\ r[i] = q[i]
    BY <1>2, <1>3, <1>5
  <1>6. ASSUME NEW d \in Days, NEW i \in 1..Len(files[d]), files[d][i] # Newline
        PROVE  /\ d = path[files[d][i].of] /\ writing[files[d][i].of] \notin {"new", "open"}
               /\ files[d][i].of \in Events
    <2>1. files[d][i] \in Piece
      BY <1>1, LenProperties, ElementOfSeq
    <2> QED
      BY <1>6, <2>1 DEF WellWritten, Piece
  <1>7. ASSUME NEW d \in Days, NEW i \in 1..Len(files'[d]), files'[d][i] # Newline
        PROVE  d = path'[files'[d][i].of] /\ writing'[files'[d][i].of] \notin {"new", "open"}
    <2>1. CASE d # D
      BY <1>1, <1>2, <1>6, <1>7, <2>1
    <2>2. CASE d = D /\ i > n
      <3>1. files'[d][i].of = e
        BY <1>4, <1>7, <2>2 DEF r
      <3> QED
        BY <1>1, <2>2, <3>1 DEF D
    <2>3. CASE d = D /\ ~ (i > n)
      <3>1. i \in 1..Len(files[d]) /\ files'[d][i] = files[d][i]
        BY <1>5, <2>3 DEF r, q, n
      <3> QED
        BY <1>1, <1>6, <1>7, <3>1
    <2> QED
      BY <2>1, <2>2, <2>3
  <1>8. ASSUME NEW i \in 1..Len(r), NEW j \in 1..Len(r), IsStart(r[i]), IsStart(r[j]),
               r[i].of = r[j].of, i > n, ~ (j > n)
        PROVE  FALSE
    <2>1. i - n \in 1..Len(pieces) /\ r[i] = pieces[i - n] /\ j \in 1..n /\ r[j] = q[j]
      BY <1>4, <1>5, <1>8
    <2>2. from = "open" /\ q[j].of = e
      BY <1>8, <2>1 DEF IsStart
    <2>3. writing[e] \notin {"new", "open"}
      BY <1>1, <1>6, <1>8, <2>1, <2>2 DEF IsStart, q, n
    <2> QED
      BY <1>1, <2>2, <2>3
  <1>9. ASSUME NEW d \in Days, NEW i \in 1..Len(files'[d]), NEW j \in 1..Len(files'[d]),
               IsStart(files'[d][i]), IsStart(files'[d][j]), files'[d][i].of = files'[d][j].of
        PROVE  i = j
    <2>1. CASE d # D
      <3>1. files'[d] = files[d]
        BY <1>2, <2>1
      <3> QED
        BY <1>9, <3>1 DEF WellWritten, IsStart
    <2>2. CASE d = D
      <3>1. i \in 1..Len(r) /\ j \in 1..Len(r) /\ IsStart(r[i]) /\ IsStart(r[j]) /\ r[i].of = r[j].of
        BY <1>9, <2>2 DEF r
      <3>2. CASE i > n /\ j > n
        <4>1. i - n = j - n
          BY <1>4, <3>1, <3>2
        <4> QED
          BY <1>2, <1>3, <3>1, <4>1
      <3>3. CASE ~ (i > n) /\ ~ (j > n)
        <4>1. i \in 1..n /\ j \in 1..n /\ r[i] = q[i] /\ r[j] = q[j]
          BY <1>5, <3>1, <3>3
        <4>2. \A k, l \in 1..n : IsStart(q[k]) /\ IsStart(q[l]) /\ q[k].of = q[l].of => k = l
          BY <1>1 DEF WellWritten, IsStart, q, n
        <4>3. IsStart(q[i]) /\ IsStart(q[j]) /\ q[i].of = q[j].of
          BY <3>1, <4>1
        <4> QED
          BY <4>1, <4>2, <4>3
      <3> QED
        BY <1>8, <3>1, <3>2, <3>3
    <2> QED
      BY <2>1, <2>2
  <1> QED
    BY <1>7, <1>9 DEF WellWritten, IsStart

LEMMA LogWritesOnce ==
  ASSUME LogTypeOK, WellWritten(files, usage, writing, path), Midnight \/ \E e \in Events : Log(e)
  PROVE  WellWritten(files', usage, writing', path')
  <1>1. CASE Midnight
    BY <1>1 DEF Midnight
  <1>2. ASSUME NEW e \in Events, Log(e) PROVE WellWritten(files', usage, writing', path')
    <2>1. CASE OpenLog(e)
      <3>1. /\ files' = files /\ writing' = [writing EXCEPT ![e] = "open"] /\ path' = [path EXCEPT ![e] = today]
            /\ writing[e] = "new" /\ writing \in [Events -> {"new", "open", "rest", "flush", "logged"}]
            /\ path \in [Events -> Days \cup {0}] /\ files \in [Days -> Seq(Piece)]
        BY <2>1 DEF OpenLog, LogTypeOK
      <3>2. ASSUME NEW d \in Days, NEW i \in 1..Len(files[d]), files[d][i] # Newline
            PROVE  d = path'[files[d][i].of] /\ writing'[files[d][i].of] \notin {"new", "open"}
        <4>1. files[d][i] \in Piece
          BY <3>1, LenProperties, ElementOfSeq
        <4>2. /\ d = path[files[d][i].of] /\ writing[files[d][i].of] \notin {"new", "open"}
              /\ files[d][i].of \in Events
          BY <3>2, <4>1 DEF WellWritten, Piece
        <4> QED
          BY <3>1, <4>2
      <3> QED
        BY <3>1, <3>2 DEF WellWritten
    <2>2. /\ Text(e, "whole") \in Piece /\ Text(e, "first") \in Piece /\ Text(e, "rest") \in Piece
          /\ Newline \in Piece
          /\ \A part \in {"whole", "first", "rest"} :
                Text(e, part) # Newline /\ Text(e, part).of = e /\ Text(e, part).part = part
      BY TextFacts DEF Piece, Text
    <2> HIDE DEF Piece
    <2>3. CASE WriteLine(e)
      <3> DEFINE t == <<Text(e, "whole"), Newline>>
      <3>1. t \in Seq(Piece) /\ Len(t) = 2 /\ t[1] = Text(e, "whole") /\ t[2] = Newline
        BY <2>2
      <3>2. Writes(e, "open", "logged", t)
        BY <2>3 DEF WriteLine
      <3> HIDE DEF t
      <3>3. \A k \in 1..Len(t) : k = 1 \/ k = 2
        BY <3>1
      <3> QED
        BY <2>2, <3>1, <3>2, <3>3, WritesOnce DEF IsStart
    <2>4. ASSUME NEW part \in {"whole", "first", "rest"}, NEW from \in {"open", "rest"},
                 NEW to \in {"rest", "flush"}, from # "open" => part = "rest",
                 Writes(e, from, to, <<Text(e, part)>>)
          PROVE  WellWritten(files', usage, writing', path')
      <3> DEFINE t == <<Text(e, part)>>
      <3>1. t \in Seq(Piece) /\ Len(t) = 1 /\ t[1] = Text(e, part)
        BY <2>2
      <3>2. Writes(e, from, to, t)
        BY <2>4
      <3> HIDE DEF t
      <3>3. \A k \in 1..Len(t) : k = 1
        BY <3>1
      <3>4. \A k \in 1..Len(t) : t[k].of = e /\ (IsStart(t[k]) => part # "rest")
        BY <2>2, <3>1, <3>3 DEF IsStart
      <3> QED
        BY <2>4, <3>1, <3>2, <3>3, <3>4, WritesOnce
    <2>5. CASE WriteText(e)
      BY <2>4, <2>5 DEF WriteText
    <2>6. CASE FlushNewline(e)
      <3> DEFINE t == <<Newline>>
      <3>1. t \in Seq(Piece) /\ Len(t) = 1 /\ t[1] = Newline
        BY <2>2
      <3>2. Writes(e, "flush", "logged", t)
        BY <2>6 DEF FlushNewline
      <3> HIDE DEF t
      <3>3. \A k \in 1..Len(t) : t[k] = Newline
        BY <3>1
      <3> QED
        BY <3>1, <3>2, <3>3, WritesOnce DEF IsStart
    <2> QED
      BY <1>2, <2>1, <2>3, <2>5, <2>6 DEF Log
  <1> QED
    BY <1>1, <1>2

LEMMA UsageWritesOnce ==
  ASSUME LogTypeOK, usage \in Seq(UsageRows), WellWritten(files, usage, writing, path),
         NEW r \in UsageRows, r \notin ToSet(usage), usage' = Append(usage, r)
  PROVE  /\ WellWritten(files, usage', writing, path) /\ usage' \in Seq(UsageRows)
         /\ Grow(files, usage, files, usage')
  <1>1. /\ usage' \in Seq(UsageRows) /\ Len(usage') = Len(usage) + 1 /\ usage'[Len(usage) + 1] = r
        /\ \A i \in 1..Len(usage) : usage'[i] = usage[i]
        /\ Len(usage) \in Nat
    BY AppendProperties, LenProperties
  <1>2. \A i \in 1..Len(usage) : usage[i] # r
    BY ToSetIs
  <1>3. \A i, j \in 1..Len(usage') : usage'[i] = usage'[j] => i = j
    BY <1>1, <1>2 DEF WellWritten
  <1>4. Longer(files, files) /\ files \in [Days -> Seq(Piece)]
    BY LenProperties DEF LogTypeOK, Longer
  <1> QED
    BY <1>1, <1>3, <1>4 DEF WellWritten, Grow

-----------------------------------------------------------------------------
(* The parts of the invariant, as the sources grow.                        *)

LEMMA CoveredGrows ==
  ASSUME NEW f, NEW u, NEW g, NEW v, Grow(f, u, g, v), NEW upto \in [Sources -> Nat],
         \A s \in Sources : upto[s] <= Len(Source(f, u, s)),
         NEW items, Covered(f, u, upto, items)
  PROVE  Covered(g, v, upto, items)
  <1> SUFFICES ASSUME NEW s \in Sources, NEW x \in Items, NEW i \in 1..upto[s], Stood(g, v, x, s, i)
               PROVE  x \in items
    BY DEF Covered
  <1>1. i \in 1..Len(Source(f, u, s))
    BY SourceGrows
  <1>2. Stood(f, u, x, s, i)
    BY <1>1, StoodBefore
  <1> QED
    BY <1>2 DEF Covered

LEMMA ReadPastGrows ==
  ASSUME NEW f, NEW u, NEW g, NEW v, Grow(f, u, g, v), NEW upto \in [Sources -> Nat],
         \A s \in Sources : upto[s] <= Len(Source(f, u, s)), NEW x
  PROVE  ReadPast(g, v, x, upto) <=> ReadPast(f, u, x, upto)
  <1>1. \A s \in Sources : \A i \in 1..upto[s] : StartsAt(g, v, x, s, i) <=> StartsAt(f, u, x, s, i)
    <2> TAKE s \in Sources
    <2> TAKE i \in 1..upto[s]
    <2>1. i \in 1..Len(Source(f, u, s))
      BY SourceGrows
    <2> QED
      BY <2>1, StartsGrow
  <1> QED
    BY <1>1 DEF ReadPast

LEMMA WrittenGrows ==
  ASSUME NEW f, NEW u, NEW g, NEW v, Grow(f, u, g, v), NEW x, Written(f, u, x)
  PROVE  Written(g, v, x)
  <1>1. PICK s \in Sources : \E i \in 1..Len(Source(f, u, s)) : StartsAt(f, u, x, s, i)
    BY DEF Written
  <1>2. PICK i \in 1..Len(Source(f, u, s)) : StartsAt(f, u, x, s, i)
    BY <1>1
  <1>3. StartsAt(g, v, x, s, i) /\ i \in 1..Len(Source(g, v, s))
    BY <1>2, StartsGrow, SourceGrows
  <1> QED
    BY <1>3 DEF Written

LEMMA OrderedGrows ==
  ASSUME NEW f, NEW u, NEW g, NEW v, Grow(f, u, g, v), NEW w, NEW p, WellWritten(g, v, w, p),
         NEW q, NEW items, \A m \in 1..Len(q) : Written(f, u, q[m]), Ordered(f, u, q, items)
  PROVE  Ordered(g, v, q, items)
  <1> SUFFICES ASSUME NEW m \in 1..Len(q), NEW x \in Items, Before(g, v, x, q[m])
               PROVE  x \in items \/ \E k \in 1..m : q[k] = x
    BY DEF Ordered
  <1>1. PICK s \in Sources : \E i, j \in 1..Len(Source(g, v, s)) :
            i < j /\ Stood(g, v, x, s, i) /\ StartsAt(g, v, q[m], s, j)
    BY DEF Before
  <1>2. PICK i \in 1..Len(Source(g, v, s)), j \in 1..Len(Source(g, v, s)) :
            i < j /\ Stood(g, v, x, s, i) /\ StartsAt(g, v, q[m], s, j)
    BY <1>1
  <1>3. PICK t \in Sources : \E k \in 1..Len(Source(f, u, t)) : StartsAt(f, u, q[m], t, k)
    BY DEF Written
  <1>4. PICK k \in 1..Len(Source(f, u, t)) : StartsAt(f, u, q[m], t, k)
    BY <1>3
  <1>5. StartsAt(g, v, q[m], t, k)
    BY <1>4, StartsGrow
  <1>6. t = s /\ k = j
    BY <1>2, <1>5, StartsOnce DEF Grow
  <1>7. i \in 1..Len(Source(f, u, s)) /\ j \in 1..Len(Source(f, u, s))
    BY <1>2, <1>4, <1>6, SourceGrows
  <1>8. Stood(f, u, x, s, i)
    BY <1>2, <1>7, StoodBefore
  <1>9. Before(f, u, x, q[m])
    BY <1>2, <1>4, <1>6, <1>7, <1>8 DEF Before
  <1> QED
    BY <1>9 DEF Ordered

LEMMA ClosedGrows ==
  ASSUME NEW f, NEW u, NEW g, NEW v, Grow(f, u, g, v), NEW upto \in [Sources -> Nat],
         \A s \in Sources : upto[s] <= Len(Source(f, u, s)),
         NEW types, NEW sessions, Closed(f, u, types, sessions, upto)
  PROVE  Closed(g, v, types, sessions, upto)
  <1> SUFFICES ASSUME NEW d \in Days, NEW x \in Events, NEW j \in 1..Len(g[d]),
                      TypeOf[x] = "session_end", SidOf[x] \in sessions, Stood(g, v, x, d, j),
                      \A y \in Items : SidOf[y] = SidOf[x] /\ TypeOf[y] \in types =>
                         \E k \in 1..j : Stood(g, v, y, d, k),
                      ~ (upto[d] < j)
               PROVE  FALSE
    BY DEF Closed
  <1>1. d \in Sources /\ d # Usage /\ Source(f, u, d) = f[d]
    BY SourceFacts DEF Sources, Source
  <1>2. j \in 1..Len(f[d]) /\ Len(f[d]) \in Nat
    <2>1. upto[d] \in Nat /\ upto[d] <= Len(f[d]) /\ Len(f[d]) \in Nat
      BY <1>1, SourceGrows
    <2>2. Len(g[d]) \in Nat
      BY LenProperties DEF Grow
    <2> QED
      BY <2>1, <2>2
  <1>3. Stood(f, u, x, d, j)
    BY <1>1, <1>2, StoodBefore
  <1>4. ASSUME NEW y \in Items, SidOf[y] = SidOf[x] /\ TypeOf[y] \in types
        PROVE  \E k \in 1..j : Stood(f, u, y, d, k)
    <2>1. PICK k \in 1..j : Stood(g, v, y, d, k)
      BY <1>4
    <2>2. k \in 1..Len(Source(f, u, d))
      BY <1>1, <1>2
    <2> QED
      BY <1>1, <2>1, <2>2, StoodBefore
  <1>5. upto[d] < j
    BY <1>2, <1>3, <1>4 DEF Closed
  <1> QED
    BY <1>5

-----------------------------------------------------------------------------
(* The parts of the invariant, as a source is read.                        *)

\* Where the reader is inside a source.
AtLine ==
    /\ LogTypeOK /\ usage \in Seq(UsageRows) /\ src \in Sources /\ head \in Nat /\ rows \in 0..Len(usage)
    /\ head <= Len(Source(files, usage, src)) /\ (src = Usage => head <= rows)
    /\ ~ AtEnd

LEMMA ReadIs ==
  ASSUME AtLine
  PROVE  /\ NextPos \in (head + 1)..Len(Source(files, usage, src)) /\ (src = Usage => NextPos <= rows)
         /\ \A e \in Read : e \in Items /\ StartsAt(files, usage, e, src, head + 1)
         /\ \A e, x \in Read : e = x
         /\ \A x \in Items : \A i \in (head + 1)..NextPos : Stood(files, usage, x, src, i) => x \in Read
  <1>1. CASE src = Usage
    <2>1. /\ Len(usage) \in Nat /\ head < rows /\ rows <= Len(usage) /\ NextPos = head + 1
          /\ Read = {usage[head + 1]} /\ Source(files, usage, src) = usage
      BY <1>1, LenProperties DEF AtLine, AtEnd, NextPos, Read, Source
    <2>2. usage[head + 1] \in Items
      BY <2>1, LenProperties, ElementOfSeq DEF AtLine, Items
    <2>3. \A i \in (head + 1)..NextPos : i = head + 1
      BY <2>1 DEF AtLine
    <2> QED
      BY <1>1, <2>1, <2>2, <2>3 DEF AtLine, StartsAt, Stood
  <1>2. CASE src # Usage
    <2>1. /\ src \in Days /\ Source(files, usage, src) = files[src] /\ files[src] \in Seq(Piece)
          /\ Len(files[src]) \in Nat /\ head < Len(files[src]) /\ head \in Nat
          /\ NextPos = LineEnd(src, head)
          /\ Read = EventsOf(SubSeq(files[src], head + 1, NextPos))
      <3>1. src \in Days
        BY <1>2, SourceFacts DEF AtLine
      <3>2. files[src] \in Seq(Piece)
        BY <3>1 DEF AtLine, LogTypeOK
      <3> QED
        BY <1>2, <3>1, <3>2, LenProperties DEF AtLine, AtEnd, NextPos, Read, Source
    <2>2. NextPos \in (head + 1)..Len(files[src])
      BY <2>1, LineEndIs DEF AtLine
    <2>3. ASSUME NEW e \in Read
          PROVE  /\ e \in Events /\ files[src][head + 1] # Newline /\ files[src][head + 1].of = e
                 /\ files[src][head + 1] \in {Text(e, "whole"), Text(e, "first")}
      BY <2>1, <2>2, LineSpells
    <2>4. \A e \in Read : e \in Items /\ StartsAt(files, usage, e, src, head + 1)
      BY <1>2, <2>1, <2>3 DEF Items, StartsAt
    <2>5. ASSUME NEW x \in Items, NEW i \in (head + 1)..NextPos, Stood(files, usage, x, src, i)
          PROVE  x \in Read
      <3>1. x \in Events /\ Begins(files, x, src, i)
        BY <1>2, <2>5 DEF Stood
      <3> QED
        BY <2>1, <2>5, <3>1, OwnLineRead DEF AtLine
    <2> QED
      BY <1>2, <2>1, <2>2, <2>3, <2>4, <2>5
  <1> QED
    BY <1>1, <1>2

\* upto is a position in each source, and in src the beginning of the line.
Positions(upto) ==
    /\ upto \in [Sources -> Nat] /\ upto[src] = head
    /\ \A s \in Sources : upto[s] <= Len(Source(files, usage, s))

\* The line has been read.
Onto(upto, later) ==
    later \in [Sources -> Nat] /\ \A s \in Sources : later[s] = IF s = src THEN NextPos ELSE upto[s]

LEMMA CoveredReads ==
  ASSUME AtLine, NEW upto, Positions(upto), NEW later, Onto(upto, later),
         NEW items, Covered(files, usage, upto, items)
  PROVE  Covered(files, usage, later, items \cup Read)
  <1> SUFFICES ASSUME NEW s \in Sources, NEW x \in Items, NEW i \in 1..later[s], Stood(files, usage, x, s, i)
               PROVE  x \in items \cup Read
    BY DEF Covered
  <1>1. upto[s] \in Nat /\ later[s] \in Nat /\ head \in Nat
    BY DEF Positions, Onto, AtLine
  <1>2. CASE i \in 1..upto[s]
    BY <1>2 DEF Covered
  <1>3. CASE ~ (i \in 1..upto[s])
    <2>1. s = src /\ later[s] = NextPos /\ upto[s] = head
      BY <1>1, <1>3 DEF Onto, Positions
    <2>2. i \in (head + 1)..NextPos
      BY <1>1, <1>3, <2>1
    <2> QED
      BY <2>1, <2>2, ReadIs
  <1> QED
    BY <1>2, <1>3

LEMMA ReadPastReads ==
  ASSUME AtLine, WellWritten(files, usage, writing, path), NEW upto, Positions(upto), NEW later, Onto(upto, later)
  PROVE  /\ \A x : ReadPast(files, usage, x, upto) => ReadPast(files, usage, x, later)
         /\ \A e \in Read : ~ ReadPast(files, usage, e, upto) /\ ReadPast(files, usage, e, later)
  <1>1. NextPos \in (head + 1)..Len(Source(files, usage, src)) /\ head \in Nat /\ src \in Sources
    BY ReadIs DEF AtLine
  <1>2. \A s \in Sources : \A i \in 1..upto[s] : i \in 1..later[s]
    BY <1>1 DEF Onto, Positions
  <1>3. ASSUME NEW e \in Read PROVE ~ ReadPast(files, usage, e, upto) /\ ReadPast(files, usage, e, later)
    <2>1. StartsAt(files, usage, e, src, head + 1)
      BY ReadIs
    <2>2. head + 1 \in 1..later[src]
      BY <1>1 DEF Onto
    <2>3. ASSUME NEW s \in Sources, NEW i \in 1..upto[s], StartsAt(files, usage, e, s, i) PROVE FALSE
      <3>1. s = src /\ i = head + 1
        BY <1>1, <2>1, <2>3, StartsOnce DEF AtLine, LogTypeOK
      <3> QED
        BY <1>1, <2>3, <3>1 DEF Positions
    <2> QED
      BY <1>1, <2>1, <2>2, <2>3 DEF ReadPast
  <1>4. \A x : ReadPast(files, usage, x, upto) => ReadPast(files, usage, x, later)
    BY <1>2 DEF ReadPast
  <1> QED
    BY <1>3, <1>4

\* Before an item is read, its session may be remembered ...
LEMMA ClosedOpens ==
  ASSUME AtLine, WellWritten(files, usage, writing, path), NEW upto, Positions(upto),
         NEW types, NEW sessions, Closed(files, usage, types, sessions, upto),
         NEW e \in Read, TypeOf[e] \in types
  PROVE  Closed(files, usage, types, sessions \cup {SidOf[e]}, upto)
  <1> SUFFICES ASSUME NEW d \in Days, NEW x \in Events, NEW j \in 1..Len(files[d]),
                      TypeOf[x] = "session_end", SidOf[x] \in sessions \cup {SidOf[e]},
                      Stood(files, usage, x, d, j),
                      \A y \in Items : SidOf[y] = SidOf[x] /\ TypeOf[y] \in types =>
                         \E k \in 1..j : Stood(files, usage, y, d, k)
               PROVE  upto[d] < j
    BY DEF Closed
  <1>1. CASE SidOf[x] \in sessions
    BY <1>1 DEF Closed
  <1>2. CASE SidOf[x] = SidOf[e]
    <2>1. e \in Items /\ StartsAt(files, usage, e, src, head + 1)
      BY ReadIs
    <2>2. PICK k \in 1..j : Stood(files, usage, e, d, k)
      BY <1>2, <2>1
    <2>3. StartsAt(files, usage, e, d, k) /\ d \in Sources
      BY <2>2, StoodStarts DEF Sources
    <2>4. d = src /\ k = head + 1
      BY <2>1, <2>3, StartsOnce DEF AtLine, LogTypeOK
    <2>5. Len(files[d]) \in Nat
      BY LenProperties DEF AtLine, LogTypeOK
    <2> QED
      BY <2>2, <2>4, <2>5 DEF Positions, AtLine
  <1> QED
    BY <1>1, <1>2

\* ... and as the line is read, unless it ends the session.
LEMMA ClosedReads ==
  ASSUME AtLine, NEW upto, Positions(upto), NEW later, Onto(upto, later),
         NEW types, NEW sessions, Closed(files, usage, types, sessions, upto),
         \A e \in Read : TypeOf[e] = "session_end" => SidOf[e] \notin sessions
  PROVE  Closed(files, usage, types, sessions, later)
  <1> SUFFICES ASSUME NEW d \in Days, NEW x \in Events, NEW j \in 1..Len(files[d]),
                      TypeOf[x] = "session_end", SidOf[x] \in sessions,
                      Stood(files, usage, x, d, j),
                      \A y \in Items : SidOf[y] = SidOf[x] /\ TypeOf[y] \in types =>
                         \E k \in 1..j : Stood(files, usage, y, d, k),
                      ~ (later[d] < j)
               PROVE  FALSE
    BY DEF Closed
  <1>1. upto[d] < j
    BY DEF Closed
  <1>2. d \in Sources /\ upto[d] \in Nat /\ later[d] \in Nat /\ Len(files[d]) \in Nat
    BY LenProperties DEF Sources, Positions, Onto, AtLine, LogTypeOK
  <1>3. d = src /\ upto[d] = head /\ later[d] = NextPos
    BY <1>1, <1>2 DEF Onto, Positions
  <1>4. j \in (head + 1)..NextPos /\ x \in Items
    BY <1>1, <1>2, <1>3 DEF Items
  <1>5. x \in Read
    BY <1>3, <1>4, ReadIs
  <1> QED
    BY <1>5

LEMMA ClosedLess ==
  ASSUME NEW f \in [Days -> Seq(Piece)], NEW u, NEW upto \in [Sources -> Nat], NEW less \in [Sources -> Nat],
         \A s \in Sources : less[s] <= upto[s],
         NEW types, NEW sessions, NEW fewer \in SUBSET sessions, Closed(f, u, types, sessions, upto)
  PROVE  Closed(f, u, types, fewer, less)
  <1> SUFFICES ASSUME NEW d \in Days, NEW x \in Events, NEW j \in 1..Len(f[d]),
                      TypeOf[x] = "session_end", SidOf[x] \in fewer,
                      Stood(f, u, x, d, j),
                      \A y \in Items : SidOf[y] = SidOf[x] /\ TypeOf[y] \in types =>
                         \E k \in 1..j : Stood(f, u, y, d, k)
               PROVE  less[d] < j
    BY DEF Closed
  <1>1. upto[d] < j
    BY DEF Closed
  <1>2. d \in Sources /\ upto[d] \in Nat /\ less[d] \in Nat /\ Len(f[d]) \in Nat
    BY LenProperties DEF Sources
  <1> QED
    BY <1>1, <1>2

-----------------------------------------------------------------------------
(* What is pushed, in order.                                               *)

LEMMA OrderedMore ==
  ASSUME NEW f, NEW u, NEW q, NEW items, NEW more, items \subseteq more, Ordered(f, u, q, items)
  PROVE  Ordered(f, u, q, more)
  BY DEF Ordered

LEMMA OrderedEmpty ==
  ASSUME NEW f, NEW u, NEW items
  PROVE  Ordered(f, u, <<>>, items)
  BY DEF Ordered

LEMMA OrderedConcat ==
  ASSUME NEW f, NEW u, NEW q \in Seq(Items), NEW r \in Seq(Items), NEW items,
         Ordered(f, u, q, items), Ordered(f, u, r, items \cup ToSet(q))
  PROVE  Ordered(f, u, q \o r, items)
  <1> DEFINE w == q \o r
  <1>1. /\ w \in Seq(Items) /\ Len(w) = Len(q) + Len(r) /\ Len(q) \in Nat /\ Len(r) \in Nat
        /\ \A i \in 1..(Len(q) + Len(r)) : w[i] = IF i <= Len(q) THEN q[i] ELSE r[i - Len(q)]
    BY ConcatProperties, LenProperties
  <1> HIDE DEF w
  <1>2. ASSUME NEW m \in 1..Len(w), NEW x \in Items, Before(f, u, x, w[m])
        PROVE  x \in items \/ \E k \in 1..m : w[k] = x
    <2>1. CASE m <= Len(q)
      <3>1. m \in 1..Len(q) /\ w[m] = q[m]
        BY <1>1, <2>1
      <3>2. x \in items \/ \E k \in 1..m : q[k] = x
        BY <1>2, <3>1 DEF Ordered
      <3>3. \A k \in 1..m : w[k] = q[k]
        BY <1>1, <3>1
      <3> QED
        BY <3>2, <3>3
    <2>2. CASE ~ (m <= Len(q))
      <3>1. m - Len(q) \in 1..Len(r) /\ w[m] = r[m - Len(q)]
        BY <1>1, <2>2
      <3>2. x \in items \cup ToSet(q) \/ \E k \in 1..(m - Len(q)) : r[k] = x
        BY <1>2, <3>1 DEF Ordered
      <3>3. CASE x \in ToSet(q)
        <4>1. PICK k \in 1..Len(q) : x = q[k]
          BY <3>3, ToSetIs
        <4>2. k \in 1..m /\ w[k] = q[k]
          BY <1>1, <2>2, <4>1
        <4> QED
          BY <4>1, <4>2
      <3>4. CASE \E k \in 1..(m - Len(q)) : r[k] = x
        <4>1. PICK k \in 1..(m - Len(q)) : r[k] = x
          BY <3>4
        <4>2. PICK l \in 1..m : l = k + Len(q)
          BY <1>1, <3>1, <4>1
        <4>3. ~ (l <= Len(q)) /\ l - Len(q) = k /\ l \in 1..(Len(q) + Len(r))
          BY <1>1, <4>1, <4>2
        <4>4. w[l] = r[k]
          BY <1>1, <4>3
        <4> QED
          BY <4>1, <4>4
      <3> QED
        BY <3>2, <3>3, <3>4
    <2> QED
      BY <2>1, <2>2
  <1> QED
    BY <1>2 DEF Ordered, w

LEMMA OrderedAppend ==
  ASSUME NEW f, NEW u, NEW q \in Seq(Items), NEW e \in Items, NEW items, Ordered(f, u, q, items),
         \A x \in Items : Before(f, u, x, e) => x \in items \cup ToSet(q)
  PROVE  Ordered(f, u, Append(q, e), items)
  <1> DEFINE w == Append(q, e)
  <1>1. /\ w \in Seq(Items) /\ Len(w) = Len(q) + 1 /\ Len(q) \in Nat /\ w[Len(q) + 1] = e
        /\ \A i \in 1..Len(q) : w[i] = q[i]
    BY AppendProperties, LenProperties
  <1> HIDE DEF w
  <1>2. ASSUME NEW m \in 1..Len(w), NEW x \in Items, Before(f, u, x, w[m])
        PROVE  x \in items \/ \E k \in 1..m : w[k] = x
    <2>1. CASE m \in 1..Len(q)
      <3>1. x \in items \/ \E k \in 1..m : q[k] = x
        BY <1>1, <1>2, <2>1 DEF Ordered
      <3>2. \A k \in 1..m : w[k] = q[k]
        BY <1>1, <2>1
      <3> QED
        BY <3>1, <3>2
    <2>2. CASE m = Len(q) + 1
      <3>1. x \in items \cup ToSet(q)
        BY <1>1, <1>2, <2>2
      <3>2. CASE x \in ToSet(q)
        <4>1. PICK k \in 1..Len(q) : x = q[k]
          BY <3>2, ToSetIs
        <4>2. k \in 1..m /\ w[k] = q[k]
          BY <1>1, <2>2, <4>1
        <4> QED
          BY <4>1, <4>2
      <3> QED
        BY <3>1, <3>2
    <2> QED
      BY <1>1, <2>1, <2>2
  <1> QED
    BY <1>2 DEF Ordered, w

-----------------------------------------------------------------------------
(* Each step keeps the invariant.                                          *)

LEMMA CoveredMore ==
  ASSUME NEW f, NEW u, NEW upto \in [Sources -> Nat], NEW less \in [Sources -> Nat],
         \A s \in Sources : less[s] <= upto[s],
         NEW items, NEW more, items \subseteq more, Covered(f, u, upto, items)
  PROVE  Covered(f, u, less, more)
  <1>1. \A s \in Sources : \A i \in 1..less[s] : i \in 1..upto[s]
    OBVIOUS
  <1> QED
    BY <1>1 DEF Covered

LEMMA ReadToIs ==
  ASSUME ProcessorTypeOK
  PROVE  /\ ReadTo \in [Sources -> Nat] /\ offset \in [Sources -> Nat]
         /\ \A s \in Sources : ReadTo[s] = IF s = src /\ Reading THEN head ELSE offset[s]
  BY DEF ReadTo, ProcessorTypeOK

LEMMA NextSourceIs ==
  ASSUME NEW s \in Sources
  PROVE  NextSource(s) \in Sources /\ First \in Sources
  BY ELAssumption DEF ELAssumption, NextSource, Sources, Days, First

LEMMA LeaveSourceIs ==
  ASSUME ProcessorTypeOK, LeaveSource, offset' \in [Sources -> Nat]
  PROVE  /\ src' \in Sources /\ doing' \in {"open", "flush"} /\ head' = 0 /\ rows' = 0
         /\ ~ Reading' /\ ReadTo' = offset'
  <1>1. /\ src' \in Sources /\ doing' \in {"open", "flush"} /\ head' = 0 /\ rows' = 0
    BY NextSourceIs DEF ProcessorTypeOK, LeaveSource
  <1>2. ~ Reading'
    BY <1>1 DEF Reading
  <1> QED
    BY <1>1, <1>2 DEF ReadTo

LEMMA InitProcessor ==
  ASSUME ProcessorInit
  PROVE  ProcessorIInv
  <1>1. LogTypeOK
    BY ELAssumption, EmptySeq DEF ProcessorInit, LogInit, LogTypeOK, Days, ELAssumption
  <1>2. ProcessorTypeOK
    <2>1. /\ First \in Sources /\ Len(<<>>) = 0 /\ <<>> \in Seq(UsageRows) /\ <<>> \in Seq(Items)
          /\ BatchSize \in Nat \ {0} /\ MaxFailures \in Nat /\ MaxCrashes \in Nat
      BY LPAssumption, ELAssumption, EmptySeq
         DEF LPAssumption, ELAssumption, Sources, First, Days
    <2>2. /\ offset = [s \in Sources |-> 0] /\ times = [e \in Items |-> 0] /\ usage = <<>>
          /\ doing = "open" /\ src = First /\ head = 0 /\ rows = 0 /\ item = None
          /\ buffer = <<>> /\ batch = <<>> /\ lock = "nobody" /\ acc = {} /\ active = {}
          /\ sent = <<>> /\ dropped = {} /\ failures = 0 /\ crashes = 0
      BY DEF ProcessorInit
    <2> QED
      BY <1>1, <2>1, <2>2 DEF ProcessorTypeOK, Holders
  <1>3. /\ \A s \in Sources : Len(Source(files, usage, s)) = 0
        /\ ReadTo = offset /\ offset = [s \in Sources |-> 0]
        /\ usage = <<>> /\ sent = <<>> /\ batch = <<>> /\ buffer = <<>> /\ dropped = {}
        /\ item = None /\ doing = "open" /\ ~ Reading
        /\ \A d \in Days : Len(files[d]) = 0
    BY SourceFacts, EmptySeq DEF ProcessorInit, LogInit, ReadTo, Reading, Source
  <1>4. \A s \in Sources : 1..offset[s] = {} /\ 1..ReadTo[s] = {} /\ 1..Len(Source(files, usage, s)) = {}
    BY <1>3
  <1>5. Known = {}
    BY <1>3, EmptySeq DEF Known, ToSet
  <1>6. WellWritten(files, usage, writing, path)
    BY <1>3 DEF WellWritten
  <1>7. PlaceInv
    BY <1>3, <1>4, <1>5 DEF PlaceInv
  <1>8. Covered(files, usage, offset, Known) /\ Covered(files, usage, ReadTo, Known \cup {item})
    BY <1>4 DEF Covered
  <1>9. TimesInv
    BY <1>4 DEF TimesInv, ReadPast, ProcessorInit
  <1>10. OrderInv
    BY <1>3, OrderedEmpty DEF OrderInv
  <1>11. SessionInv
    BY <1>3 DEF SessionInv, Closed
  <1> QED
    BY <1>2, <1>6, <1>7, <1>8, <1>9, <1>10, <1>11 DEF ProcessorIInv

LEMMA SourcesGrowKeeps ==
  ASSUME ProcessorIInv, Grow(files, usage, files', usage'), LogTypeOK',
         WellWritten(files', usage', writing', path'),
         UNCHANGED <<offset, memory, loki, counters>>
  PROVE  ProcessorIInv'
  <1>1. ProcessorTypeOK'
    BY LenProperties DEF ProcessorIInv, ProcessorTypeOK, Grow, memory, loki, counters
  <1>2. /\ ReadTo' = ReadTo /\ Known' = Known /\ item' = item /\ offset' = offset
        /\ ReadTo \in [Sources -> Nat] /\ offset \in [Sources -> Nat]
        /\ ProcessorTypeOK /\ PlaceInv
    BY ReadToIs DEF ReadTo, Reading, Known, memory, loki, ProcessorIInv
  <1>3. /\ \A s \in Sources : offset[s] <= Len(Source(files, usage, s)) /\ ReadTo[s] <= Len(Source(files, usage, s))
        /\ \A s \in Sources : Len(Source(files, usage, s)) \in Nat /\ Len(Source(files', usage', s)) \in Nat
        /\ \A s \in Sources : Len(Source(files, usage, s)) <= Len(Source(files', usage', s))
    BY <1>2, SourceGrows DEF PlaceInv
  <1>4. PlaceInv'
    <2>1. (item' # None) <=> (doing' = "push")
      BY <1>2 DEF PlaceInv, memory
    <2>2. \A s \in Sources : offset'[s] <= ReadTo'[s] /\ ReadTo'[s] <= Len(Source(files', usage', s))
      BY <1>2, <1>3 DEF PlaceInv
    <2>3. Reading' /\ src' = Usage => head' <= rows'
      BY <1>2 DEF PlaceInv, memory, Reading
    <2>4. doing' = "push" => \E j \in 1..head' : StartsAt(files', usage', item', src', j)
      <3>1. SUFFICES ASSUME doing = "push" PROVE \E j \in 1..head : StartsAt(files', usage', item, src, j)
        BY DEF memory
      <3>2. PICK j \in 1..head : StartsAt(files, usage, item, src, j)
        BY <1>2, <3>1 DEF PlaceInv
      <3>3. src \in Sources /\ j \in 1..Len(Source(files, usage, src))
        BY <1>2, <3>2 DEF ProcessorTypeOK, StartsAt
      <3> QED
        BY <3>2, <3>3, StartsGrow
    <2>5. \A x \in Known' : Written(files', usage', x)
      BY <1>2, WrittenGrows DEF PlaceInv
    <2> QED
      BY <2>1, <2>2, <2>3, <2>4, <2>5 DEF PlaceInv
  <1>5. Covered(files', usage', offset', Known') /\ Covered(files', usage', ReadTo', Known' \cup {item'})
    BY <1>2, <1>3, CoveredGrows DEF ProcessorIInv
  <1>6. TimesInv'
    <2>1. \A x : ReadPast(files', usage', x, ReadTo) <=> ReadPast(files, usage, x, ReadTo)
      BY <1>2, <1>3, ReadPastGrows
    <2> QED
      BY <1>2, <2>1 DEF ProcessorIInv, TimesInv, counters
  <1>7. OrderInv'
    <2>1. /\ sent \in Seq(Items) /\ batch \in Seq(Items) /\ buffer \in Seq(Items)
          /\ sent' = sent /\ batch' = batch /\ buffer' = buffer /\ dropped' = dropped
      BY <1>2 DEF ProcessorTypeOK, loki
    <2>2. /\ \A m \in 1..Len(sent) : Written(files, usage, sent[m])
          /\ \A m \in 1..Len(batch) : Written(files, usage, batch[m])
          /\ \A m \in 1..Len(buffer) : Written(files, usage, buffer[m])
      <3>1. \A q \in {sent, batch, buffer} : \A m \in 1..Len(q) : q[m] \in Known
        BY <2>1, ToSetIs DEF Known
      <3> QED
        BY <1>2, <3>1 DEF PlaceInv
    <2>3. OrderInv
      BY DEF ProcessorIInv
    <2> QED
      BY <2>1, <2>2, <2>3, OrderedGrows DEF OrderInv
  <1>8. SessionInv'
    BY <1>2, <1>3, ClosedGrows DEF ProcessorIInv, SessionInv, memory
  <1> QED
    BY <1>1, <1>4, <1>5, <1>6, <1>7, <1>8 DEF ProcessorIInv

LEMMA ProducersKeep ==
  ASSUME ProcessorIInv, WriteLog \/ RecordUsage
  PROVE  ProcessorIInv'
  <1>1. LogTypeOK /\ usage \in Seq(UsageRows) /\ WellWritten(files, usage, writing, path)
    BY DEF ProcessorIInv, ProcessorTypeOK
  <1>2. CASE WriteLog
    <2>1. Midnight \/ \E e \in Events : Log(e)
      BY <1>2 DEF WriteLog
    <2>2. LogTypeOK' /\ Longer(files, files') /\ WellWritten(files', usage, writing', path')
      BY <1>1, <2>1, LogGrows, LogWritesOnce
    <2>3. UNCHANGED <<usage, offset, memory, loki, counters>>
      BY <1>2 DEF WriteLog
    <2>4. Grow(files, usage, files', usage')
      BY <1>1, <2>2, <2>3, LenProperties DEF Grow, LogTypeOK
    <2> QED
      BY <2>2, <2>3, <2>4, SourcesGrowKeeps
  <1>3. CASE RecordUsage
    <2>1. PICK r \in UsageRows : r \notin ToSet(usage) /\ usage' = Append(usage, r)
      BY <1>3 DEF RecordUsage
    <2>2. UNCHANGED <<logVars, offset, memory, loki, counters>>
      BY <1>3 DEF RecordUsage
    <2>3. LogTypeOK' /\ files' = files /\ writing' = writing /\ path' = path
      BY <1>1, <2>2 DEF logVars, LogTypeOK
    <2>4. WellWritten(files', usage', writing', path') /\ Grow(files, usage, files', usage')
      BY <1>1, <2>1, <2>3, UsageWritesOnce
    <2> QED
      BY <2>2, <2>3, <2>4, SourcesGrowKeeps
  <1> QED
    BY <1>2, <1>3

LEMMA Entering ==
  ASSUME ProcessorIInv, doing = "read", ~ AtEnd
  PROVE  AtLine /\ Positions(ReadTo) /\ WellWritten(files, usage, writing, path) /\ item = None
  <1>1. Reading /\ ReadTo \in [Sources -> Nat] /\ ReadTo[src] = head /\ src \in Sources
    BY ReadToIs DEF ProcessorIInv, Reading, ProcessorTypeOK
  <1> QED
    BY <1>1 DEF ProcessorIInv, ProcessorTypeOK, PlaceInv, AtLine, Positions

\* The step keeps the position, or reads on: the next line of src.
LEMMA OntoIs ==
  ASSUME ProcessorIInv, doing = "read", ~ AtEnd, head' = NextPos, Reading', UNCHANGED <<src, offset>>
  PROVE  Onto(ReadTo, ReadTo') /\ NextPos \in Nat
  <1>1. AtLine
    BY Entering
  <1>2. NextPos \in (head + 1)..Len(Source(files, usage, src)) /\ head \in Nat
        /\ Len(Source(files, usage, src)) \in Nat
    <2>1. Len(Source(files, usage, src)) \in Nat
      BY <1>1, SourceFacts, LenProperties DEF AtLine, Source, LogTypeOK
    <2> QED
      BY <1>1, <2>1, ReadIs DEF AtLine
  <1>3. \A s \in Sources : ReadTo[s] = IF s = src THEN head ELSE offset[s]
    BY ReadToIs DEF ProcessorIInv, Reading
  <1>4. ReadTo' = [s \in Sources |-> IF s = src THEN NextPos ELSE offset[s]]
    BY DEF ReadTo
  <1> QED
    BY <1>2, <1>3, <1>4, ReadToIs DEF Onto, ProcessorIInv

LEMMA OpenKeeps ==
  ASSUME ProcessorIInv, Open
  PROVE  ProcessorIInv'
  <1>1. /\ doing = "open" /\ doing' = "read" /\ head' = offset[src]
        /\ rows' = IF src = Usage THEN Len(usage) ELSE 0
        /\ UNCHANGED <<logVars, usage, offset, src, item, acc, active, loki, counters>>
    BY DEF Open
  <1>2. /\ ProcessorTypeOK /\ PlaceInv /\ src \in Sources /\ ~ Reading /\ Reading'
        /\ \A s \in Sources : Len(Source(files, usage, s)) \in Nat
    BY <1>1, SourceFacts, LenProperties
       DEF ProcessorIInv, ProcessorTypeOK, Reading, Source, LogTypeOK
  <1>3. Len(usage) \in Nat
    BY <1>2, LenProperties DEF ProcessorTypeOK
  <1>4. ProcessorTypeOK'
    BY <1>1, <1>2, <1>3 DEF ProcessorTypeOK, LogTypeOK, logVars, loki, counters
  <1>5. ReadTo = offset /\ ReadTo' = offset /\ Known' = Known
    <2>1. ReadTo = offset /\ offset \in [Sources -> Nat]
      BY <1>2 DEF ReadTo, ProcessorTypeOK
    <2>2. ReadTo' = [s \in Sources |-> IF s = src THEN offset[src] ELSE offset[s]]
      BY <1>1, <1>2 DEF ReadTo
    <2> QED
      BY <1>1, <2>1, <2>2 DEF Known, loki
  <1>6. PlaceInv'
    <2>1. Source(files, usage, Usage) = usage
      BY DEF Source
    <2>2. doing' # "push" /\ item = None
      BY <1>1, <1>2 DEF PlaceInv
    <2>3. src = Usage => offset[src] <= Len(usage)
      BY <1>2, <1>5, <2>1 DEF PlaceInv
    <2> QED
      BY <1>1, <1>2, <1>5, <2>2, <2>3 DEF PlaceInv, logVars
  <1> QED
    BY <1>1, <1>4, <1>5, <1>6
       DEF ProcessorIInv, TimesInv, OrderInv, SessionInv, logVars, loki, counters

LEMMA SkipLineKeeps ==
  ASSUME ProcessorIInv, SkipLine
  PROVE  ProcessorIInv'
  <1>1. /\ doing = "read" /\ ~ AtEnd /\ Read = {} /\ head' = NextPos
        /\ UNCHANGED <<logVars, usage, offset, doing, src, rows, item, acc, active, loki, counters>>
    BY DEF SkipLine
  <1>2. /\ AtLine /\ Positions(ReadTo) /\ item = None /\ WellWritten(files, usage, writing, path)
        /\ ProcessorTypeOK /\ PlaceInv /\ Reading /\ Reading' /\ Known' = Known
    BY <1>1, Entering DEF ProcessorIInv, Reading, Known, loki
  <1>3. Onto(ReadTo, ReadTo') /\ NextPos \in Nat
    BY <1>1, <1>2, OntoIs
  <1>4. NextPos \in (head + 1)..Len(Source(files, usage, src)) /\ (src = Usage => NextPos <= rows)
    BY <1>2, ReadIs
  <1>5. ProcessorTypeOK'
    BY <1>1, <1>2, <1>3 DEF ProcessorTypeOK, LogTypeOK, logVars, loki, counters
  <1>6. PlaceInv'
    <2>1. head \in Nat /\ \A s \in Sources : offset[s] \in Nat
      BY <1>2 DEF ProcessorTypeOK
    <2>2. \A s \in Sources : offset[s] <= ReadTo'[s] /\ ReadTo'[s] <= Len(Source(files, usage, s))
      BY <1>2, <1>3, <1>4, <2>1 DEF PlaceInv, Onto, Positions
    <2> QED
      BY <1>1, <1>2, <1>4, <2>2 DEF PlaceInv, logVars
  <1>7. Covered(files, usage, ReadTo', Known \cup {item})
    <2>1. Covered(files, usage, ReadTo', (Known \cup {item}) \cup Read)
      BY <1>2, <1>3, CoveredReads DEF ProcessorIInv
    <2>2. (Known \cup {item}) \cup Read = Known \cup {item}
      BY <1>1
    <2> QED
      BY <2>1, <2>2
  <1>8. TimesInv'
    <2>1. \A x : ReadPast(files, usage, x, ReadTo) => ReadPast(files, usage, x, ReadTo')
      BY <1>2, <1>3, ReadPastReads
    <2>2. failures \in Nat /\ crashes \in Nat /\ times \in [Items -> Nat]
      BY <1>2, LPAssumption DEF ProcessorTypeOK, LPAssumption
    <2> QED
      BY <1>1, <2>1, <2>2 DEF ProcessorIInv, TimesInv, logVars, counters
  <1>9. SessionInv'
    BY <1>1, <1>2, <1>3, ClosedReads DEF ProcessorIInv, SessionInv, logVars
  <1> QED
    BY <1>1, <1>2, <1>5, <1>6, <1>7, <1>8, <1>9 DEF ProcessorIInv, OrderInv, logVars, loki

LEMMA ProcessKeeps ==
  ASSUME ProcessorIInv, NEW e \in Items, Process(e)
  PROVE  ProcessorIInv'
  <1>1. /\ doing = "read" /\ ~ AtEnd /\ e \in Read /\ head' = NextPos /\ doing' = "push" /\ item' = e
        /\ times' = [times EXCEPT ![e] = @ + 1]
        /\ UNCHANGED <<logVars, usage, offset, loki, crashes, src, rows, failures>>
    BY DEF Process, Remember
  <1>2. \/ /\ TypeOf[e] = "session_end"
           /\ acc' = acc \ {SidOf[e]} /\ active' = active \ {SidOf[e]}
        \/ /\ TypeOf[e] # "session_end"
           /\ acc' = acc \cup {SidOf[e]}
           /\ active' = IF TypeOf[e] = "session_start" THEN active \cup {SidOf[e]} ELSE active
    BY DEF Process, CloseSession
  <1>3. /\ AtLine /\ Positions(ReadTo) /\ item = None /\ WellWritten(files, usage, writing, path)
        /\ ProcessorTypeOK /\ PlaceInv /\ Reading' /\ Known' = Known
    BY <1>1, Entering DEF ProcessorIInv, Reading, Known, loki
  <1>4. Onto(ReadTo, ReadTo') /\ NextPos \in Nat
    BY <1>1, <1>3, OntoIs
  <1>5. /\ NextPos \in (head + 1)..Len(Source(files, usage, src)) /\ (src = Usage => NextPos <= rows)
        /\ StartsAt(files, usage, e, src, head + 1)
        /\ Read = {e} /\ head \in Nat
    BY <1>1, <1>3, ReadIs DEF AtLine
  <1>6. SidOf[e] \in Sids /\ TypeOf[e] \in AnyType
    BY LPAssumption DEF LPAssumption, Items, AnyType
  <1>7. ProcessorTypeOK'
    <2>1. acc' \subseteq Sids /\ active' \subseteq Sids
      BY <1>2, <1>3, <1>6 DEF ProcessorTypeOK
    <2>2. times' \in [Items -> Nat]
      BY <1>1, <1>3 DEF ProcessorTypeOK
    <2> QED
      BY <1>1, <1>3, <1>4, <2>1, <2>2 DEF ProcessorTypeOK, LogTypeOK, logVars, loki, counters
  <1>8. PlaceInv'
    <2>1. \A s \in Sources : offset[s] \in Nat
      BY <1>3 DEF ProcessorTypeOK
    <2>2. \A s \in Sources : offset[s] <= ReadTo'[s] /\ ReadTo'[s] <= Len(Source(files, usage, s))
      BY <1>3, <1>4, <1>5, <2>1 DEF PlaceInv, Onto, Positions
    <2>3. head + 1 \in 1..head' /\ e # None
      BY <1>1, <1>5, ItemFacts
    <2> QED
      BY <1>1, <1>3, <1>5, <2>2, <2>3 DEF PlaceInv, logVars
  <1>9. Covered(files, usage, ReadTo', Known \cup {e})
    <2>1. Covered(files, usage, ReadTo', (Known \cup {item}) \cup Read)
      BY <1>3, <1>4, CoveredReads DEF ProcessorIInv
    <2>2. \A x \in Items : x \in (Known \cup {item}) \cup Read => x \in Known \cup {e}
      BY <1>3, <1>5, ItemFacts
    <2> QED
      BY <2>1, <2>2 DEF Covered
  <1>10. TimesInv'
    <2>1. \A x : ReadPast(files, usage, x, ReadTo) => ReadPast(files, usage, x, ReadTo')
      BY <1>3, <1>4, ReadPastReads
    <2>2. ~ ReadPast(files, usage, e, ReadTo) /\ ReadPast(files, usage, e, ReadTo')
      BY <1>1, <1>3, <1>4, ReadPastReads
    <2>3. failures \in Nat /\ crashes \in Nat /\ times \in [Items -> Nat]
      BY <1>3, LPAssumption DEF ProcessorTypeOK, LPAssumption
    <2>4. ASSUME NEW x \in Items
          PROVE  times'[x] <= failures + crashes + (IF ReadPast(files, usage, x, ReadTo') THEN 1 ELSE 0)
      <3>1. times[x] <= failures + crashes + (IF ReadPast(files, usage, x, ReadTo) THEN 1 ELSE 0)
        BY DEF ProcessorIInv, TimesInv
      <3>2. CASE x = e
        BY <1>1, <2>2, <2>3, <3>1, <3>2
      <3>3. CASE x # e
        BY <1>1, <2>1, <2>3, <3>1, <3>3
      <3> QED
        BY <3>2, <3>3
    <2> QED
      BY <1>1, <2>4 DEF TimesInv, logVars
  <1>11. SessionInv'
    <2>1. Closed(files, usage, {"session_start"}, active, ReadTo) /\ Closed(files, usage, AnyType, acc, ReadTo)
          /\ ReadTo \in [Sources -> Nat] /\ files \in [Days -> Seq(Piece)]
      BY <1>3 DEF ProcessorIInv, SessionInv, Positions, AtLine, LogTypeOK
    <2>2. CASE TypeOf[e] = "session_end"
      <3>1. acc' \in SUBSET acc /\ active' \in SUBSET active
        BY <1>2, <2>2
      <3>2. Closed(files, usage, {"session_start"}, active', ReadTo) /\ Closed(files, usage, AnyType, acc', ReadTo)
        BY <2>1, <3>1, ClosedLess
      <3>3. \A x \in Read : SidOf[x] \notin acc' /\ SidOf[x] \notin active'
        BY <1>2, <1>5, <2>2
      <3>4. Closed(files, usage, {"session_start"}, active', ReadTo') /\ Closed(files, usage, AnyType, acc', ReadTo')
        BY <1>3, <1>4, <3>2, <3>3, ClosedReads
      <3> QED
        BY <1>1, <3>4 DEF SessionInv, logVars
    <2>3. CASE TypeOf[e] # "session_end"
      <3>1. Closed(files, usage, AnyType, acc', ReadTo)
        <4>1. acc' = acc \cup {SidOf[e]}
          BY <1>2, <2>3
        <4> QED
          BY <1>1, <1>3, <1>6, <2>1, <4>1, ClosedOpens
      <3>2. Closed(files, usage, {"session_start"}, active', ReadTo)
        <4>1. CASE TypeOf[e] = "session_start"
          <5>1. TypeOf[e] \in {"session_start"} /\ active' = active \cup {SidOf[e]}
            BY <1>2, <4>1
          <5> QED
            BY <1>1, <1>3, <2>1, <5>1, ClosedOpens
        <4>2. CASE TypeOf[e] # "session_start"
          BY <1>2, <2>1, <2>3, <4>2
        <4> QED
          BY <4>1, <4>2
      <3>3. \A x \in Read : TypeOf[x] # "session_end"
        BY <1>5, <2>3
      <3>4. Closed(files, usage, {"session_start"}, active', ReadTo') /\ Closed(files, usage, AnyType, acc', ReadTo')
        BY <1>3, <1>4, <3>1, <3>2, <3>3, ClosedReads
      <3> QED
        BY <1>1, <3>4 DEF SessionInv, logVars
    <2> QED
      BY <2>2, <2>3
  <1> QED
    BY <1>1, <1>3, <1>7, <1>8, <1>9, <1>10, <1>11 DEF ProcessorIInv, OrderInv, logVars, loki

\* A source is abandoned, for one more failure; it will be read again from where
\* its offset is, and what is remembered of the sessions holds of that, too.
LEMMA AbandonKeeps ==
  ASSUME ProcessorIInv, ProcessorTypeOK', LeaveSource, doing = "read", failures' = failures + 1,
         UNCHANGED <<logVars, usage, offset, item, active, loki, crashes>>,
         \A x \in Items : times'[x] <= times[x] + (IF ReadPast(files, usage, x, ReadTo) THEN 0 ELSE 1),
         Closed(files, usage, AnyType, acc', ReadTo)
  PROVE  ProcessorIInv'
  <1>1. /\ ProcessorTypeOK /\ PlaceInv /\ Known' = Known /\ Reading /\ item = None
        /\ doing' \in {"open", "flush"} /\ ~ Reading' /\ ReadTo' = offset /\ src' \in Sources
        /\ ReadTo \in [Sources -> Nat] /\ offset \in [Sources -> Nat] /\ files \in [Days -> Seq(Piece)]
    BY LeaveSourceIs, ReadToIs
       DEF ProcessorIInv, ProcessorTypeOK, PlaceInv, Known, loki, Reading, LogTypeOK
  <1>2. \A s \in Sources : offset[s] <= ReadTo[s]
    BY <1>1 DEF PlaceInv
  <1>3. PlaceInv'
    <2>1. \A s \in Sources : Len(Source(files, usage, s)) \in Nat
      BY <1>1, SourceFacts, LenProperties DEF ProcessorTypeOK, Source
    <2>2. \A s \in Sources : offset[s] <= offset[s] /\ offset[s] <= Len(Source(files, usage, s))
      BY <1>1, <1>2, <2>1 DEF PlaceInv
    <2> QED
      BY <1>1, <2>2 DEF PlaceInv, logVars
  <1>4. Covered(files, usage, offset, Known \cup {item})
    BY <1>1, <1>2, CoveredMore DEF ProcessorIInv
  <1>5. TimesInv'
    <2>1. failures \in Nat /\ crashes \in Nat /\ times \in [Items -> Nat] /\ times' \in [Items -> Nat]
      BY LPAssumption DEF ProcessorIInv, ProcessorTypeOK, LPAssumption
    <2>2. ASSUME NEW x \in Items PROVE times'[x] <= failures + 1 + crashes
      <3>1. times[x] <= failures + crashes + (IF ReadPast(files, usage, x, ReadTo) THEN 1 ELSE 0)
        BY DEF ProcessorIInv, TimesInv
      <3> QED
        BY <2>1, <3>1
    <2>3. \A x \in Items : times'[x] <=
             failures + 1 + crashes + (IF ReadPast(files, usage, x, offset) THEN 1 ELSE 0)
      BY <2>1, <2>2
    <2> QED
      BY <1>1, <2>3 DEF TimesInv, logVars
  <1>6. SessionInv'
    <2>1. Closed(files, usage, {"session_start"}, active, ReadTo)
      BY DEF ProcessorIInv, SessionInv
    <2>2. Closed(files, usage, {"session_start"}, active, offset) /\ Closed(files, usage, AnyType, acc', offset)
      BY <1>1, <1>2, <2>1, ClosedLess
    <2> QED
      BY <1>1, <2>2 DEF SessionInv, logVars
  <1> QED
    BY <1>1, <1>3, <1>4, <1>5, <1>6 DEF ProcessorIInv, OrderInv, logVars, loki

LEMMA EnrichFailsKeeps ==
  ASSUME ProcessorIInv, NEW e \in Items, EnrichFails(e)
  PROVE  ProcessorIInv'
  <1>1. /\ doing = "read" /\ ~ AtEnd /\ e \in Read /\ LeaveSource
        /\ failures < MaxFailures /\ failures' = failures + 1 /\ acc' = acc \cup {SidOf[e]}
        /\ times' = [times EXCEPT ![e] = @ + 1]
        /\ UNCHANGED <<logVars, usage, offset, loki, crashes, active, item>>
    BY DEF EnrichFails, Remember
  <1>2. /\ AtLine /\ Positions(ReadTo) /\ WellWritten(files, usage, writing, path) /\ ProcessorTypeOK
    BY <1>1, Entering DEF ProcessorIInv
  <1>3. SidOf[e] \in Sids /\ TypeOf[e] \in AnyType
    BY LPAssumption DEF LPAssumption, Items, AnyType
  <1>4. src' \in Sources /\ doing' \in {"open", "flush"} /\ head' = 0 /\ rows' = 0
    BY <1>1, <1>2, LeaveSourceIs DEF ProcessorTypeOK
  <1>5. Len(usage) \in Nat
    BY <1>2, LenProperties DEF ProcessorTypeOK
  <1>6. times' \in [Items -> Nat] /\ failures' \in 0..MaxFailures
    BY <1>1, <1>2, LPAssumption DEF ProcessorTypeOK, LPAssumption
  <1>7. ProcessorTypeOK'
    BY <1>1, <1>2, <1>3, <1>4, <1>5, <1>6 DEF ProcessorTypeOK, LogTypeOK, logVars, loki
  <1>8. Onto(ReadTo, [ReadTo EXCEPT ![src] = NextPos])
    <2>1. Len(Source(files, usage, src)) \in Nat
      BY <1>2, SourceFacts, LenProperties DEF AtLine, Source, LogTypeOK
    <2>2. NextPos \in Nat
      BY <1>2, <2>1, ReadIs DEF AtLine
    <2> QED
      BY <1>2, <2>2 DEF Positions, Onto
  <1>9. ~ ReadPast(files, usage, e, ReadTo)
    BY <1>1, <1>2, <1>8, ReadPastReads
  <1>10. \A x \in Items : times'[x] <= times[x] + (IF ReadPast(files, usage, x, ReadTo) THEN 0 ELSE 1)
    <2> TAKE x \in Items
    <2>1. CASE x = e
      BY <1>1, <1>2, <1>9, <2>1 DEF ProcessorTypeOK
    <2>2. CASE x # e
      BY <1>1, <1>2, <2>2 DEF ProcessorTypeOK
    <2> QED
      BY <2>1, <2>2
  <1>11. Closed(files, usage, AnyType, acc', ReadTo)
    BY <1>1, <1>2, <1>3, ClosedOpens DEF ProcessorIInv, SessionInv
  <1> QED
    BY <1>1, <1>7, <1>10, <1>11, AbandonKeeps

LEMMA CutCharacterKeeps ==
  ASSUME ProcessorIInv, CutCharacter
  PROVE  ProcessorIInv'
  <1>1. /\ doing = "read" /\ LeaveSource
        /\ failures < MaxFailures /\ failures' = failures + 1
        /\ UNCHANGED <<logVars, usage, offset, item, acc, active, loki, times, crashes>>
    BY DEF CutCharacter
  <1>2. ProcessorTypeOK /\ Closed(files, usage, AnyType, acc, ReadTo)
    BY DEF ProcessorIInv, SessionInv
  <1>3. src' \in Sources /\ doing' \in {"open", "flush"} /\ head' = 0 /\ rows' = 0
    BY <1>1, <1>2, LeaveSourceIs DEF ProcessorTypeOK
  <1>4. Len(usage) \in Nat /\ failures' \in 0..MaxFailures
    BY <1>1, <1>2, LPAssumption, LenProperties DEF ProcessorTypeOK, LPAssumption
  <1>5. ProcessorTypeOK'
    BY <1>1, <1>2, <1>3, <1>4 DEF ProcessorTypeOK, LogTypeOK, logVars, loki
  <1>6. \A x \in Items : times'[x] <= times[x] + (IF ReadPast(files, usage, x, ReadTo) THEN 0 ELSE 1)
    BY <1>1, <1>2 DEF ProcessorTypeOK
  <1> QED
    BY <1>1, <1>2, <1>5, <1>6, AbandonKeeps

LEMMA SaveOffsetKeeps ==
  ASSUME ProcessorIInv, SaveOffset
  PROVE  ProcessorIInv'
  <1>1. /\ doing = "read" /\ LeaveSource /\ offset' = [offset EXCEPT ![src] = head]
        /\ UNCHANGED <<logVars, usage, item, acc, active, loki, counters>>
    BY DEF SaveOffset
  <1>2. /\ ProcessorTypeOK /\ PlaceInv /\ Known' = Known /\ Reading /\ item = None
        /\ ReadTo \in [Sources -> Nat] /\ offset \in [Sources -> Nat] /\ src \in Sources /\ head \in Nat
    BY <1>1, ReadToIs DEF ProcessorIInv, ProcessorTypeOK, PlaceInv, Known, loki, Reading
  <1>3. offset' \in [Sources -> Nat] /\ offset' = ReadTo
    <2>1. ReadTo = [s \in Sources |-> IF s = src THEN head ELSE offset[s]]
      BY <1>2 DEF ReadTo
    <2> QED
      BY <1>1, <1>2, <2>1
  <1>4. /\ src' \in Sources /\ doing' \in {"open", "flush"} /\ head' = 0 /\ rows' = 0
        /\ ~ Reading' /\ ReadTo' = ReadTo
    BY <1>1, <1>2, <1>3, LeaveSourceIs
  <1>5. Len(usage) \in Nat
    BY <1>2, LenProperties DEF ProcessorTypeOK
  <1>6. ProcessorTypeOK'
    BY <1>1, <1>2, <1>3, <1>4, <1>5 DEF ProcessorTypeOK, LogTypeOK, logVars, loki, counters
  <1>7. PlaceInv'
    <2>1. \A s \in Sources : ReadTo[s] \in Nat
      BY <1>2
    <2> QED
      BY <1>1, <1>2, <1>3, <1>4, <2>1 DEF PlaceInv, logVars
  <1>8. Covered(files, usage, ReadTo, Known)
    <2>1. \A x \in Items : x \in Known \cup {item} => x \in Known
      BY <1>2, ItemFacts
    <2> QED
      BY <2>1 DEF ProcessorIInv, Covered
  <1> QED
    BY <1>1, <1>2, <1>3, <1>4, <1>6, <1>7, <1>8
       DEF ProcessorIInv, TimesInv, OrderInv, SessionInv, logVars, loki, counters

LEMMA EmptySet ==
  /\ ToSet(<<>>) = {} /\ Len(<<>>) = 0
  /\ \A S : <<>> \in Seq(S)
  BY EmptySeq DEF ToSet

\* The lock is free exactly when no batch is on its way.
LEMMA LockIs ==
  ASSUME ProcessorTypeOK
  PROVE  /\ lock = "nobody" <=> batch = <<>>
         /\ Len(buffer) \in Nat /\ Len(batch) \in Nat /\ BatchSize \in Nat \ {0}
  BY LPAssumption, LenProperties DEF ProcessorTypeOK, LPAssumption

\* Steps that move what is pushed from one place to the next, or drop it.
LEMMA LokiKeeps ==
  ASSUME ProcessorIInv, ProcessorTypeOK', OrderInv', Known' = Known, ReadTo' = ReadTo,
         UNCHANGED <<logVars, usage, offset, head, rows, item, acc, active, counters>>,
         (doing' = doing /\ src' = src) \/ (doing # "push" /\ doing' # "push" /\ ~ Reading')
  PROVE  ProcessorIInv'
  <1>1. PlaceInv'
    <2>1. PlaceInv
      BY DEF ProcessorIInv
    <2>2. CASE doing' = doing /\ src' = src
      BY <2>1, <2>2 DEF PlaceInv, Reading, logVars
    <2>3. CASE doing # "push" /\ doing' # "push" /\ ~ Reading'
      BY <2>1, <2>3 DEF PlaceInv, logVars
    <2> QED
      BY <2>2, <2>3
  <1> QED
    BY <1>1 DEF ProcessorIInv, TimesInv, SessionInv, logVars, counters

LEMMA DrainKeepsOrder ==
  ASSUME ProcessorTypeOK, NEW b \in Seq(Items), lock = "nobody",
         Ordered(files, usage, b, dropped \cup ToSet(sent)), Ordered(files, usage, sent, dropped),
         NEW t, Drain(t, b), UNCHANGED <<logVars, usage, sent, dropped>>
  PROVE  OrderInv'
  <1>1. batch' = b /\ buffer' = <<>> /\ files' = files
    BY DEF Drain, logVars
  <1> QED
    BY <1>1, OrderedEmpty DEF OrderInv

LEMMA PushKeeps ==
  ASSUME ProcessorIInv, Push
  PROVE  ProcessorIInv'
  <1> DEFINE b == Append(buffer, item)
  <1>1. /\ doing = "push" /\ lock = "nobody" /\ doing' = "read" /\ item' = None
        /\ IF Full(b) THEN Drain("main", b) ELSE buffer' = b /\ UNCHANGED <<lock, batch>>
        /\ UNCHANGED <<logVars, usage, offset, src, head, rows, acc, active, sent, dropped, counters>>
    BY DEF Push
  <1>2. /\ ProcessorTypeOK /\ PlaceInv /\ OrderInv /\ Reading /\ Reading' /\ item \in Items
        /\ batch = <<>> /\ buffer \in Seq(Items) /\ WellWritten(files, usage, writing, path)
        /\ sent \in Seq(Items)
    BY <1>1, LockIs DEF ProcessorIInv, ProcessorTypeOK, PlaceInv, Reading
  <1>3. /\ b \in Seq(Items) /\ ToSet(b) = ToSet(buffer) \cup {item}
        /\ Len(b) = Len(buffer) + 1 /\ Len(buffer) \in Nat /\ b # <<>>
    <2>1. b \in Seq(Items) /\ Len(b) = Len(buffer) + 1 /\ Len(buffer) \in Nat
      BY <1>2, AppendProperties, LenProperties
    <2>2. ToSet(b) = ToSet(buffer) \cup {item}
      BY <1>2, ToSetAppend
    <2>3. b # <<>>
      BY <2>1, EmptySet
    <2> QED
      BY <2>1, <2>2, <2>3
  <1>4. \A x \in Items : Before(files, usage, x, item) => x \in dropped \cup ToSet(sent) \cup ToSet(buffer)
    <2> SUFFICES ASSUME NEW x \in Items, Before(files, usage, x, item) PROVE x \in Known
      BY <1>2, EmptySet DEF Known
    <2>1. PICK s \in Sources : \E i, j \in 1..Len(Source(files, usage, s)) :
              i < j /\ Stood(files, usage, x, s, i) /\ StartsAt(files, usage, item, s, j)
      BY DEF Before
    <2>2. PICK i \in 1..Len(Source(files, usage, s)), j \in 1..Len(Source(files, usage, s)) :
              i < j /\ Stood(files, usage, x, s, i) /\ StartsAt(files, usage, item, s, j)
      BY <2>1
    <2>3. PICK k \in 1..head : StartsAt(files, usage, item, src, k)
      BY <1>1, <1>2 DEF PlaceInv
    <2>4. src \in Sources /\ head \in Nat /\ LogTypeOK /\ usage \in Seq(UsageRows) /\ files \in [Days -> Seq(Piece)]
      BY <1>2 DEF ProcessorTypeOK, LogTypeOK
    <2>5. s = src /\ j = k
      BY <1>2, <2>2, <2>3, <2>4, StartsOnce
    <2>6. ReadTo[src] = head /\ i \in 1..head
      <3>1. ReadTo[src] = head
        BY <1>2, <2>4, ReadToIs
      <3>2. Len(Source(files, usage, src)) \in Nat
        BY <2>4, SourceFacts, LenProperties DEF Source
      <3> QED
        BY <2>2, <2>3, <2>4, <2>5, <3>1, <3>2
    <2>7. x \in Known \cup {item}
      BY <2>2, <2>5, <2>6 DEF ProcessorIInv, Covered
    <2>8. x # item
      <3>1. SUFFICES ASSUME x = item PROVE FALSE
        OBVIOUS
      <3>2. StartsAt(files, usage, item, s, i)
        BY <2>2, <3>1, StoodStarts
      <3>3. i = j
        BY <1>2, <2>2, <2>4, <3>2, StartsOnce
      <3>4. Len(Source(files, usage, s)) \in Nat
        BY <2>4, SourceFacts, LenProperties DEF Source
      <3> QED
        BY <2>2, <3>3, <3>4
    <2> QED
      BY <2>7, <2>8
  <1>5. Ordered(files, usage, b, dropped \cup ToSet(sent))
    <2>1. Ordered(files, usage, buffer, dropped \cup ToSet(sent) \cup ToSet(batch))
      BY <1>2 DEF OrderInv
    <2>2. Ordered(files, usage, buffer, dropped \cup ToSet(sent))
      BY <1>2, <2>1, EmptySet
    <2> QED
      BY <1>2, <1>4, <2>2, OrderedAppend
  <1> HIDE DEF b
  <1>6. OrderInv'
    <2>1. CASE Full(b)
      BY <1>1, <1>2, <1>3, <1>5, <2>1, DrainKeepsOrder DEF OrderInv
    <2>2. CASE ~ Full(b)
      <3>1. Ordered(files, usage, b, dropped \cup ToSet(sent) \cup ToSet(batch))
        BY <1>2, <1>5, EmptySet
      <3> QED
        BY <1>1, <1>2, <2>2, <3>1 DEF OrderInv, logVars
    <2> QED
      BY <2>1, <2>2
  <1>7. Known' = Known \cup {item}
    <2>1. CASE Full(b)
      BY <1>1, <1>2, <1>3, <2>1, EmptySet DEF Known, Drain
    <2>2. CASE ~ Full(b)
      BY <1>1, <1>3, <2>2 DEF Known
    <2> QED
      BY <2>1, <2>2
  <1>8. ProcessorTypeOK'
    <2>1. CASE Full(b)
      <3>1. lock' = "main" /\ batch' = b /\ buffer' = <<>>
        BY <1>1, <2>1 DEF Drain
      <3>2. buffer' \in Seq(Items) /\ Len(buffer') < BatchSize
        BY <1>2, <3>1, EmptySet, LockIs
      <3> QED
        BY <1>1, <1>2, <1>3, <3>1, <3>2 DEF ProcessorTypeOK, LogTypeOK, logVars, counters, Holders
    <2>2. CASE ~ Full(b)
      <3>1. Len(b) < BatchSize
        BY <1>2, <1>3, <2>2, LockIs DEF Full
      <3> QED
        BY <1>1, <1>2, <1>3, <2>2, <3>1 DEF ProcessorTypeOK, LogTypeOK, logVars, counters
    <2> QED
      BY <2>1, <2>2
  <1>9. ReadTo' = ReadTo
    BY <1>1, <1>2 DEF ReadTo
  <1>10. PlaceInv'
    <2>1. Written(files, usage, item)
      <3>1. PICK k \in 1..head : StartsAt(files, usage, item, src, k)
        BY <1>1, <1>2 DEF PlaceInv
      <3>2. k \in 1..Len(Source(files, usage, src)) /\ src \in Sources
        BY <1>2, <3>1 DEF StartsAt, ProcessorTypeOK
      <3> QED
        BY <3>1, <3>2 DEF Written
    <2> QED
      BY <1>1, <1>2, <1>7, <1>9, <2>1 DEF PlaceInv, logVars
  <1>11. Covered(files, usage, offset, Known') /\ Covered(files, usage, ReadTo, Known' \cup {None})
    BY <1>7 DEF ProcessorIInv, Covered
  <1> QED
    BY <1>1, <1>2, <1>6, <1>8, <1>9, <1>10, <1>11
       DEF ProcessorIInv, TimesInv, SessionInv, logVars, counters

LEMMA FlushKeeps ==
  ASSUME ProcessorIInv, Flush
  PROVE  ProcessorIInv'
  <1>1. /\ doing = "flush" /\ lock = "nobody" /\ doing' = "open" /\ src' = First
        /\ IF Due(buffer) THEN Drain("main", buffer) ELSE UNCHANGED <<buffer, lock, batch>>
        /\ UNCHANGED <<logVars, usage, offset, head, rows, item, acc, active, sent, dropped, counters>>
    BY DEF Flush
  <1>2. /\ ProcessorTypeOK /\ OrderInv /\ batch = <<>> /\ buffer \in Seq(Items) /\ sent \in Seq(Items)
        /\ ~ Reading /\ ~ Reading'
    BY <1>1, LockIs DEF ProcessorIInv, ProcessorTypeOK, Reading
  <1>3. First \in Sources
    BY <1>2, NextSourceIs DEF ProcessorTypeOK
  <1>4. ReadTo' = ReadTo
    BY <1>1, <1>2 DEF ReadTo
  <1>5. Ordered(files, usage, buffer, dropped \cup ToSet(sent))
    <2>1. Ordered(files, usage, buffer, dropped \cup ToSet(sent) \cup ToSet(batch))
      BY <1>2 DEF OrderInv
    <2> QED
      BY <1>2, <2>1, EmptySet
  <1>6. CASE Due(buffer)
    <2>1. lock' = "main" /\ batch' = buffer /\ buffer' = <<>> /\ buffer # <<>>
      BY <1>1, <1>6 DEF Drain, Due
    <2>2. OrderInv'
      BY <1>1, <1>2, <1>5, <1>6, DrainKeepsOrder DEF OrderInv
    <2>3. Known' = Known
      BY <1>1, <1>2, <2>1, EmptySet DEF Known
    <2>4. buffer' \in Seq(Items) /\ Len(buffer') < BatchSize
      BY <1>2, <2>1, EmptySet, LockIs
    <2>5. ProcessorTypeOK'
      BY <1>1, <1>2, <1>3, <2>1, <2>4 DEF ProcessorTypeOK, LogTypeOK, logVars, counters, Holders
    <2> QED
      BY <1>1, <1>2, <1>4, <2>2, <2>3, <2>5, LokiKeeps
  <1>7. CASE ~ Due(buffer)
    <2>1. UNCHANGED <<buffer, lock, batch>>
      BY <1>1, <1>7
    <2>2. OrderInv'
      BY <1>1, <1>2, <2>1 DEF OrderInv, logVars
    <2>3. Known' = Known
      BY <1>1, <2>1 DEF Known
    <2>4. ProcessorTypeOK'
      BY <1>1, <1>2, <1>3, <2>1 DEF ProcessorTypeOK, LogTypeOK, logVars, counters
    <2> QED
      BY <1>1, <1>2, <1>4, <2>2, <2>3, <2>4, LokiKeeps
  <1> QED
    BY <1>6, <1>7

LEMMA FlushThreadKeeps ==
  ASSUME ProcessorIInv, FlushThread
  PROVE  ProcessorIInv'
  <1>1. /\ lock = "nobody" /\ lock' = "thread" /\ batch' = buffer /\ buffer' = <<>> /\ buffer # <<>>
        /\ Drain("thread", buffer)
        /\ UNCHANGED <<logVars, usage, offset, memory, sent, dropped, counters>>
    BY DEF FlushThread, Drain, Due
  <1>2. /\ ProcessorTypeOK /\ OrderInv /\ batch = <<>> /\ buffer \in Seq(Items) /\ sent \in Seq(Items)
    BY <1>1, LockIs DEF ProcessorIInv, ProcessorTypeOK
  <1>3. ReadTo' = ReadTo
    BY <1>1 DEF ReadTo, Reading, memory
  <1>4. Ordered(files, usage, buffer, dropped \cup ToSet(sent))
    <2>1. Ordered(files, usage, buffer, dropped \cup ToSet(sent) \cup ToSet(batch))
      BY <1>2 DEF OrderInv
    <2> QED
      BY <1>2, <2>1, EmptySet
  <1>5. OrderInv'
    BY <1>1, <1>2, <1>4, DrainKeepsOrder DEF OrderInv
  <1>6. Known' = Known
    BY <1>1, <1>2, EmptySet DEF Known
  <1>7. buffer' \in Seq(Items) /\ Len(buffer') < BatchSize
    BY <1>1, <1>2, EmptySet, LockIs
  <1>8. ProcessorTypeOK'
    BY <1>1, <1>2, <1>7 DEF ProcessorTypeOK, LogTypeOK, logVars, memory, counters, Holders
  <1> QED
    BY <1>1, <1>3, <1>5, <1>6, <1>8, LokiKeeps DEF memory

LEMMA PostedKeeps ==
  ASSUME ProcessorIInv, Posted
  PROVE  ProcessorIInv'
  <1>1. /\ lock' = "nobody" /\ batch' = <<>> /\ sent' = sent \o batch
        /\ UNCHANGED <<logVars, usage, offset, memory, buffer, dropped, counters>>
    BY DEF Posted, Unlock
  <1>2. /\ ProcessorTypeOK /\ OrderInv /\ batch \in Seq(Items) /\ buffer \in Seq(Items) /\ sent \in Seq(Items)
    BY DEF ProcessorIInv, ProcessorTypeOK
  <1>3. sent' \in Seq(Items) /\ ToSet(sent') = ToSet(sent) \cup ToSet(batch)
    BY <1>1, <1>2, ToSetConcat
  <1>4. Known' = Known /\ ReadTo' = ReadTo
    BY <1>1, <1>3, EmptySet DEF Known, ReadTo, Reading, memory
  <1>5. Ordered(files, usage, sent', dropped)
    BY <1>1, <1>2, OrderedConcat DEF OrderInv
  <1>6. Ordered(files, usage, buffer, dropped \cup ToSet(sent') \cup {})
    <2>1. dropped \cup ToSet(sent') \cup {} = dropped \cup ToSet(sent) \cup ToSet(batch)
      BY <1>3
    <2> QED
      BY <1>2, <2>1 DEF OrderInv
  <1>7. OrderInv'
    BY <1>1, <1>5, <1>6, OrderedEmpty, EmptySet DEF OrderInv, logVars
  <1>8. ProcessorTypeOK'
    BY <1>1, <1>2, <1>3, EmptySet DEF ProcessorTypeOK, LogTypeOK, logVars, memory, counters, Holders
  <1> QED
    BY <1>1, <1>4, <1>7, <1>8, LokiKeeps DEF memory

LEMMA PostFailsKeeps ==
  ASSUME ProcessorIInv, PostFails
  PROVE  ProcessorIInv'
  <1>1. /\ lock' = "nobody" /\ batch' = <<>> /\ dropped' = dropped \cup ToSet(batch)
        /\ UNCHANGED <<logVars, usage, offset, memory, buffer, sent, counters>>
    BY DEF PostFails, Unlock
  <1>2. /\ ProcessorTypeOK /\ OrderInv /\ batch \in Seq(Items) /\ buffer \in Seq(Items) /\ sent \in Seq(Items)
    BY DEF ProcessorIInv, ProcessorTypeOK
  <1>3. ToSet(batch) \subseteq Items
    BY <1>2, ToSetIs
  <1>4. Known' = Known /\ ReadTo' = ReadTo
    BY <1>1, EmptySet DEF Known, ReadTo, Reading, memory
  <1>5. Ordered(files, usage, sent, dropped')
    BY <1>1, <1>2, OrderedMore DEF OrderInv
  <1>6. Ordered(files, usage, buffer, dropped' \cup ToSet(sent) \cup {})
    <2>1. dropped' \cup ToSet(sent) \cup {} = dropped \cup ToSet(sent) \cup ToSet(batch)
      BY <1>1
    <2> QED
      BY <1>2, <2>1 DEF OrderInv
  <1>7. OrderInv'
    BY <1>1, <1>5, <1>6, OrderedEmpty, EmptySet DEF OrderInv, logVars
  <1>8. ProcessorTypeOK'
    BY <1>1, <1>2, <1>3, EmptySet DEF ProcessorTypeOK, LogTypeOK, logVars, memory, counters, Holders
  <1> QED
    BY <1>1, <1>4, <1>7, <1>8, LokiKeeps DEF memory

LEMMA ProcessorCrashKeeps ==
  ASSUME ProcessorIInv, Crash
  PROVE  ProcessorIInv'
  <1>1. /\ crashes < MaxCrashes /\ crashes' = crashes + 1
        /\ doing' = "open" /\ src' = First /\ head' = 0 /\ rows' = 0 /\ item' = None
        /\ acc' = {} /\ active' = {} /\ lock' = "nobody" /\ batch' = <<>> /\ buffer' = <<>>
        /\ UNCHANGED <<logVars, usage, offset, times, failures>>
    BY DEF Crash, Unlock
  <1>2. PICK arrived \in {<<>>, batch} :
          /\ sent' = sent \o arrived
          /\ dropped' = dropped \cup ((ToSet(batch) \cup ToSet(buffer)) \ ToSet(arrived))
    BY DEF Crash
  <1>3. /\ ProcessorTypeOK /\ PlaceInv /\ OrderInv
        /\ batch \in Seq(Items) /\ buffer \in Seq(Items) /\ sent \in Seq(Items)
        /\ offset \in [Sources -> Nat] /\ ReadTo \in [Sources -> Nat]
        /\ Len(usage) \in Nat /\ ~ Reading' /\ First \in Sources
    <2>1. src \in Sources
      BY DEF ProcessorIInv, ProcessorTypeOK
    <2> QED
      BY <1>1, <2>1, ReadToIs, NextSourceIs, LenProperties
         DEF ProcessorIInv, ProcessorTypeOK, Reading
  <1>4. arrived \in Seq(Items) /\ ToSet(arrived) \subseteq ToSet(batch)
    BY <1>2, <1>3, EmptySet
  <1>5. sent' \in Seq(Items) /\ ToSet(sent') = ToSet(sent) \cup ToSet(arrived)
    BY <1>2, <1>3, <1>4, ToSetConcat
  <1>6. ToSet(batch) \subseteq Items /\ ToSet(buffer) \subseteq Items
    BY <1>3, ToSetIs
  <1>7. Known' = Known
    BY <1>1, <1>2, <1>4, <1>5, EmptySet DEF Known
  <1>8. ReadTo' = offset /\ \A s \in Sources : offset[s] <= ReadTo[s]
    BY <1>1, <1>3 DEF ReadTo, PlaceInv
  <1>9. ProcessorTypeOK'
    <2>1. dropped' \subseteq Items
      BY <1>2, <1>3, <1>6 DEF ProcessorTypeOK
    <2>2. crashes' \in 0..MaxCrashes /\ buffer' \in Seq(Items) /\ Len(buffer') < BatchSize
      BY <1>1, <1>3, EmptySet, LockIs, LPAssumption DEF ProcessorTypeOK, LPAssumption
    <2> QED
      BY <1>1, <1>3, <1>5, <2>1, <2>2, EmptySet DEF ProcessorTypeOK, LogTypeOK, logVars, Holders
  <1>10. PlaceInv'
    <2>1. \A s \in Sources : Len(Source(files, usage, s)) \in Nat
      BY <1>3, SourceFacts, LenProperties DEF ProcessorTypeOK, LogTypeOK, Source
    <2>2. \A s \in Sources : offset[s] <= offset[s] /\ offset[s] <= Len(Source(files, usage, s))
      BY <1>3, <1>8, <2>1 DEF PlaceInv
    <2> QED
      BY <1>1, <1>3, <1>7, <1>8, <2>2 DEF PlaceInv, logVars
  <1>11. Covered(files, usage, offset, Known) /\ Covered(files, usage, offset, Known \cup {None})
    BY DEF ProcessorIInv, Covered
  <1>12. TimesInv'
    <2>1. failures \in Nat /\ crashes \in Nat /\ times \in [Items -> Nat]
      BY <1>3, LPAssumption DEF ProcessorTypeOK, LPAssumption
    <2>2. ASSUME NEW x \in Items PROVE times[x] <= failures + (crashes + 1)
      <3>1. times[x] <= failures + crashes + (IF ReadPast(files, usage, x, ReadTo) THEN 1 ELSE 0)
        BY DEF ProcessorIInv, TimesInv
      <3> QED
        BY <2>1, <3>1
    <2>3. \A x \in Items : times[x] <=
             failures + (crashes + 1) + (IF ReadPast(files, usage, x, offset) THEN 1 ELSE 0)
      BY <2>1, <2>2
    <2> QED
      BY <1>1, <1>8, <2>3 DEF TimesInv, logVars
  <1>13. OrderInv'
    <2>1. Ordered(files, usage, sent', dropped)
      <3>1. Ordered(files, usage, arrived, dropped \cup ToSet(sent))
        BY <1>2, <1>3, OrderedEmpty DEF OrderInv
      <3> QED
        BY <1>2, <1>3, <1>4, <3>1, OrderedConcat DEF OrderInv
    <2>2. Ordered(files, usage, sent', dropped')
      BY <1>2, <2>1, OrderedMore
    <2> QED
      BY <1>1, <2>2, OrderedEmpty DEF OrderInv, logVars
  <1>14. SessionInv'
    BY <1>1 DEF SessionInv, Closed
  <1> QED
    BY <1>1, <1>3, <1>7, <1>8, <1>9, <1>10, <1>11, <1>12, <1>13, <1>14 DEF ProcessorIInv, logVars

(* The reader, both threads that push, Loki and the processor's end keep   *)
(* the invariant, whatever the honeypot appends meanwhile.                 *)
THEOREM ProcessorInductive == ProcessorIInv /\ [ProcessorNext]_processorVars => ProcessorIInv'
  <1> SUFFICES ASSUME ProcessorIInv, [ProcessorNext]_processorVars PROVE ProcessorIInv'
    OBVIOUS
  <1>1. CASE WriteLog \/ RecordUsage
    BY <1>1, ProducersKeep
  <1>2. CASE Main
    <2>1. CASE Open
      BY <2>1, OpenKeeps
    <2>2. CASE SkipLine
      BY <2>2, SkipLineKeeps
    <2>3. CASE CutCharacter
      BY <2>3, CutCharacterKeeps
    <2>4. CASE SaveOffset
      BY <2>4, SaveOffsetKeeps
    <2>5. CASE Push
      BY <2>5, PushKeeps
    <2>6. CASE Flush
      BY <2>6, FlushKeeps
    <2>7. ASSUME NEW e \in Items, Process(e) \/ EnrichFails(e) PROVE ProcessorIInv'
      BY <2>7, ProcessKeeps, EnrichFailsKeeps
    <2> QED
      BY <1>2, <2>1, <2>2, <2>3, <2>4, <2>5, <2>6, <2>7 DEF Main
  <1>3. CASE FlushThread
    BY <1>3, FlushThreadKeeps
  <1>4. CASE Loki
    BY <1>4, PostedKeeps, PostFailsKeeps DEF Loki
  <1>5. CASE Crash
    BY <1>5, ProcessorCrashKeeps
  <1>6. CASE UNCHANGED processorVars
    <2>1. UNCHANGED <<offset, memory, loki, counters>> /\ UNCHANGED <<logVars, usage>>
      BY <1>6 DEF processorVars
    <2>2. LogTypeOK /\ usage \in Seq(UsageRows) /\ WellWritten(files, usage, writing, path)
      BY DEF ProcessorIInv, ProcessorTypeOK
    <2>3. LogTypeOK' /\ files' = files /\ writing' = writing /\ path' = path /\ usage' = usage
      BY <2>1, <2>2 DEF logVars, LogTypeOK
    <2>4. Grow(files, usage, files, usage)
      BY <2>2, LenProperties DEF Grow, Longer, LogTypeOK
    <2> QED
      BY <2>1, <2>2, <2>3, <2>4, SourcesGrowKeeps
  <1> QED
    BY <1>1, <1>2, <1>3, <1>4, <1>5, <1>6 DEF ProcessorNext

(* The variables of main.py and loki_client.py keep their types, and what  *)
(* is posted is posted by the holder of the lock.                          *)
THEOREM ProcessorTypeCorrect == ProcessorSpec => []ProcessorTypeOK
  <1>1. ProcessorIInv => ProcessorTypeOK
    BY DEF ProcessorIInv
  <1> QED
    BY <1>1, InitProcessor, ProcessorInductive, PTL DEF ProcessorSpec

LEMMA InvDelivery ==
  ASSUME ProcessorIInv
  PROVE  Delivery
  <1>1. LogTypeOK /\ sent \in Seq(Items) /\ offset \in [Sources -> Nat]
    BY DEF ProcessorIInv, ProcessorTypeOK
  <1>2. ASSUME NEW s \in Sources, NEW e \in Items, Behind(e, s) PROVE e \in Known
    <2>1. PICK i \in Places(s) : StandsAt(e, s, i) /\ i <= offset[s]
      BY <1>2 DEF Behind
    <2>2. i \in 1..Len(Source(files, usage, s)) /\ Stood(files, usage, e, s, i)
      BY <1>1, <2>1, StandsStood
    <2>3. i \in 1..offset[s]
      BY <1>1, <2>1, <2>2
    <2> QED
      BY <2>2, <2>3 DEF ProcessorIInv, Covered
  <1>3. NothingLost
    BY <1>2 DEF NothingLost, Known
  <1>4. OnceUnlessAborted
    <2>1. failures \in Nat /\ crashes \in Nat /\ times \in [Items -> Nat]
      BY LPAssumption DEF ProcessorIInv, ProcessorTypeOK, LPAssumption
    <2>2. ASSUME NEW x \in Items PROVE times[x] <= 1 + failures + crashes
      <3>1. times[x] <= failures + crashes + (IF ReadPast(files, usage, x, ReadTo) THEN 1 ELSE 0)
        BY DEF ProcessorIInv, TimesInv
      <3> QED
        BY <2>1, <3>1
    <2> QED
      BY <2>2 DEF OnceUnlessAborted
  <1>5. InOrder
    <2> SUFFICES ASSUME NEW m \in DOMAIN sent, NEW e \in Items \ dropped,
                        \A k \in 1..m : sent[k] # e, Precedes(e, sent[m])
                 PROVE  FALSE
      BY DEF InOrder
    <2>1. m \in 1..Len(sent) /\ sent[m] \in Items
      BY <1>1, LenProperties, ElementOfSeq
    <2>2. PICK s \in Sources : \E i, j \in Places(s) :
              i < j /\ StandsAt(e, s, i) /\ StandsAt(sent[m], s, j)
      BY DEF Precedes
    <2>3. PICK i \in Places(s), j \in Places(s) :
              i < j /\ StandsAt(e, s, i) /\ StandsAt(sent[m], s, j)
      BY <2>2
    <2>4. i \in 1..Len(Source(files, usage, s)) /\ Stood(files, usage, e, s, i)
      BY <1>1, <2>3, StandsStood
    <2>5. j \in 1..Len(Source(files, usage, s)) /\ Stood(files, usage, sent[m], s, j)
      BY <1>1, <2>1, <2>3, StandsStood
    <2>6. StartsAt(files, usage, sent[m], s, j)
      BY <2>5, StoodStarts
    <2>7. Before(files, usage, e, sent[m])
      BY <2>3, <2>4, <2>5, <2>6 DEF Before
    <2> QED
      BY <2>1, <2>7 DEF ProcessorIInv, OrderInv, Ordered
  <1> QED
    BY <1>3, <1>4, <1>5 DEF Delivery

(* What has been read for good is in Loki, on its way or lost with a POST  *)
(* or the process; it was enriched once more only per failure; and a       *)
(* source arrives in its order, although three places drain the buffer.    *)
THEOREM DeliveredInOrder == ProcessorSpec => []Delivery
  BY InitProcessor, ProcessorInductive, InvDelivery, PTL DEF ProcessorSpec

LEMMA InvEndedIsForgotten ==
  ASSUME ProcessorIInv
  PROVE  EndedIsForgotten
  <1> SUFFICES ASSUME NEW d \in Days, NEW f \in Events, NEW j \in Places(d),
                      TypeOf[f] = "session_end", StandsAt(f, d, j), j <= offset[d]
               PROVE  /\ AllBy({g \in Items : SidOf[g] = SidOf[f] /\ TypeOf[g] = "session_start"}, d, j)
                            => SidOf[f] \notin active
                      /\ AllBy({g \in Items : SidOf[g] = SidOf[f]}, d, j) => SidOf[f] \notin acc
    BY DEF EndedIsForgotten
  <1>1. /\ LogTypeOK /\ d \in Sources /\ d # Usage /\ Places(d) = 1..Len(files[d])
        /\ f \in Items /\ Len(files[d]) \in Nat
    BY SourceFacts, LenProperties
       DEF ProcessorIInv, ProcessorTypeOK, Sources, Places, Items, LogTypeOK
  <1>2. Stood(files, usage, f, d, j)
    BY <1>1, StandsStood
  <1>3. ~ (ReadTo[d] < j)
    <2>1. offset[d] \in Nat /\ ReadTo[d] \in Nat /\ offset[d] <= ReadTo[d]
      BY <1>1, ReadToIs DEF ProcessorIInv, PlaceInv
    <2> QED
      BY <1>1, <2>1
  <1>4. ASSUME NEW items, AllBy(items, d, j), NEW g \in Items, g \in items
        PROVE  \E k \in 1..j : Stood(files, usage, g, d, k)
    <2>1. PICK k \in 1..j : StandsAt(g, d, k)
      BY <1>4 DEF AllBy
    <2>2. k \in Places(d)
      BY <1>1
    <2> QED
      BY <1>1, <2>1, <2>2, StandsStood
  <1>5. ASSUME AllBy({g \in Items : SidOf[g] = SidOf[f] /\ TypeOf[g] = "session_start"}, d, j),
               SidOf[f] \in active
        PROVE  FALSE
    <2>1. \A g \in Items : SidOf[g] = SidOf[f] /\ TypeOf[g] \in {"session_start"} =>
             \E k \in 1..j : Stood(files, usage, g, d, k)
      BY <1>4, <1>5
    <2> QED
      BY <1>1, <1>2, <1>3, <1>5, <2>1 DEF ProcessorIInv, SessionInv, Closed
  <1>6. ASSUME AllBy({g \in Items : SidOf[g] = SidOf[f]}, d, j), SidOf[f] \in acc
        PROVE  FALSE
    <2>1. \A g \in Items : SidOf[g] = SidOf[f] /\ TypeOf[g] \in AnyType =>
             \E k \in 1..j : Stood(files, usage, g, d, k)
      BY <1>4, <1>6
    <2> QED
      BY <1>1, <1>2, <1>3, <1>6, <2>1 DEF ProcessorIInv, SessionInv, Closed
  <1> QED
    BY <1>5, <1>6

(* _active_sessions and the accumulators of enricher.py hold no session    *)
(* whose end has been read for good after its starts and its other events. *)
THEOREM EndedSessionsAreForgotten == ProcessorSpec => []EndedIsForgotten
  BY InitProcessor, ProcessorInductive, InvEndedIsForgotten, PTL DEF ProcessorSpec
=============================================================================
