-------------------------- MODULE SshSessionProofs --------------------------
(***************************************************************************)
(* One SSH connection, with any channels, requests, passwords and lines:   *)
(* the numbers of its events, the counters of its session, what its last   *)
(* event says, and whose label a command is logged with.                   *)
(*                                                                         *)
(* Every step is put into one of ten forms, which say field by field       *)
(* what becomes of the session, the draft of a thread and the log; each    *)
(* part of the invariant is then kept by every form.                       *)
(***************************************************************************)
EXTENDS SshSession, FiniteSetTheorems, TLAPS

-----------------------------------------------------------------------------
(* The invariant.                                                          *)

MainPlaces == {"start", "build", "number", "write", "handshake", "negotiating", "accept", "waiting",
               "closing", "done"}
TransportPlaces == {"new", "negotiating", "idle", "dead", "build", "number", "write", "decide",
                    "update", "own_id", "own_seq", "reply", "counted", "answer", "scp"}
ChannelPlaces == {"new", "idle", "done", "build", "number", "write", "reply", "counted", "answer"}

PlacesOf(t) == IF t = Main THEN MainPlaces
               ELSE IF t = Transport THEN TransportPlaces ELSE ChannelPlaces

Session == [sid : {"own", "backend"}, seq : Nat, commands : Nat, attempts : Nat,
            ok : BOOLEAN, label : {None} \cup (Threads \X Nat)]
Seen == [answered : SUBSET (Threads \X Nat), named : SUBSET (Threads \X Nat),
         crossed : SUBSET (Threads \X Nat), foreign : SUBSET (Threads \X Nat), together : BOOLEAN, late : BOOLEAN, after : BOOLEAN]

TypeInv ==
    /\ TypeOK
    /\ pc \in [Threads -> MainPlaces \cup TransportPlaces \cup ChannelPlaces]
    /\ \A t \in Threads : pc[t] \in PlacesOf(t)
    /\ seen \in Seen

\* Where a thread has an event of its own at hand.
Making(t) == pc[t] \in {"build", "number", "write", "reply", "counted"}

TypesOf(t) == IF t = Main THEN {"session_start", "error", "session_end"}
              ELSE IF t = Transport THEN {"auth_attempt", "command"} ELSE {"command", "upload"}

(* What a thread is making has a name of its own, and an answer is given   *)
(* for what is in the log.                                                 *)
OwnOp(t) ==
    /\ Making(t) => /\ draft[t].type \in TypesOf(t)
                    /\ \A e \in log : e.op # draft[t].op
    /\ Making(t) \/ pc[t] = "answer" => draft[t].op = <<t, jobs[t]>> /\ jobs[t] # 0
    /\ pc[t] \in {"reply", "counted"} => draft[t].type = "command"
    /\ pc[t] \in {"reply", "counted", "build", "number"} => draft[t].op \notin seen.crossed
    /\ pc[t] = "answer" => \E e \in log : e.op = draft[t].op

OpInv ==
    /\ \A t \in Threads : OwnOp(t)
    /\ \A e \in log : \E t \in Threads : \E n \in 1..jobs[t] : e.op = <<t, n>>
    /\ \A op \in seen.named : \E t \in Threads : \E n \in 1..jobs[t] : op = <<t, n>>
    /\ \A op \in seen.crossed : \E t \in Threads : \E n \in 1..jobs[t] : op = <<t, n>>
    /\ \A op \in seen.answered : \E e \in log : e.op = op

\* What has a number that was not drawn while the session was replaced.
Numbered == {e \in log : e.op \notin seen.crossed}
Drawn == {t \in Threads : pc[t] = "write" /\ draft[t].op \notin seen.crossed}

\* The last number drawn: _seq, or what check_auth_password saved of it.
LastSeq == IF Replacing THEN draft[Transport].seq ELSE session.seq

(* Their numbers.                                                          *)
SeqInv ==
    /\ LastSeq \in Nat
    /\ {e.seq : e \in Numbered} \cup {draft[t].seq : t \in Drawn} = 1..LastSeq
    /\ LastSeq = Cardinality(Numbered) + Cardinality(Drawn)

(* Whose id an event has.                                                  *)
SidInv ==
    /\ \A e \in log : e.sid = "own" \/ e.op \in seen.foreign
    /\ \A t \in Threads : pc[t] \in {"number", "write"} =>
          draft[t].sid = "own" \/ draft[t].op \in seen.foreign
    /\ session.sid = "own" \/ pc[Transport] = "own_id"

Attempting == pc[Transport] \in {"build", "number", "write"} /\ draft[Transport].type = "auth_attempt"
Trying == Attempting \/ pc[Transport] \in {"decide", "update", "own_id", "own_seq"}

(* There are channels and their threads only after the replacement.        *)
AuthInv ==
    /\ Trying => ~ authed
    /\ \A c \in Channels : open[c] \/ pc[c] # "new" => authed

CrossInv == \A op \in seen.crossed \cup seen.foreign : op[1] = Main

\* Threads that store, or have stored, the number of commands with theirs, until it is
\* written.
Storing == {t \in Threads : pc[t] \in {"build", "number", "write"} /\ draft[t].type = "command"}

FiniteInv == IsFiniteSet(log) /\ IsFiniteSet(Drawn) /\ IsFiniteSet(Storing)

(* The label in the session, while commands do not overlap.                *)
LabelInv ==
    /\ \A t, u \in Threads : Commanding(t) /\ Commanding(u) => t = u
    /\ (\A t \in Threads : pc[t] # "reply") => session.label = None
    /\ \A t \in Threads : pc[t] = "reply" =>
          session.label = IF draft[t].op \in seen.named THEN draft[t].op ELSE None
    /\ \A t \in Threads : pc[t] \in {"counted", "build", "number", "write"}
                             /\ draft[t].type = "command" /\ draft[t].label # Builtin =>
          draft[t].label = IF draft[t].op \in seen.named THEN draft[t].op ELSE None

(* The counters of the session.                                            *)
CountInv ==
    /\ session.attempts = Cardinality(Logged("auth_attempt")) + (IF Attempting THEN 1 ELSE 0)
    /\ session.ok <=> (\E a \in Logged("auth_attempt") : a.ok) \/ (Attempting /\ draft[Transport].ok)
    /\ ~ seen.together =>
          /\ session.commands = Cardinality(Logged("command")) + Cardinality(Storing)
          /\ \A t \in Threads : pc[t] = "counted" => draft[t].commands = session.commands

Ending == pc[Main] \in {"build", "number", "write"} /\ draft[Main].type = "session_end"
Ended == Ending \/ pc[Main] = "done"

\* What session_end says.
Truth(e) ==
    /\ e.attempts = Cardinality(Logged("auth_attempt"))
    /\ e.ok = \E a \in Logged("auth_attempt") : a.ok
    /\ ~ seen.together => e.commands = Cardinality(Logged("command"))

EndInv ==
    /\ Ended => ~ active /\ \A c \in Channels : ~ open[c]
    /\ Ended /\ ~ seen.late => \A t \in Threads \ {Main} : ~ Busy(t)
    /\ Logged("session_end") # {} => pc[Main] = "done"
    /\ seen.after => Logged("session_end") # {}
    /\ Ending /\ ~ seen.late => Truth(draft[Main])
    /\ \A e \in Logged("session_end") : ~ seen.late => ~ seen.after /\ Truth(e)

IInv ==
    /\ TypeInv
    /\ OpInv
    /\ FiniteInv
    /\ SeqInv
    /\ SidInv
    /\ AuthInv
    /\ CrossInv
    /\ ~ seen.together => LabelInv
    /\ CountInv
    /\ EndInv


-----------------------------------------------------------------------------
(* Types.                                                                  *)

LEMMA ThreadFacts ==
    /\ Main \in Threads /\ Transport \in Threads /\ Main # Transport
    /\ \A c \in Channels : c \in Threads /\ c # Main /\ c # Transport
    /\ None \notin Channels
BY SSAssumption DEF Threads

LEMMA InitTypes == Init => TypeInv
<1> SUFFICES ASSUME Init PROVE TypeInv
  OBVIOUS
<1> USE ThreadFacts DEF Init
<1>1. session \in Session
  BY DEF Session
<1>2. draft \in [Threads -> Draft]
  BY DEF Draft, NoDraft, Labels
<1>3. seen \in Seen
  BY DEF Seen
<1>4. pc \in [Threads -> MainPlaces \cup TransportPlaces \cup ChannelPlaces]
      /\ \A t \in Threads : pc[t] \in PlacesOf(t)
  BY DEF MainPlaces, TransportPlaces, ChannelPlaces, PlacesOf
<1>5. pc[Main] # "waiting"
  OBVIOUS
<1>6. log \subseteq Draft
  OBVIOUS
<1>7. jobs \in [Threads -> Nat]
  OBVIOUS
<1>8. active \in BOOLEAN /\ authed \in BOOLEAN
  OBVIOUS
<1>9. kind \in [Channels -> {None, "session", "shell", "exec", "scp", "sftp"}]
  OBVIOUS
<1>10. open \in [Channels -> BOOLEAN] /\ pending \in [Channels -> BOOLEAN]
  OBVIOUS
<1>11. accepts \in Seq(Channels) /\ serving = None
  OBVIOUS
<1> QED
  BY <1>1, <1>2, <1>3, <1>4, <1>5, <1>6, <1>7, <1>8, <1>9, <1>10, <1>11 DEF TypeInv, TypeOK, Session

\* What a thread is making, of whatever type.
LEMMA DraftsTyped ==
    ASSUME TypeInv, NEW t \in Threads, NEW type \in {"session_start", "error", "command", "upload"},
           NEW label \in Labels, Drafts(t, type, label)
    PROVE  /\ jobs' \in [Threads -> Nat] /\ draft' \in [Threads -> Draft]
           /\ jobs'[t] = jobs[t] + 1
           /\ draft'[t].op = <<t, jobs[t] + 1>> /\ <<t, jobs[t] + 1>> \in Threads \X Nat
           /\ draft'[t].type = type /\ draft'[t].label = label
           /\ draft'[t].commands = session.commands
           /\ \A u \in Threads \ {t} : draft'[u] = draft[u] /\ jobs'[u] = jobs[u]
<1>1. jobs \in [Threads -> Nat] /\ draft \in [Threads -> Draft] /\ session.commands \in Nat
  BY DEF TypeInv, TypeOK
<1>2. jobs' = [jobs EXCEPT ![t] = jobs[t] + 1]
  BY DEF Drafts
<1>3. jobs' \in [Threads -> Nat] /\ jobs'[t] = jobs[t] + 1 /\ jobs[t] + 1 \in Nat
  BY <1>1, <1>2
<1> DEFINE d == [NoDraft EXCEPT !.type = type, !.op = <<t, jobs[t] + 1>>, !.label = label,
                                !.commands = session.commands]
<1>4. draft' = [draft EXCEPT ![t] = d]
  BY <1>3 DEF Drafts
<1>5. /\ d \in Draft /\ d.type = type /\ d.op = <<t, jobs[t] + 1>> /\ d.label = label
      /\ d.commands = session.commands
  BY <1>1, <1>3 DEF Draft, NoDraft
<1> HIDE DEF d
<1> QED
  BY <1>1, <1>2, <1>3, <1>4, <1>5

LEMMA GoingTyped ==
    ASSUME TypeInv, NEW t \in Threads, NEW from, NEW to \in PlacesOf(t), Goes(t, from, to)
    PROVE  /\ pc' \in [Threads -> MainPlaces \cup TransportPlaces \cup ChannelPlaces]
           /\ \A u \in Threads : pc'[u] \in PlacesOf(u)
           /\ pc[t] = from /\ pc'[t] = to /\ \A u \in Threads \ {t} : pc'[u] = pc[u]
<1>1. pc' = [pc EXCEPT ![t] = to] /\ pc[t] = from
  BY DEF Goes
<1>2. to \in MainPlaces \cup TransportPlaces \cup ChannelPlaces
  BY DEF PlacesOf
<1> QED
  BY <1>1, <1>2 DEF TypeInv

\* Steps that change no more than where threads are, and the channels.
PlacesTyped ==
    /\ pc \in [Threads -> MainPlaces \cup TransportPlaces \cup ChannelPlaces]
    /\ \A t \in Threads : pc[t] \in PlacesOf(t)

ChansTyped ==
    /\ active \in BOOLEAN /\ authed \in BOOLEAN
    /\ kind \in [Channels -> {None, "session", "shell", "exec", "scp", "sftp"}]
    /\ open \in [Channels -> BOOLEAN] /\ pending \in [Channels -> BOOLEAN]
    /\ accepts \in Seq(Channels)
    /\ serving \in IF pc[Main] = "waiting" THEN Channels ELSE {None}

EventsTyped ==
    session \in Session /\ log \subseteq Draft /\ draft \in [Threads -> Draft]
        /\ jobs \in [Threads -> Nat] /\ seen \in Seen

LEMMA TypeParts == TypeInv <=> PlacesTyped /\ ChansTyped /\ EventsTyped
BY DEF TypeInv, TypeOK, PlacesTyped, ChansTyped, EventsTyped, Session

LEMMA TypeParts_ == TypeInv' <=> PlacesTyped' /\ ChansTyped' /\ EventsTyped'
BY DEF TypeInv, TypeOK, PlacesTyped, ChansTyped, EventsTyped, Session

\* Where a step of t other than Main leaves Main, and what it does of channels.
LEMMA OthersChans ==
    ASSUME TypeInv, NEW t \in Threads \ {Main}, NEW from, NEW to \in PlacesOf(t), Goes(t, from, to),
           UNCHANGED <<active, authed, chans>>
    PROVE  PlacesTyped' /\ ChansTyped'
BY GoingTyped, TypeParts, ThreadFacts DEF PlacesTyped, ChansTyped, chans

LEMMA MainChans ==
    ASSUME TypeInv, NEW from, NEW to \in MainPlaces, Goes(Main, from, to),
           from # "waiting", to # "waiting", UNCHANGED <<active, authed, chans>>
    PROVE  PlacesTyped' /\ ChansTyped'
BY GoingTyped, TypeParts, ThreadFacts DEF PlacesTyped, ChansTyped, chans, PlacesOf

LEMMA EventsKept ==
    ASSUME TypeInv, UNCHANGED <<session, log, draft, jobs, seen>>
    PROVE  EventsTyped'
BY TypeParts DEF EventsTyped

\* The id and the number of an event, and what the steps that set them do to the draft.
LEMMA NumbersTyped ==
    ASSUME TypeInv, NEW t \in Threads, ReadSid(t) \/ NumberEvent(t)
    PROVE  /\ draft' \in [Threads -> Draft]
           /\ draft'[t].type = draft[t].type /\ draft'[t].op = draft[t].op
           /\ draft'[t].label = draft[t].label /\ draft'[t].commands = draft[t].commands
           /\ draft'[t].attempts = draft[t].attempts /\ draft'[t].ok = draft[t].ok
           /\ ReadSid(t) => draft'[t].sid = session.sid /\ draft'[t].seq = draft[t].seq
           /\ NumberEvent(t) => draft'[t].sid = draft[t].sid /\ draft'[t].seq = session.seq + 1
           /\ \A u \in Threads \ {t} : draft'[u] = draft[u]
<1>1. draft[t] \in Draft /\ draft \in [Threads -> Draft]
  BY DEF TypeInv, TypeOK
<1>2. session.sid \in {"own", "backend"} /\ session.seq + 1 \in Nat
  BY DEF TypeInv, TypeOK
<1>3. CASE ReadSid(t)
  <2> DEFINE d == [draft[t] EXCEPT !.sid = session.sid]
  <2>1. /\ d \in Draft /\ d.sid = session.sid /\ d.seq = draft[t].seq
        /\ d.type = draft[t].type /\ d.op = draft[t].op /\ d.label = draft[t].label
        /\ d.commands = draft[t].commands /\ d.attempts = draft[t].attempts /\ d.ok = draft[t].ok
    BY <1>1, <1>2 DEF Draft
  <2>2. draft' = [draft EXCEPT ![t] = d] /\ pc[t] = "build"
    BY <1>1, <1>3 DEF ReadSid, Goes
  <2>3. ~ NumberEvent(t)
    BY <2>2 DEF NumberEvent, Goes
  <2> HIDE DEF d
  <2> QED
    BY <1>1, <2>1, <2>2, <2>3
<1>4. CASE NumberEvent(t)
  <2> DEFINE d == [draft[t] EXCEPT !.seq = session.seq + 1]
  <2>1. /\ d \in Draft /\ d.sid = draft[t].sid /\ d.seq = session.seq + 1
        /\ d.type = draft[t].type /\ d.op = draft[t].op /\ d.label = draft[t].label
        /\ d.commands = draft[t].commands /\ d.attempts = draft[t].attempts /\ d.ok = draft[t].ok
    BY <1>1, <1>2 DEF Draft
  <2>2. draft' = [draft EXCEPT ![t] = d] /\ pc[t] = "number"
    BY <1>1, <1>4 DEF NumberEvent, Goes
  <2>3. ~ ReadSid(t)
    BY <2>2 DEF ReadSid, Goes
  <2> HIDE DEF d
  <2> QED
    BY <1>1, <2>1, <2>2, <2>3
<1> QED
  BY <1>3, <1>4

LEMMA SessionIs ==
    ASSUME TypeInv
    PROVE  /\ session \in Session
           /\ session.sid \in {"own", "backend"} /\ session.seq \in Nat /\ session.commands \in Nat
           /\ session.attempts \in Nat /\ session.ok \in BOOLEAN
           /\ session.label \in {None} \cup (Threads \X Nat)
BY DEF TypeInv, TypeOK, Session

LEMMA MainTypes == TypeInv /\ HandleClient /\ ~ LogEvent(Main) => TypeInv'
<1> SUFFICES ASSUME TypeInv, HandleClient, ~ LogEvent(Main) PROVE TypeInv'
  OBVIOUS
<1> USE ThreadFacts
<1>1. CASE LogSessionStart \/ LogFingerprint
  <2>1. PICK from \in {"start", "negotiating"}, type \in {"session_start", "error"} :
          Goes(Main, from, "build") /\ Drafts(Main, type, None)
            /\ UNCHANGED <<session, log, active, authed, chans, seen>>
    BY <1>1 DEF LogSessionStart, LogFingerprint
  <2>2. PlacesTyped' /\ ChansTyped'
    BY <2>1, MainChans DEF MainPlaces
  <2>3. EventsTyped'
    BY <2>1, DraftsTyped, TypeParts DEF EventsTyped, Labels
  <2> QED
    BY <2>2, <2>3, TypeParts_
<1>2. CASE StartServer
  <2>1. PlacesTyped'
    BY <1>2 DEF StartServer, TypeInv, PlacesTyped, PlacesOf, MainPlaces, TransportPlaces
  <2>2. ChansTyped'
    BY <1>2 DEF StartServer, TypeInv, TypeOK, ChansTyped, chans, PlacesOf
  <2> QED
    BY <1>2, <2>1, <2>2, EventsKept, TypeParts_ DEF StartServer
<1>3. CASE HandshakeFails
  <2>1. PlacesTyped' /\ ChansTyped'
    BY <1>3, MainChans DEF HandshakeFails, MainPlaces
  <2> QED
    BY <1>3, <2>1, EventsKept, TypeParts_ DEF HandshakeFails
<1>4. CASE AcceptChannel
  <2>1. PlacesTyped' /\ pc'[Main] = "waiting"
    BY <1>4, GoingTyped DEF AcceptChannel, PlacesTyped, PlacesOf, MainPlaces
  <2>2. Head(accepts) \in Channels /\ Tail(accepts) \in Seq(Channels)
    BY <1>4 DEF AcceptChannel, TypeInv, TypeOK
  <2>3. ChansTyped'
    BY <1>4, <2>1, <2>2 DEF AcceptChannel, TypeInv, TypeOK, ChansTyped
  <2> QED
    BY <1>4, <2>1, <2>3, EventsKept, TypeParts_ DEF AcceptChannel
<1>5. CASE ChannelClosed
  <2>1. PlacesTyped' /\ pc'[Main] # "waiting"
    BY <1>5 DEF ChannelClosed, TypeInv, PlacesTyped, PlacesOf, MainPlaces
  <2>2. ChansTyped'
    BY <1>5, <2>1 DEF ChannelClosed, TypeInv, TypeOK, ChansTyped
  <2> QED
    BY <1>5, <2>1, <2>2, EventsKept, TypeParts_ DEF ChannelClosed
<1>6. CASE LeaveLoop
  <2>1. PlacesTyped' /\ ChansTyped'
    BY <1>6, MainChans DEF LeaveLoop, MainPlaces
  <2> QED
    BY <1>6, <2>1, EventsKept, TypeParts_ DEF LeaveLoop
<1>7. CASE LogSessionEnd
  <2>1. PlacesTyped' /\ pc[Main] # "waiting" /\ pc'[Main] # "waiting"
    BY <1>7, GoingTyped DEF LogSessionEnd, PlacesTyped, PlacesOf, MainPlaces
  <2>2. ChansTyped'
    BY <1>7, <2>1 DEF LogSessionEnd, TypeInv, TypeOK, ChansTyped
  <2>3. jobs' \in [Threads -> Nat] /\ jobs'[Main] \in Nat
    BY <1>7 DEF LogSessionEnd, TypeInv, TypeOK
  <2>4. EndOfSession \in Draft
    BY <2>3 DEF EndOfSession, NoDraft, Draft, Labels, TypeInv, TypeOK
  <2>5. draft' \in [Threads -> Draft]
    BY <1>7, <2>4 DEF LogSessionEnd, TypeInv, TypeOK
  <2>6. seen' \in Seen
    BY <1>7 DEF LogSessionEnd, TypeInv, Seen
  <2>7. EventsTyped'
    BY <1>7, <2>3, <2>5, <2>6, TypeParts DEF LogSessionEnd, EventsTyped
  <2> QED
    BY <2>1, <2>2, <2>7, TypeParts_
<1> QED
  BY <1>1, <1>2, <1>3, <1>4, <1>5, <1>6, <1>7 DEF HandleClient

\* The answer to an answer, number or label is of its type.
LEMMA LogEventTypes ==
    ASSUME TypeInv, NEW t \in Threads, OpInv, LogEvent(t)
    PROVE  TypeInv'
<1> USE ThreadFacts
<1>0. Making(t) => draft[t].op \in Threads \X Nat
  <2>1. Making(t) => draft[t].op = <<t, jobs[t]>>
    BY DEF OpInv, OwnOp
  <2>2. jobs[t] \in Nat
    BY DEF TypeInv, TypeOK
  <2> QED
    BY <2>1, <2>2
<1>1. CASE ReadSid(t) \/ NumberEvent(t)
  <2>0. {"number", "write"} \subseteq PlacesOf(t)
    BY DEF PlacesOf, MainPlaces, TransportPlaces, ChannelPlaces
  <2>1. PlacesTyped' /\ ChansTyped'
    BY <1>1, <2>0, OthersChans, MainChans DEF ReadSid, NumberEvent, MainPlaces
  <2>2. draft' \in [Threads -> Draft]
    BY <1>1, NumbersTyped
  <2>3. session' \in Session
    BY <1>1, SessionIs DEF ReadSid, NumberEvent, Session
  <2>4. draft[t].op \in Threads \X Nat
    BY <1>0, <1>1 DEF ReadSid, NumberEvent, Goes, Making
  <2>5. seen' \in Seen
    <3>1. /\ seen.foreign \cup {draft[t].op} \in SUBSET (Threads \X Nat)
          /\ seen.crossed \cup {draft[t].op} \in SUBSET (Threads \X Nat)
      BY <2>4 DEF TypeInv, Seen
    <3>2. CASE ReadSid(t)
      BY <3>1, <3>2 DEF ReadSid, TypeInv, Seen
    <3>3. CASE NumberEvent(t)
      BY <3>1, <3>3 DEF NumberEvent, TypeInv, Seen
    <3> QED
      BY <1>1, <3>2, <3>3
  <2>6. log' = log /\ jobs' = jobs
    BY <1>1 DEF ReadSid, NumberEvent
  <2> QED
    BY <1>1, <2>1, <2>2, <2>3, <2>5, <2>6, TypeParts, TypeParts_ DEF EventsTyped
<1>2. CASE WriteEvent(t)
  <2>0. After(draft[t].type) \in PlacesOf(t)
    BY <1>2 DEF WriteEvent, Goes, After, OpInv, OwnOp, Making, TypesOf, PlacesOf, MainPlaces,
                TransportPlaces, ChannelPlaces
  <2>5. t = Main => After(draft[t].type) # "waiting"
    BY <1>2 DEF WriteEvent, Goes, After, OpInv, OwnOp, Making, TypesOf
  <2>1. PlacesTyped' /\ ChansTyped'
    BY <1>2, <2>0, <2>5, OthersChans, MainChans DEF WriteEvent, PlacesOf
  <2>2. draft[t] \in Draft
    BY DEF TypeInv, TypeOK
  <2>3. [draft[t] EXCEPT !.label = None, !.commands = 0] \in Draft
    BY <2>2 DEF Draft, Labels
  <2>4. log' \subseteq Draft
    BY <1>2, <2>2, <2>3 DEF WriteEvent, TypeInv, TypeOK
  <2>6. seen' \in Seen
    BY <1>2 DEF WriteEvent, TypeInv, Seen
  <2> QED
    BY <1>2, <2>1, <2>4, <2>6, TypeParts, TypeParts_ DEF WriteEvent, EventsTyped
<1> QED
  BY <1>1, <1>2 DEF LogEvent

\* A command taken up, by the transport thread or a shell.
LEMMA TakesTyped ==
    ASSUME TypeInv, NEW t \in Threads \ {Main}, TakesCommand(t)
    PROVE  /\ PlacesTyped' /\ EventsTyped' /\ UNCHANGED <<log, active, authed>>
           /\ pc[t] = "idle" /\ pc'[t] \in {"reply", "counted"}
           /\ \A u \in Threads \ {t} : pc'[u] = pc[u]
<1> USE ThreadFacts
<1>0. {"reply", "counted"} \subseteq PlacesOf(t)
  BY DEF PlacesOf, TransportPlaces, ChannelPlaces
<1>1. PICK to \in {"reply", "counted"}, label \in {None, Builtin} :
        Goes(t, "idle", to) /\ Drafts(t, "command", label)
  BY DEF TakesCommand
<1>2. /\ PlacesTyped' /\ pc[t] = "idle" /\ pc'[t] = to
      /\ \A u \in Threads \ {t} : pc'[u] = pc[u]
  BY <1>0, <1>1, GoingTyped DEF PlacesTyped
<1>3. /\ jobs' \in [Threads -> Nat] /\ draft' \in [Threads -> Draft]
      /\ draft'[t].op \in Threads \X Nat
  <2>1. label \in Labels
    BY <1>1 DEF Labels
  <2> QED
    BY <1>1, <2>1, DraftsTyped
<1>4. session' \in Session
  <2>1. session' = session \/ session' = [session EXCEPT !.label = draft'[t].op]
    BY DEF TakesCommand
  <2> QED
    BY <2>1, <1>3, SessionIs DEF Session
<1>5. seen' \in Seen
  <2>1. \/ seen' = [seen EXCEPT !.together = @ \/ \E u \in Threads \ {t} : Commanding(u)]
        \/ seen' = [seen EXCEPT !.together = @ \/ \E u \in Threads \ {t} : Commanding(u),
                                !.named = @ \cup {draft'[t].op}]
        \/ seen' = [seen EXCEPT !.together = @ \/ \E u \in Threads \ {t} : Commanding(u),
                                !.named = @]
    BY DEF TakesCommand
  <2>2. seen \in Seen /\ draft'[t].op \in Threads \X Nat
    BY <1>3 DEF TypeInv
  <2>3. CASE seen' = [seen EXCEPT !.together = @ \/ \E u \in Threads \ {t} : Commanding(u),
                                  !.named = @ \cup {draft'[t].op}]
    <3>1. seen.named \cup {draft'[t].op} \in SUBSET (Threads \X Nat)
      BY <2>2 DEF Seen
    <3>2. (seen.together \/ \E u \in Threads \ {t} : Commanding(u)) \in BOOLEAN
      OBVIOUS
    <3> QED
      BY <2>2, <2>3, <3>1, <3>2 DEF Seen
  <2> QED
    BY <2>1, <2>2, <2>3 DEF Seen
<1>6. UNCHANGED <<log, active, authed>>
  BY DEF TakesCommand
<1> QED
  BY <1>1, <1>2, <1>3, <1>4, <1>5, <1>6, TypeParts DEF EventsTyped

LEMMA CommandTypes ==
    ASSUME TypeInv, OpInv, NEW t \in Threads \ {Main}, Command(t)
    PROVE  TypeInv'
<1> USE ThreadFacts
<1>0. {"counted", "build", "idle"} \subseteq PlacesOf(t) /\ (t \in Channels => "done" \in PlacesOf(t))
  BY DEF PlacesOf, TransportPlaces, ChannelPlaces
<1>1. CASE PopLabel(t)
  <2>1. PlacesTyped' /\ ChansTyped'
    BY <1>0, <1>1, OthersChans DEF PopLabel
  <2>2. [draft[t] EXCEPT !.label = session.label, !.commands = session.commands] \in Draft
    <3>1. draft[t] \in Draft /\ session.label \in Labels /\ session.commands \in Nat
      BY SessionIs DEF TypeInv, TypeOK, Labels
    <3> QED
      BY <3>1 DEF Draft
  <2>3. draft' \in [Threads -> Draft]
    BY <1>1, <2>2 DEF PopLabel, TypeInv, TypeOK
  <2>4. session' \in Session
    BY <1>1, SessionIs DEF PopLabel, Session
  <2> QED
    BY <1>1, <2>1, <2>3, <2>4, TypeParts, TypeParts_ DEF PopLabel, EventsTyped
<1>2. CASE StoreCommands(t)
  <2>1. PlacesTyped' /\ ChansTyped'
    BY <1>0, <1>2, OthersChans DEF StoreCommands
  <2>2. draft[t].commands \in Nat
    BY DEF TypeInv, TypeOK, Draft
  <2>3. session' \in Session
    BY <1>2, <2>2, SessionIs DEF StoreCommands, Session
  <2> QED
    BY <1>2, <2>1, <2>3, TypeParts, TypeParts_ DEF StoreCommands, EventsTyped
<1>3. CASE Answer(t)
  <2>1. PlacesTyped' /\ ChansTyped'
    BY <1>0, <1>3, OthersChans DEF Answer
  <2>2. NoDraft \in Draft
    BY DEF NoDraft, Draft, Labels
  <2>3. draft' \in [Threads -> Draft]
    BY <1>3, <2>2 DEF Answer, TypeInv, TypeOK
  <2>4. draft[t].op \in Threads \X Nat
    <3>1. draft[t].op = <<t, jobs[t]>>
      BY <1>3 DEF Answer, Goes, OpInv, OwnOp
    <3>2. jobs[t] \in Nat
      BY DEF TypeInv, TypeOK
    <3> QED
      BY <3>1, <3>2
  <2>5. seen' \in Seen
    BY <1>3, <2>4 DEF Answer, TypeInv, Seen
  <2> QED
    BY <1>3, <2>1, <2>3, <2>5, TypeParts, TypeParts_ DEF Answer, EventsTyped
<1> QED
  BY <1>1, <1>2, <1>3 DEF Command

LEMMA AuthenticateTypes == TypeInv /\ Authenticate => TypeInv'
<1> SUFFICES ASSUME TypeInv, Authenticate PROVE TypeInv'
  OBVIOUS
<1> USE ThreadFacts
<1>0. {"idle", "update", "own_id", "own_seq"} \subseteq PlacesOf(Transport)
  BY DEF PlacesOf, TransportPlaces
<1>1. CASE Reject
  <2>1. PlacesTyped' /\ ChansTyped'
    BY <1>0, <1>1, OthersChans DEF Reject
  <2> QED
    BY <1>1, <2>1, EventsKept, TypeParts_ DEF Reject
<1>2. CASE AcceptWithoutBackend
  <2>1. PlacesTyped' /\ ChansTyped'
    BY <1>0, <1>2, GoingTyped, TypeParts DEF AcceptWithoutBackend, PlacesTyped, ChansTyped, chans
  <2> QED
    BY <1>2, <2>1, EventsKept, TypeParts_ DEF AcceptWithoutBackend
<1>3. CASE SaveSeq
  <2>1. PlacesTyped' /\ ChansTyped'
    BY <1>0, <1>3, OthersChans DEF SaveSeq
  <2>2. draft' \in [Threads -> Draft]
    <3>0. draft[Transport] \in Draft
      BY DEF TypeInv, TypeOK
    <3>1. [draft[Transport] EXCEPT !.seq = session.seq] \in Draft
      BY <3>0, SessionIs DEF Draft
    <3> QED
      BY <1>3, <3>1 DEF SaveSeq, TypeInv, TypeOK
  <2> QED
    BY <1>3, <2>1, <2>2, TypeParts, TypeParts_ DEF SaveSeq, EventsTyped
<1>4. CASE UpdateSession
  <2>1. PlacesTyped' /\ ChansTyped'
    BY <1>0, <1>4, OthersChans DEF UpdateSession
  <2>2. session' \in Session
    BY <1>4, SessionIs DEF UpdateSession, Session
  <2> QED
    BY <1>4, <2>1, <2>2, TypeParts, TypeParts_ DEF UpdateSession, EventsTyped
<1>5. CASE RestoreSid
  <2>1. PlacesTyped' /\ ChansTyped'
    BY <1>0, <1>5, OthersChans DEF RestoreSid
  <2>2. session' \in Session
    BY <1>5, SessionIs DEF RestoreSid, Session
  <2> QED
    BY <1>5, <2>1, <2>2, TypeParts, TypeParts_ DEF RestoreSid, EventsTyped
<1>6. CASE RestoreSeq
  <2>1. PlacesTyped' /\ ChansTyped'
    BY <1>0, <1>6, GoingTyped, TypeParts DEF RestoreSeq, PlacesTyped, ChansTyped, chans
  <2>2. draft[Transport].seq \in Nat
    BY DEF TypeInv, TypeOK, Draft
  <2>3. session' \in Session
    BY <1>6, <2>2, SessionIs DEF RestoreSeq, Session
  <2> QED
    BY <1>6, <2>1, <2>3, TypeParts, TypeParts_ DEF RestoreSeq, EventsTyped
<1> QED
  BY <1>1, <1>2, <1>3, <1>4, <1>5, <1>6 DEF Authenticate

LEMMA TransportTypes ==
    ASSUME TypeInv, Negotiate \/ Dies \/ ScpTimeout \/ AuthPassword
    PROVE  TypeInv'
<1> USE ThreadFacts
<1>0. {"idle", "dead", "build"} \subseteq PlacesOf(Transport)
  BY DEF PlacesOf, TransportPlaces
<1>1. CASE Negotiate
  <2>1. PlacesTyped' /\ ChansTyped'
    BY <1>0, <1>1, OthersChans DEF Negotiate
  <2> QED
    BY <1>1, <2>1, EventsKept, TypeParts_ DEF Negotiate
<1>2. CASE Dies
  <2>1. Goes(Transport, pc[Transport], "dead")
    BY <1>2 DEF Dies, Goes
  <2>2. PlacesTyped' /\ pc'[Main] = pc[Main]
    BY <1>0, <2>1, GoingTyped DEF PlacesTyped
  <2>3. ChansTyped'
    BY <1>2, <2>2 DEF Dies, TypeInv, TypeOK, ChansTyped
  <2> QED
    BY <1>2, <2>2, <2>3, EventsKept, TypeParts_ DEF Dies
<1>3. CASE ScpTimeout
  <2>1. PlacesTyped' /\ ChansTyped'
    BY <1>0, <1>3, OthersChans DEF ScpTimeout
  <2> QED
    BY <1>3, <2>1, EventsKept, TypeParts_ DEF ScpTimeout
<1>4. CASE AuthPassword
  <2>1. PICK accepted \in BOOLEAN :
          /\ jobs' = [jobs EXCEPT ![Transport] = @ + 1]
          /\ draft' = [draft EXCEPT ![Transport] =
                          [NoDraft EXCEPT !.type = "auth_attempt",
                                          !.op = <<Transport, jobs'[Transport]>>,
                                          !.ok = accepted]]
          /\ session' = [session EXCEPT !.attempts = @ + 1, !.ok = @ \/ accepted]
    BY <1>4 DEF AuthPassword
  <2>2. PlacesTyped' /\ ChansTyped'
    BY <1>0, <1>4, OthersChans DEF AuthPassword, Receives
  <2>3. jobs' \in [Threads -> Nat] /\ jobs'[Transport] \in Nat
    BY <2>1 DEF TypeInv, TypeOK
  <2>4. [NoDraft EXCEPT !.type = "auth_attempt", !.op = <<Transport, jobs'[Transport]>>,
                        !.ok = accepted] \in Draft
    BY <2>3 DEF NoDraft, Draft, Labels
  <2>5. draft' \in [Threads -> Draft]
    BY <2>1, <2>4 DEF TypeInv, TypeOK
  <2>6. session' \in Session
    <3>1. session.attempts + 1 \in Nat /\ (session.ok \/ accepted) \in BOOLEAN
      BY SessionIs
    <3>2. session' = [session EXCEPT !.attempts = session.attempts + 1, !.ok = session.ok \/ accepted]
      BY <2>1
    <3> HIDE <2>1
    <3> QED
      BY <3>1, <3>2, SessionIs DEF Session
  <2> QED
    BY <1>4, <2>2, <2>3, <2>5, <2>6, TypeParts, TypeParts_ DEF AuthPassword, EventsTyped
<1> QED
  BY <1>1, <1>2, <1>3, <1>4

LEMMA ChannelTypes ==
    ASSUME TypeInv, NEW c \in Channels,
           \/ OpenChannel(c) \/ RequestThread(c) \/ RequestExec(c) \/ RequestScp(c)
           \/ ReceiveData(c) \/ CloseChannel(c) \/ CloseFile(c)
           \/ ShellCommand(c) \/ ShellEnds(c) \/ SftpEnds(c)
    PROVE  TypeInv'
<1> USE ThreadFacts
<1>0. /\ {"idle", "done", "build"} \subseteq PlacesOf(c) /\ "scp" \in PlacesOf(Transport)
      /\ \A d \in Channels : Kinds[d] \subseteq {"shell", "exec", "scp", "sftp"}
  BY SSAssumption DEF PlacesOf, TransportPlaces, ChannelPlaces
<1>1. CASE OpenChannel(c)
  <2>1. PlacesTyped'
    BY <1>1, TypeParts DEF OpenChannel, PlacesTyped
  <2>2. ChansTyped'
    BY <1>1 DEF OpenChannel, TypeInv, TypeOK, ChansTyped
  <2> QED
    BY <1>1, <2>1, <2>2, EventsKept, TypeParts_ DEF OpenChannel
<1>2. \A k : Requested(c, k) /\ pc'[Main] = pc[Main] /\ UNCHANGED <<active, authed>> => ChansTyped'
  BY <1>0 DEF Requested, TypeInv, TypeOK, ChansTyped
<1>3. CASE RequestThread(c)
  <2>1. PlacesTyped' /\ pc'[Main] = pc[Main]
    BY <1>0, <1>3, GoingTyped DEF RequestThread, PlacesTyped
  <2> QED
    BY <1>2, <1>3, <2>1, EventsKept, TypeParts_ DEF RequestThread
<1>4. CASE RequestExec(c)
  BY <1>2, <1>4, TakesTyped, TypeParts_ DEF RequestExec
<1>5. CASE RequestScp(c)
  <2>1. PlacesTyped' /\ pc'[Main] = pc[Main]
    BY <1>0, <1>5, GoingTyped DEF RequestScp, PlacesTyped
  <2> QED
    BY <1>2, <1>5, <2>1, EventsKept, TypeParts_ DEF RequestScp
<1>6. CASE ReceiveData(c) \/ CloseChannel(c)
  <2>1. PlacesTyped'
    BY <1>6, TypeParts DEF ReceiveData, CloseChannel, PlacesTyped
  <2>2. ChansTyped'
    BY <1>6 DEF ReceiveData, CloseChannel, TypeInv, TypeOK, ChansTyped
  <2> QED
    BY <1>6, <2>1, <2>2, EventsKept, TypeParts_ DEF ReceiveData, CloseChannel
<1>7. CASE CloseFile(c)
  <2>1. PlacesTyped' /\ pc'[Main] = pc[Main]
    BY <1>0, <1>7, GoingTyped DEF CloseFile, PlacesTyped
  <2>2. ChansTyped'
    BY <1>7, <2>1 DEF CloseFile, TypeInv, TypeOK, ChansTyped
  <2>3. EventsTyped'
    BY <1>7, DraftsTyped, TypeParts DEF CloseFile, EventsTyped, Labels
  <2> QED
    BY <2>1, <2>2, <2>3, TypeParts_
<1>8. CASE ShellCommand(c)
  <2>1. PlacesTyped' /\ pc'[Main] = pc[Main] /\ EventsTyped' /\ UNCHANGED <<active, authed>>
    BY <1>8, TakesTyped DEF ShellCommand
  <2>2. ChansTyped'
    BY <1>8, <2>1 DEF ShellCommand, TypeInv, TypeOK, ChansTyped
  <2> QED
    BY <2>1, <2>2, TypeParts_
<1>9. CASE ShellEnds(c)
  <2>1. PlacesTyped' /\ pc'[Main] = pc[Main]
    BY <1>0, <1>9, GoingTyped DEF ShellEnds, PlacesTyped
  <2>2. ChansTyped'
    BY <1>9, <2>1 DEF ShellEnds, TypeInv, TypeOK, ChansTyped
  <2> QED
    BY <1>9, <2>1, <2>2, EventsKept, TypeParts_ DEF ShellEnds
<1>10. CASE SftpEnds(c)
  <2>1. PlacesTyped' /\ ChansTyped'
    BY <1>0, <1>10, OthersChans DEF SftpEnds
  <2> QED
    BY <1>10, <2>1, EventsKept, TypeParts_ DEF SftpEnds
<1> QED
  BY <1>1, <1>3, <1>4, <1>5, <1>6, <1>7, <1>8, <1>9, <1>10

LEMMA TypesKept == TypeInv /\ OpInv /\ [Next]_vars => TypeInv'
<1> SUFFICES ASSUME TypeInv, OpInv, [Next]_vars PROVE TypeInv'
  OBVIOUS
<1>1. CASE UNCHANGED vars
  BY <1>1 DEF TypeInv, TypeOK, vars, chans
<1>2. CASE HandleClient
  BY <1>2, MainTypes, LogEventTypes, ThreadFacts
<1>3. CASE TransportThread
  BY <1>3, TransportTypes, AuthenticateTypes, CommandTypes, LogEventTypes, ThreadFacts
     DEF TransportThread, TransportEnds
<1>4. CASE Client
  BY <1>4, TransportTypes, ChannelTypes DEF Client, TransportRaises
<1>5. ASSUME NEW c \in Channels, ChannelThread(c) PROVE TypeInv'
  BY <1>5, ChannelTypes, CommandTypes, LogEventTypes, ThreadFacts DEF ChannelThread
<1> QED
  BY <1>1, <1>2, <1>3, <1>4, <1>5 DEF Next

-----------------------------------------------------------------------------
(* The forms of steps, as far as events are concerned.                     *)

Held == {"build", "number", "write", "reply", "counted", "answer", "update", "own_id", "own_seq"}

Others(t, f, g) == \A u \in Threads \ {t} : f[u] = g[u]

\* Of the history, all but what says whether a thread was busy at the end.
SameSeen == /\ seen'.answered = seen.answered /\ seen'.named = seen.named
            /\ seen'.crossed = seen.crossed /\ seen'.foreign = seen.foreign
            /\ seen'.together = seen.together /\ seen'.after = seen.after

SameCounts == session'.attempts = session.attempts /\ session'.ok = session.ok

Quiet ==
    /\ UNCHANGED <<session, log, draft, jobs, seen>>
    /\ \A t \in Threads : pc'[t] = pc[t] \/ (pc[t] \notin Held /\ pc'[t] \notin Held)

\* Thread t begins to make an event, after it has done what the event is about.
Begins(t) ==
    /\ pc[t] \notin Held /\ pc'[t] = "build" /\ Others(t, pc', pc)
    /\ jobs'[t] = jobs[t] + 1 /\ Others(t, jobs', jobs)
    /\ draft'[t].op = <<t, jobs[t] + 1>> /\ draft'[t].type \in TypesOf(t) \ {"command"}
    /\ Others(t, draft', draft)
    /\ log' = log /\ SameSeen
    /\ session'.sid = session.sid /\ session'.seq = session.seq
    /\ session'.commands = session.commands /\ session'.label = session.label
    /\ t # Transport => SameCounts
    /\ t = Transport => /\ session'.attempts = session.attempts + 1
                        /\ session'.ok = (session.ok \/ draft'[t].ok)

\* Thread t takes up a command; its handler may leave a label.
Takes(t) ==
    /\ t # Main
    /\ pc[t] \notin Held /\ pc'[t] \in {"reply", "counted"} /\ Others(t, pc', pc)
    /\ jobs'[t] = jobs[t] + 1 /\ Others(t, jobs', jobs)
    /\ draft'[t].op = <<t, jobs[t] + 1>> /\ draft'[t].type = "command"
    /\ draft'[t].commands = session.commands
    /\ pc'[t] = "counted" => draft'[t].label = Builtin
    /\ Others(t, draft', draft)
    /\ log' = log
    /\ seen'.answered = seen.answered /\ seen'.crossed = seen.crossed
    /\ seen'.foreign = seen.foreign /\ seen'.after = seen.after /\ seen'.late = seen.late
    /\ seen'.together = (seen.together \/ \E u \in Threads \ {t} : Commanding(u))
    /\ session'.sid = session.sid /\ session'.seq = session.seq
    /\ session'.commands = session.commands /\ SameCounts
    /\ \/ pc'[t] = "reply" /\ session'.label = draft'[t].op /\ seen'.named = seen.named \cup {draft'[t].op}
       \/ session'.label = session.label /\ seen'.named = seen.named

\* Of its draft, thread t changes the id and the number at most.
SameDraft(t) ==
    /\ draft'[t].type = draft[t].type /\ draft'[t].op = draft[t].op
    /\ draft'[t].label = draft[t].label /\ draft'[t].commands = draft[t].commands
    /\ draft'[t].attempts = draft[t].attempts /\ draft'[t].ok = draft[t].ok
    /\ Others(t, draft', draft)

\* Thread t reads the session id for its event.
Reads(t) ==
    /\ pc[t] = "build" /\ pc'[t] = "number" /\ Others(t, pc', pc)
    /\ jobs' = jobs /\ log' = log /\ session' = session
    /\ SameDraft(t) /\ draft'[t].sid = session.sid /\ draft'[t].seq = draft[t].seq
    /\ seen'.answered = seen.answered /\ seen'.named = seen.named /\ seen'.crossed = seen.crossed
    /\ seen'.together = seen.together /\ seen'.after = seen.after /\ seen'.late = seen.late
    /\ seen'.foreign = IF Replacing THEN seen.foreign \cup {draft[t].op} ELSE seen.foreign

\* Thread t draws the number of its event.
Draws(t) ==
    /\ pc[t] = "number" /\ pc'[t] = "write" /\ Others(t, pc', pc)
    /\ jobs' = jobs /\ log' = log
    /\ SameDraft(t) /\ draft'[t].sid = draft[t].sid /\ draft'[t].seq = session.seq + 1
    /\ seen'.answered = seen.answered /\ seen'.named = seen.named /\ seen'.foreign = seen.foreign
    /\ seen'.together = seen.together /\ seen'.after = seen.after /\ seen'.late = seen.late
    /\ seen'.crossed = IF Replacing THEN seen.crossed \cup {draft[t].op} ELSE seen.crossed
    /\ session'.sid = session.sid /\ session'.seq = session.seq + 1
    /\ session'.label = session.label /\ session'.commands = session.commands /\ SameCounts

\* Thread t stores the number of commands.
Stores(t) ==
    /\ pc[t] = "counted" /\ pc'[t] = "build" /\ Others(t, pc', pc)
    /\ jobs' = jobs /\ log' = log /\ draft' = draft /\ seen' = seen
    /\ session'.sid = session.sid /\ session'.seq = session.seq
    /\ session'.label = session.label /\ SameCounts
    /\ session'.commands = draft[t].commands + 1

\* The draft of thread t, as it is written.
Line(t) == IF draft[t].type = "command"
           THEN [draft[t] EXCEPT !.label = None, !.commands = 0] ELSE draft[t]

Writes(t) ==
    /\ pc[t] = "write" /\ pc'[t] = After(draft[t].type) /\ Others(t, pc', pc)
    /\ jobs' = jobs /\ draft' = draft /\ session' = session
    /\ log' = log \cup {Line(t)}
    /\ Line(t).type = draft[t].type /\ Line(t).op = draft[t].op /\ Line(t).seq = draft[t].seq
    /\ Line(t).sid = draft[t].sid /\ Line(t).ok = draft[t].ok
    /\ Line(t).attempts = draft[t].attempts
    /\ draft[t].type # "command" => Line(t).commands = draft[t].commands
    /\ seen'.answered = seen.answered /\ seen'.named = seen.named
    /\ seen'.crossed = seen.crossed /\ seen'.foreign = seen.foreign
    /\ seen'.together = seen.together /\ seen'.late = seen.late
    /\ seen'.after = (seen.after \/ \E e \in log : e.type = "session_end")

Pops(t) ==
    /\ pc[t] = "reply" /\ pc'[t] = "counted" /\ Others(t, pc', pc)
    /\ jobs' = jobs /\ log' = log /\ seen' = seen
    /\ draft'[t].type = draft[t].type /\ draft'[t].op = draft[t].op
    /\ draft'[t].label = session.label /\ draft'[t].commands = session.commands
    /\ Others(t, draft', draft)
    /\ session'.sid = session.sid /\ session'.seq = session.seq
    /\ session'.commands = session.commands /\ session'.label = None /\ SameCounts

Answers(t) ==
    /\ pc[t] = "answer" /\ pc'[t] \in {"done", "idle"} /\ Others(t, pc', pc)
    /\ jobs' = jobs /\ log' = log /\ session' = session
    /\ Others(t, draft', draft)
    /\ seen'.answered = seen.answered \cup {draft[t].op} /\ seen'.named = seen.named \ {draft[t].op}
    /\ seen'.crossed = seen.crossed /\ seen'.foreign = seen.foreign
    /\ seen'.together = seen.together /\ seen'.late = seen.late /\ seen'.after = seen.after

\* check_auth_password replaces the session, but for its id and its number.
Replaces ==
    /\ Others(Transport, pc', pc) /\ jobs' = jobs /\ log' = log /\ seen' = seen
    /\ Others(Transport, draft', draft)
    /\ session'.commands = session.commands /\ session'.label = session.label /\ SameCounts
    /\ draft'[Transport].type = draft[Transport].type
    /\ \/ /\ pc[Transport] \notin Held /\ pc'[Transport] = "update"
          /\ draft'[Transport].seq = session.seq
          /\ session'.sid = session.sid /\ session'.seq = session.seq
       \/ /\ pc[Transport] = "update" /\ pc'[Transport] = "own_id"
          /\ draft'[Transport].seq = draft[Transport].seq
       \/ /\ pc[Transport] = "own_id" /\ pc'[Transport] = "own_seq"
          /\ draft'[Transport].seq = draft[Transport].seq /\ session'.sid = "own"
       \/ /\ pc[Transport] = "own_seq" /\ pc'[Transport] = "idle"
          /\ session'.seq = draft[Transport].seq /\ session'.sid = session.sid

Forms ==
    \/ Quiet
    \/ Replaces
    \/ \E t \in Threads :
          \/ Begins(t) \/ Takes(t) \/ Pops(t) \/ Stores(t)
          \/ Reads(t) \/ Draws(t) \/ Writes(t) \/ Answers(t)

LEMMA EventsAre ==
    ASSUME TypeInv, NEW t \in Threads
    PROVE  /\ draft \in [Threads -> Draft] /\ draft[t] \in Draft
           /\ jobs \in [Threads -> Nat] /\ jobs[t] \in Nat /\ seen \in Seen
BY DEF TypeInv, TypeOK

LEMMA GoesIs ==
    ASSUME TypeInv, NEW t \in Threads, NEW from, NEW to, Goes(t, from, to)
    PROVE  pc[t] = from /\ pc'[t] = to /\ Others(t, pc', pc)
BY DEF TypeInv, Goes, Others

LEMMA BeginsForm ==
    ASSUME TypeInv, NEW t \in Threads, NEW from, NEW type \in {"session_start", "error", "upload"},
           Goes(t, from, "build"), Drafts(t, type, None), from \notin Held,
           type \in TypesOf(t), t # Transport, UNCHANGED <<session, log, seen>>
    PROVE  Begins(t)
<1>1. pc[t] = from /\ pc'[t] = "build" /\ Others(t, pc', pc)
  BY GoesIs
<1>2. None \in Labels /\ type \in {"session_start", "error", "command", "upload"}
  BY DEF Labels
<1>3. /\ jobs'[t] = jobs[t] + 1 /\ Others(t, jobs', jobs)
      /\ draft'[t].op = <<t, jobs[t] + 1>> /\ draft'[t].type = type
      /\ Others(t, draft', draft)
  BY <1>2, DraftsTyped DEF Others
<1> QED
  BY <1>1, <1>3 DEF Begins, SameSeen, SameCounts

LEMMA SessionEndForm == TypeInv /\ LogSessionEnd =>
    /\ Begins(Main) /\ draft'[Main].type = "session_end"
    /\ draft'[Main].attempts = session.attempts /\ draft'[Main].ok = session.ok
    /\ draft'[Main].commands = session.commands
    /\ seen'.late = (\E t \in Threads \ {Main} : Busy(t))
<1> SUFFICES ASSUME TypeInv, LogSessionEnd
             PROVE  /\ Begins(Main) /\ draft'[Main].type = "session_end"
                    /\ draft'[Main].attempts = session.attempts /\ draft'[Main].ok = session.ok
                    /\ draft'[Main].commands = session.commands
                    /\ seen'.late = (\E t \in Threads \ {Main} : Busy(t))
  OBVIOUS
<1> USE ThreadFacts
<1>1. pc[Main] = "closing" /\ pc'[Main] = "build" /\ Others(Main, pc', pc)
  BY GoesIs DEF LogSessionEnd
<1>2. jobs'[Main] = jobs[Main] + 1 /\ Others(Main, jobs', jobs)
  BY EventsAre DEF LogSessionEnd, Others
<1>3. draft'[Main] = EndOfSession /\ Others(Main, draft', draft)
  BY EventsAre DEF LogSessionEnd, Others
<1>4. /\ EndOfSession.type = "session_end" /\ EndOfSession.op = <<Main, jobs'[Main]>>
      /\ EndOfSession.commands = session.commands /\ EndOfSession.attempts = session.attempts
      /\ EndOfSession.ok = session.ok
  BY DEF EndOfSession, NoDraft
<1>5. SameSeen /\ seen'.late = (\E t \in Threads \ {Main} : Busy(t))
  BY EventsAre DEF LogSessionEnd, SameSeen, Seen
<1>6. log' = log /\ session' = session
  BY DEF LogSessionEnd
<1> QED
  BY <1>1, <1>2, <1>3, <1>4, <1>5, <1>6 DEF Begins, TypesOf, Held, SameCounts

LEMMA AuthForm == TypeInv /\ AuthPassword => Begins(Transport)
<1> SUFFICES ASSUME TypeInv, AuthPassword PROVE Begins(Transport)
  OBVIOUS
<1> USE ThreadFacts
<1>0. PICK accepted \in BOOLEAN :
        /\ jobs' = [jobs EXCEPT ![Transport] = @ + 1]
        /\ draft' = [draft EXCEPT ![Transport] =
                        [NoDraft EXCEPT !.type = "auth_attempt",
                                        !.op = <<Transport, jobs'[Transport]>>,
                                        !.ok = accepted]]
        /\ session' = [session EXCEPT !.attempts = @ + 1, !.ok = @ \/ accepted]
  BY DEF AuthPassword
<1>1. pc[Transport] = "idle" /\ pc'[Transport] = "build" /\ Others(Transport, pc', pc)
  BY GoesIs DEF AuthPassword, Receives
<1>2. jobs'[Transport] = jobs[Transport] + 1 /\ Others(Transport, jobs', jobs)
  BY <1>0, EventsAre DEF Others
<1> DEFINE d == [NoDraft EXCEPT !.type = "auth_attempt", !.op = <<Transport, jobs'[Transport]>>,
                                !.ok = accepted]
<1>3. draft'[Transport] = d /\ Others(Transport, draft', draft)
  BY <1>0, EventsAre DEF Others
<1>4. d.type = "auth_attempt" /\ d.op = <<Transport, jobs'[Transport]>> /\ d.ok = accepted
  BY DEF NoDraft
<1>5. /\ session'.sid = session.sid /\ session'.seq = session.seq
      /\ session'.commands = session.commands /\ session'.label = session.label
      /\ session'.attempts = session.attempts + 1 /\ session'.ok = (session.ok \/ accepted)
  BY <1>0, SessionIs DEF Session
<1>6. log' = log /\ seen' = seen
  BY DEF AuthPassword
<1> HIDE DEF d
<1> QED
  BY <1>1, <1>2, <1>3, <1>4, <1>5, <1>6 DEF Begins, TypesOf, Held, SameSeen

LEMMA TakesForm ==
    ASSUME TypeInv, NEW t \in Threads \ {Main}, TakesCommand(t)
    PROVE  Takes(t)
<1>1. PICK to \in {"reply", "counted"}, label \in {None, Builtin} :
        /\ Goes(t, "idle", to) /\ Drafts(t, "command", label)
        /\ to = "counted" => label = Builtin
  BY DEF TakesCommand
<1>2. pc[t] = "idle" /\ pc'[t] = to /\ Others(t, pc', pc)
  BY <1>1, GoesIs
<1>3. /\ jobs'[t] = jobs[t] + 1 /\ Others(t, jobs', jobs)
      /\ draft'[t].op = <<t, jobs[t] + 1>> /\ draft'[t].type = "command"
      /\ draft'[t].commands = session.commands /\ draft'[t].label = label
      /\ Others(t, draft', draft)
  <2>1. label \in Labels
    BY <1>1 DEF Labels
  <2> QED
    BY <1>1, <2>1, DraftsTyped DEF Others
<1>4. \/ /\ session' = [session EXCEPT !.label = draft'[t].op] /\ pc'[t] = "reply"
         /\ seen' = [seen EXCEPT !.together = @ \/ \E u \in Threads \ {t} : Commanding(u),
                                 !.named = @ \cup {draft'[t].op}]
      \/ /\ session' = session
         /\ seen' = [seen EXCEPT !.together = @ \/ \E u \in Threads \ {t} : Commanding(u),
                                 !.named = @]
      \/ /\ session' = session
         /\ seen' = [seen EXCEPT !.together = @ \/ \E u \in Threads \ {t} : Commanding(u)]
  <2>1. CASE Goes(t, "idle", "reply")
    BY <2>1, <1>2, GoesIs DEF TakesCommand
  <2>2. CASE Goes(t, "idle", "counted")
    BY <2>2, <1>2, GoesIs DEF TakesCommand
  <2> QED
    BY <2>1, <2>2 DEF TakesCommand
<1>5. /\ seen'.answered = seen.answered /\ seen'.crossed = seen.crossed
      /\ seen'.foreign = seen.foreign /\ seen'.after = seen.after /\ seen'.late = seen.late
      /\ seen'.together = (seen.together \/ \E u \in Threads \ {t} : Commanding(u))
  BY <1>4, EventsAre DEF Seen
<1>6. /\ session'.sid = session.sid /\ session'.seq = session.seq
      /\ session'.commands = session.commands /\ SameCounts
  BY <1>4, SessionIs DEF Session, SameCounts
<1>7. \/ pc'[t] = "reply" /\ session'.label = draft'[t].op /\ seen'.named = seen.named \cup {draft'[t].op}
      \/ session'.label = session.label /\ seen'.named = seen.named
  BY <1>4, EventsAre, SessionIs DEF Seen, Session
<1>8. log' = log
  BY DEF TakesCommand
<1> QED
  BY <1>1, <1>2, <1>3, <1>5, <1>6, <1>7, <1>8 DEF Takes, Held

LEMMA NumbersForm ==
    ASSUME TypeInv, NEW t \in Threads
    PROVE  (ReadSid(t) => Reads(t)) /\ (NumberEvent(t) => Draws(t))
<1>1. ASSUME ReadSid(t) PROVE Reads(t)
  <2>1. pc[t] = "build" /\ pc'[t] = "number" /\ Others(t, pc', pc)
    BY <1>1, GoesIs DEF ReadSid
  <2>2. log' = log /\ jobs' = jobs /\ session' = session
    BY <1>1 DEF ReadSid
  <2>3. /\ seen'.answered = seen.answered /\ seen'.named = seen.named /\ seen'.crossed = seen.crossed
        /\ seen'.together = seen.together /\ seen'.after = seen.after /\ seen'.late = seen.late
        /\ seen'.foreign = IF Replacing THEN seen.foreign \cup {draft[t].op} ELSE seen.foreign
    BY <1>1, EventsAre DEF ReadSid, Seen
  <2> QED
    BY <1>1, <2>1, <2>2, <2>3, NumbersTyped DEF Reads, SameDraft, Others
<1>2. ASSUME NumberEvent(t) PROVE Draws(t)
  <2>1. pc[t] = "number" /\ pc'[t] = "write" /\ Others(t, pc', pc)
    BY <1>2, GoesIs DEF NumberEvent
  <2>2. log' = log /\ jobs' = jobs
    BY <1>2 DEF NumberEvent
  <2>3. /\ seen'.answered = seen.answered /\ seen'.named = seen.named /\ seen'.foreign = seen.foreign
        /\ seen'.together = seen.together /\ seen'.after = seen.after /\ seen'.late = seen.late
        /\ seen'.crossed = IF Replacing THEN seen.crossed \cup {draft[t].op} ELSE seen.crossed
    BY <1>2, EventsAre DEF NumberEvent, Seen
  <2>4. /\ session'.sid = session.sid /\ session'.seq = session.seq + 1
        /\ session'.label = session.label /\ session'.commands = session.commands /\ SameCounts
    BY <1>2, SessionIs DEF NumberEvent, Session, SameCounts
  <2> QED
    BY <1>2, <2>1, <2>2, <2>3, <2>4, NumbersTyped DEF Draws, SameDraft, Others
<1> QED
  BY <1>1, <1>2

LEMMA StoresForm ==
    ASSUME TypeInv, NEW t \in Threads, StoreCommands(t)
    PROVE  Stores(t)
<1>1. pc[t] = "counted" /\ pc'[t] = "build" /\ Others(t, pc', pc)
  BY GoesIs DEF StoreCommands
<1>2. /\ session'.sid = session.sid /\ session'.seq = session.seq
      /\ session'.label = session.label /\ SameCounts
      /\ session'.commands = draft[t].commands + 1
  BY SessionIs DEF StoreCommands, Session, SameCounts
<1> QED
  BY <1>1, <1>2 DEF StoreCommands, Stores

LEMMA WritesForm ==
    ASSUME TypeInv, NEW t \in Threads, WriteEvent(t)
    PROVE  Writes(t)
<1>1. pc[t] = "write" /\ pc'[t] = After(draft[t].type) /\ Others(t, pc', pc)
  BY GoesIs DEF WriteEvent
<1>2. jobs' = jobs /\ draft' = draft /\ session' = session /\ log' = log \cup {Line(t)}
  BY DEF WriteEvent, Line
<1>3. /\ Line(t).type = draft[t].type /\ Line(t).op = draft[t].op /\ Line(t).seq = draft[t].seq
      /\ Line(t).sid = draft[t].sid /\ Line(t).ok = draft[t].ok
      /\ Line(t).attempts = draft[t].attempts
      /\ draft[t].type # "command" => Line(t).commands = draft[t].commands
  BY EventsAre DEF Line, Draft
<1>4. /\ seen'.answered = seen.answered /\ seen'.named = seen.named
      /\ seen'.crossed = seen.crossed /\ seen'.foreign = seen.foreign
      /\ seen'.together = seen.together /\ seen'.late = seen.late
      /\ seen'.after = (seen.after \/ \E e \in log : e.type = "session_end")
  BY EventsAre DEF WriteEvent, Seen
<1> QED
  BY <1>1, <1>2, <1>3, <1>4 DEF Writes

LEMMA PopsForm ==
    ASSUME TypeInv, NEW t \in Threads, PopLabel(t)
    PROVE  Pops(t)
<1>1. pc[t] = "reply" /\ pc'[t] = "counted" /\ Others(t, pc', pc)
  BY GoesIs DEF PopLabel
<1>2. jobs' = jobs /\ log' = log /\ seen' = seen
  BY DEF PopLabel
<1> DEFINE d == [draft[t] EXCEPT !.label = session.label, !.commands = session.commands]
<1>3. draft'[t] = d /\ Others(t, draft', draft)
  BY EventsAre DEF PopLabel, Others
<1>4. d.type = draft[t].type /\ d.op = draft[t].op /\ d.label = session.label
      /\ d.commands = session.commands
  BY EventsAre DEF Draft
<1>5. /\ session'.sid = session.sid /\ session'.seq = session.seq
      /\ session'.commands = session.commands /\ session'.label = None /\ SameCounts
  BY SessionIs DEF PopLabel, Session, SameCounts
<1> HIDE DEF d
<1> QED
  BY <1>1, <1>2, <1>3, <1>4, <1>5 DEF Pops

LEMMA AnswersForm ==
    ASSUME TypeInv, NEW t \in Threads, Answer(t)
    PROVE  Answers(t)
<1>1. pc[t] = "answer" /\ pc'[t] \in {"done", "idle"} /\ Others(t, pc', pc)
  BY GoesIs DEF Answer
<1>2. jobs' = jobs /\ log' = log /\ session' = session /\ Others(t, draft', draft)
  BY EventsAre DEF Answer, Others
<1>3. /\ seen'.answered = seen.answered \cup {draft[t].op} /\ seen'.named = seen.named \ {draft[t].op}
      /\ seen'.crossed = seen.crossed /\ seen'.foreign = seen.foreign
      /\ seen'.together = seen.together /\ seen'.late = seen.late /\ seen'.after = seen.after
  BY EventsAre DEF Answer, Seen
<1> QED
  BY <1>1, <1>2, <1>3 DEF Answers

LEMMA AuthenticateForm == TypeInv /\ Authenticate => Quiet \/ Replaces
<1> SUFFICES ASSUME TypeInv, Authenticate PROVE Quiet \/ Replaces
  OBVIOUS
<1> USE ThreadFacts
<1>1. CASE Reject \/ AcceptWithoutBackend
  <2>1. pc[Transport] = "decide" /\ pc'[Transport] = "idle" /\ Others(Transport, pc', pc)
    BY <1>1, GoesIs DEF Reject, AcceptWithoutBackend
  <2> QED
    BY <1>1, <2>1 DEF Reject, AcceptWithoutBackend, Quiet, Held, Others
<1>2. CASE SaveSeq
  <2>1. pc[Transport] = "decide" /\ pc'[Transport] = "update" /\ Others(Transport, pc', pc)
    BY <1>2, GoesIs DEF SaveSeq
  <2>2. /\ draft'[Transport].seq = session.seq /\ Others(Transport, draft', draft)
        /\ draft'[Transport].type = draft[Transport].type
    BY <1>2, EventsAre DEF SaveSeq, Others, Draft
  <2> QED
    BY <1>2, <2>1, <2>2 DEF SaveSeq, Replaces, Held, SameCounts
<1>3. CASE UpdateSession
  <2>1. pc[Transport] = "update" /\ pc'[Transport] = "own_id" /\ Others(Transport, pc', pc)
    BY <1>3, GoesIs DEF UpdateSession
  <2>2. session'.commands = session.commands /\ session'.label = session.label /\ SameCounts
    BY <1>3, SessionIs DEF UpdateSession, Session, SameCounts
  <2> QED
    BY <1>3, <2>1, <2>2 DEF UpdateSession, Replaces, Others
<1>4. CASE RestoreSid
  <2>1. pc[Transport] = "own_id" /\ pc'[Transport] = "own_seq" /\ Others(Transport, pc', pc)
    BY <1>4, GoesIs DEF RestoreSid
  <2>2. session'.commands = session.commands /\ session'.label = session.label /\ SameCounts
        /\ session'.sid = "own"
    BY <1>4, SessionIs DEF RestoreSid, Session, SameCounts
  <2> QED
    BY <1>4, <2>1, <2>2 DEF RestoreSid, Replaces, Others
<1>5. CASE RestoreSeq
  <2>1. pc[Transport] = "own_seq" /\ pc'[Transport] = "idle" /\ Others(Transport, pc', pc)
    BY <1>5, GoesIs DEF RestoreSeq
  <2>2. session'.commands = session.commands /\ session'.label = session.label /\ SameCounts
        /\ session'.sid = session.sid /\ session'.seq = draft[Transport].seq
    BY <1>5, SessionIs DEF RestoreSeq, Session, SameCounts
  <2> QED
    BY <1>5, <2>1, <2>2 DEF RestoreSeq, Replaces, Others
<1> QED
  BY <1>1, <1>2, <1>3, <1>4, <1>5 DEF Authenticate

\* Steps of a thread between places where it has no event at hand.
LEMMA GoesQuietly ==
    ASSUME TypeInv, NEW t \in Threads, NEW from, NEW to, Goes(t, from, to),
           from \notin Held, to \notin Held, UNCHANGED <<session, log, draft, jobs, seen>>
    PROVE  Quiet
BY GoesIs DEF Quiet, Others

LEMMA NextForm == TypeInv /\ [Next]_vars => Forms
<1> SUFFICES ASSUME TypeInv, [Next]_vars PROVE Forms
  OBVIOUS
<1> USE ThreadFacts
<1>0. {"start", "handshake", "negotiating", "accept", "waiting", "closing", "new", "idle", "dead",
       "decide", "scp", "done"} \cap Held = {}
  BY DEF Held
<1>1. CASE UNCHANGED vars
  BY <1>1 DEF Forms, Quiet, vars
<1>2. CASE LogSessionStart \/ LogFingerprint
  BY <1>0, <1>2, BeginsForm DEF LogSessionStart, LogFingerprint, Forms, TypesOf
<1>3. CASE StartServer
  BY <1>0, <1>3 DEF StartServer, TypeInv, Forms, Quiet
<1>4. CASE HandshakeFails \/ AcceptChannel \/ LeaveLoop
  BY <1>0, <1>4, GoesQuietly DEF HandshakeFails, AcceptChannel, LeaveLoop, Forms
<1>5. CASE ChannelClosed
  BY <1>0, <1>5, GoesQuietly DEF ChannelClosed, Goes, Forms
<1>6. CASE LogSessionEnd
  BY <1>6, SessionEndForm DEF Forms
<1>7. ASSUME NEW t \in Threads, LogEvent(t) PROVE Forms
  BY <1>7, NumbersForm, WritesForm DEF LogEvent, Forms
<1>8. CASE Negotiate \/ ScpTimeout
  BY <1>0, <1>8, GoesQuietly DEF Negotiate, ScpTimeout, Forms
<1>9. CASE Dies
  BY <1>0, <1>9, GoesQuietly DEF Dies, Goes, Forms
<1>10. CASE AuthPassword \/ Authenticate
  BY <1>10, AuthForm, AuthenticateForm DEF Forms
<1>11. ASSUME NEW t \in Threads \ {Main}, Command(t) PROVE Forms
  BY <1>11, PopsForm, StoresForm, AnswersForm DEF Command, Forms
<1>12. ASSUME NEW c \in Channels, OpenChannel(c) \/ ReceiveData(c) \/ CloseChannel(c) PROVE Forms
  BY <1>12 DEF OpenChannel, ReceiveData, CloseChannel, Forms, Quiet
<1>13. ASSUME NEW c \in Channels, RequestThread(c) \/ RequestScp(c) \/ ShellEnds(c) \/ SftpEnds(c)
       PROVE  Forms
  BY <1>0, <1>13, GoesQuietly DEF RequestThread, RequestScp, ShellEnds, SftpEnds, Forms
<1>14. ASSUME NEW c \in Channels, RequestExec(c) \/ ShellCommand(c) PROVE Forms
  BY <1>14, TakesForm DEF RequestExec, ShellCommand, Forms
<1>15. ASSUME NEW c \in Channels, CloseFile(c) PROVE Forms
  BY <1>0, <1>15, BeginsForm DEF CloseFile, Forms, TypesOf
<1>16. HandleClient => Forms
  BY <1>2, <1>3, <1>4, <1>5, <1>6, <1>7 DEF HandleClient
<1>17. TransportThread => Forms
  BY <1>7, <1>8, <1>9, <1>10, <1>11 DEF TransportThread, TransportEnds
<1>18. Client => Forms
  BY <1>9, <1>10, <1>12, <1>13, <1>14, <1>15 DEF Client, TransportRaises
<1>19. (\E c \in Channels : ChannelThread(c)) => Forms
  BY <1>7, <1>11, <1>13, <1>14 DEF ChannelThread
<1> QED
  BY <1>1, <1>16, <1>17, <1>18, <1>19 DEF Next

-----------------------------------------------------------------------------
(* Operations: each event has its own.                                     *)

\* An operation that a thread has not come to yet.
LEMMA NewOp ==
    ASSUME TypeInv, OpInv, NEW t \in Threads
    PROVE  /\ \A e \in log : e.op # <<t, jobs[t] + 1>>
           /\ <<t, jobs[t] + 1>> \notin seen.named /\ <<t, jobs[t] + 1>> \notin seen.crossed
<1>1. \A u \in Threads : \A n \in 1..jobs[u] : <<u, n>> # <<t, jobs[t] + 1>>
  BY EventsAre
<1> QED
  BY <1>1 DEF OpInv

\* Where a step leaves the other threads alone, their operations stay their own.
LEMMA OtherOps ==
    ASSUME TypeInv, OpInv, NEW t \in Threads, NEW u \in Threads \ {t},
           Others(t, pc', pc), Others(t, jobs', jobs), Others(t, draft', draft),
           log \subseteq log', \A e \in log' \ log : e.op # draft[u].op,
           \A op \in seen'.crossed \ seen.crossed : op # draft[u].op
    PROVE  OwnOp(u)'
BY DEF Others, OpInv, OwnOp, Making

LEMMA OpsKept == TypeInv /\ TypeInv' /\ OpInv /\ Forms => OpInv'
<1> SUFFICES ASSUME TypeInv, TypeInv', OpInv, Forms PROVE OpInv'
  OBVIOUS
<1>1. CASE Quiet
  <2>1. \A t \in Threads : OwnOp(t)'
    BY <1>1 DEF Quiet, OpInv, OwnOp, Making, Held
  <2> QED
    BY <1>1, <2>1 DEF Quiet, OpInv
<1>2. CASE Replaces
  <2>1. \A t \in Threads \ {Transport} : OwnOp(t)'
    BY <1>2, OtherOps, ThreadFacts DEF Replaces, Others
  <2>2. OwnOp(Transport)'
    BY <1>2 DEF Replaces, OwnOp, Making
  <2> QED
    BY <1>2, <2>1, <2>2 DEF Replaces, OpInv
<1>3. ASSUME NEW t \in Threads, Begins(t) PROVE OpInv'
  <2>1. \A u \in Threads \ {t} : OwnOp(u)'
    BY <1>3, OtherOps DEF Begins, SameSeen
  <2>2. OwnOp(t)'
    <3>1. \A e \in log' : e.op # draft'[t].op
      BY <1>3, NewOp DEF Begins
    <3>2. draft'[t].op = <<t, jobs'[t]>> /\ jobs'[t] # 0
      BY <1>3, EventsAre DEF Begins
    <3>3. draft'[t].type \in TypesOf(t) /\ pc'[t] = "build"
      BY <1>3 DEF Begins
    <3>4. draft'[t].op \notin seen'.crossed
      BY <1>3, NewOp DEF Begins, SameSeen
    <3> QED
      BY <3>1, <3>2, <3>3, <3>4 DEF OwnOp, Making
  <2>3. \A u \in Threads : \A n \in 1..jobs[u] : n \in 1..jobs'[u]
    BY <1>3, EventsAre DEF Begins, Others
  <2> QED
    BY <1>3, <2>1, <2>2, <2>3 DEF Begins, OpInv, SameSeen
<1>4. ASSUME NEW t \in Threads, Takes(t) PROVE OpInv'
  <2>1. \A u \in Threads \ {t} : OwnOp(u)'
    BY <1>4, OtherOps DEF Takes
  <2>2. OwnOp(t)'
    <3>1. "command" \in TypesOf(t)
      BY <1>4 DEF Takes, TypesOf
    <3>2. \A e \in log' : e.op # draft'[t].op
      BY <1>4, NewOp DEF Takes
    <3>3. draft'[t].op = <<t, jobs'[t]>> /\ jobs'[t] # 0
      BY <1>4, EventsAre DEF Takes
    <3>4. draft'[t].type = "command" /\ pc'[t] \in {"reply", "counted"}
      BY <1>4 DEF Takes
    <3>5. draft'[t].op \notin seen'.crossed
      BY <1>4, NewOp DEF Takes
    <3> QED
      BY <3>1, <3>2, <3>3, <3>4, <3>5 DEF OwnOp, Making
  <2>3. \A u \in Threads : \A n \in 1..jobs[u] : n \in 1..jobs'[u]
    BY <1>4, EventsAre DEF Takes, Others
  <2>4. jobs[t] + 1 \in 1..jobs'[t]
    BY <1>4, EventsAre DEF Takes
  <2> QED
    BY <1>4, <2>1, <2>2, <2>3, <2>4 DEF Takes, OpInv
<1>5. ASSUME NEW t \in Threads, Reads(t) \/ Stores(t) PROVE OpInv'
  <2>0. /\ Others(t, pc', pc) /\ jobs' = jobs /\ log' = log /\ Others(t, draft', draft)
        /\ draft'[t].op = draft[t].op /\ draft'[t].type = draft[t].type
        /\ seen'.crossed = seen.crossed /\ seen'.named = seen.named /\ seen'.answered = seen.answered
    BY <1>5 DEF Reads, Stores, SameDraft, Others
  <2>1. \A u \in Threads \ {t} : OwnOp(u)'
    BY <2>0, OtherOps DEF Others
  <2>2. OwnOp(t)'
    BY <1>5, <2>0 DEF Reads, Stores, OpInv, OwnOp, Making
  <2> QED
    BY <2>0, <2>1, <2>2 DEF OpInv
<1>9. ASSUME NEW t \in Threads, Draws(t) PROVE OpInv'
  <2>0. /\ Others(t, pc', pc) /\ jobs' = jobs /\ log' = log /\ Others(t, draft', draft)
        /\ draft'[t].op = draft[t].op /\ draft'[t].type = draft[t].type
        /\ seen'.crossed \subseteq seen.crossed \cup {draft[t].op}
        /\ seen'.named = seen.named /\ seen'.answered = seen.answered
        /\ pc[t] = "number" /\ pc'[t] = "write"
    BY <1>9 DEF Draws, SameDraft, Others
  <2>1. ASSUME NEW u \in Threads \ {t} PROVE OwnOp(u)'
    <3>1. CASE Making(u)
      <4>1. draft[u].op # draft[t].op
        BY <2>0, <3>1 DEF OpInv, OwnOp, Making
      <4> QED
        BY <2>0, <4>1, OtherOps DEF Others
    <3>2. CASE ~ Making(u)
      BY <2>0, <3>2 DEF Others, OpInv, OwnOp, Making
    <3> QED
      BY <3>1, <3>2
  <2>2. OwnOp(t)'
    BY <2>0 DEF OpInv, OwnOp, Making
  <2>3. draft[t].op = <<t, jobs[t]>> /\ jobs[t] \in 1..jobs[t]
    BY <2>0, EventsAre DEF OpInv, OwnOp, Making
  <2> QED
    BY <2>0, <2>1, <2>2, <2>3 DEF OpInv
<1>6. ASSUME NEW t \in Threads, Writes(t) PROVE OpInv'
  <2>0. /\ \A e \in log : e.op # draft[t].op
        /\ draft[t].op = <<t, jobs[t]>> /\ jobs[t] \in 1..jobs[t]
    BY <1>6, EventsAre DEF Writes, OpInv, OwnOp, Making
  <2>1. ASSUME NEW u \in Threads \ {t} PROVE OwnOp(u)'
    <3>1. CASE Making(u)
      <4>1. draft[u].op # draft[t].op
        BY <2>0, <3>1 DEF OpInv, OwnOp
      <4> QED
        BY <1>6, <4>1, OtherOps DEF Writes, Others
    <3> QED
      BY <1>6, <3>1 DEF Writes, Others, OpInv, OwnOp, Making
  <2>2. OwnOp(t)'
    BY <1>6, <2>0 DEF Writes, OwnOp, Making, After
  <2>3. \A e \in log' : \E u \in Threads : \E n \in 1..jobs'[u] : e.op = <<u, n>>
    BY <1>6, <2>0 DEF Writes, OpInv
  <2>4. \A op \in seen'.answered : \E e \in log' : e.op = op
    BY <1>6 DEF Writes, OpInv
  <2> QED
    BY <1>6, <2>1, <2>2, <2>3, <2>4 DEF Writes, OpInv
<1>7. ASSUME NEW t \in Threads, Pops(t) PROVE OpInv'
  <2>1. \A u \in Threads \ {t} : OwnOp(u)'
    BY <1>7, OtherOps DEF Pops, Others
  <2>2. OwnOp(t)'
    BY <1>7 DEF Pops, OpInv, OwnOp, Making
  <2> QED
    BY <1>7, <2>1, <2>2 DEF Pops, OpInv
<1>8. ASSUME NEW t \in Threads, Answers(t) PROVE OpInv'
  <2>1. \A u \in Threads \ {t} : OwnOp(u)'
    BY <1>8, OtherOps DEF Answers, Others
  <2>2. OwnOp(t)'
    BY <1>8 DEF Answers, OwnOp, Making
  <2>3. \E e \in log : e.op = draft[t].op
    BY <1>8 DEF Answers, OpInv, OwnOp
  <2> QED
    BY <1>8, <2>1, <2>2, <2>3 DEF Answers, OpInv
<1> QED
  BY <1>1, <1>2, <1>3, <1>4, <1>5, <1>6, <1>7, <1>8, <1>9 DEF Forms

-----------------------------------------------------------------------------
(* Numbers.                                                                *)

\* Which threads are about to write, what is numbered, and the last number, after a step.
LEMMA DrawnIs ==
    ASSUME TypeInv, TypeInv', OpInv, Forms
    PROVE  \/ /\ Numbered' = Numbered /\ Drawn' = Drawn /\ LastSeq' = LastSeq
              /\ \A u \in Drawn : draft'[u].seq = draft[u].seq
           \/ \E t \in Threads \ Drawn :
                 /\ Draws(t) /\ ~ Replacing
                 /\ Drawn' = Drawn \cup {t} /\ Numbered' = Numbered
           \/ \E t \in Drawn :
                 /\ Writes(t) /\ Line(t) \notin log
                 /\ Drawn' = Drawn \ {t} /\ Numbered' = Numbered \cup {Line(t)}
<1> USE ThreadFacts
<1> DEFINE Same == /\ Numbered' = Numbered /\ Drawn' = Drawn /\ LastSeq' = LastSeq
                   /\ \A u \in Drawn : draft'[u].seq = draft[u].seq
\* Steps that neither draw nor write.
<1>1. ASSUME log' = log, seen'.crossed = seen.crossed,
             \A u \in Threads : \/ pc[u] # "write" /\ pc'[u] # "write"
                                \/ /\ pc[u] = "write" /\ pc'[u] = "write"
                                   /\ draft'[u].op = draft[u].op /\ draft'[u].seq = draft[u].seq,
             LastSeq' = LastSeq
      PROVE  Same
  <2>1. Numbered' = Numbered
    BY <1>1 DEF Numbered
  <2>2. Drawn' = Drawn
    BY <1>1 DEF Drawn
  <2>3. \A u \in Drawn : draft'[u].seq = draft[u].seq
    BY <1>1 DEF Drawn
  <2> HIDE <1>1
  <2> QED
    BY <1>1, <2>1, <2>2, <2>3
<1>2. ASSUME Quiet PROVE Same
  <2>1. Replacing' <=> Replacing
    BY <1>2 DEF Quiet, Replacing, Held
  <2>2. LastSeq' = LastSeq
    BY <1>2, <2>1 DEF Quiet, LastSeq
  <2>3. \A u \in Threads : pc[u] = "write" <=> pc'[u] = "write"
    BY <1>2 DEF Quiet, Held
  <2>4. log' = log /\ seen' = seen /\ draft' = draft
    BY <1>2 DEF Quiet
  <2> QED
    BY <1>1, <2>2, <2>3, <2>4
<1>3. ASSUME Replaces PROVE Same
  <2>1. pc[Transport] # "write" /\ pc'[Transport] # "write"
    BY <1>3 DEF Replaces, Held
  <2>2. LastSeq' = LastSeq
    BY <1>3 DEF Replaces, LastSeq, Replacing, Held
  <2>3. /\ \A u \in Threads \ {Transport} : pc'[u] = pc[u] /\ draft'[u] = draft[u]
        /\ log' = log /\ seen' = seen
    BY <1>3 DEF Replaces, Others
  <2> QED
    BY <1>1, <2>1, <2>2, <2>3
<1>4. ASSUME NEW t \in Threads,
             Begins(t) \/ Takes(t) \/ Pops(t) \/ Answers(t) \/ Reads(t) \/ Stores(t)
      PROVE  Same
  <2>1. /\ log' = log /\ seen'.crossed = seen.crossed /\ Others(t, pc', pc) /\ Others(t, draft', draft)
        /\ session'.seq = session.seq
    BY <1>4 DEF Begins, Takes, Pops, Answers, Reads, Stores, SameDraft, SameSeen, Others
  <2>2. /\ pc[t] \notin {"write", "update", "own_id", "own_seq"}
        /\ pc'[t] \notin {"write", "update", "own_id", "own_seq"}
    BY <1>4 DEF Begins, Takes, Pops, Answers, Reads, Stores, Held
  <2>3. (Replacing' <=> Replacing) /\ (Replacing => draft'[Transport] = draft[Transport])
    BY <2>1, <2>2 DEF Others, Replacing
  <2>4. LastSeq' = LastSeq
    BY <2>1, <2>3 DEF LastSeq
  <2> QED
    BY <1>1, <2>1, <2>2, <2>4 DEF Others
<1>5. ASSUME NEW t \in Threads, Draws(t), ~ Replacing
      PROVE  t \notin Drawn /\ Drawn' = Drawn \cup {t} /\ Numbered' = Numbered
  <2>1. draft[t].op \notin seen.crossed /\ draft'[t].op = draft[t].op
    BY <1>5 DEF Draws, SameDraft, OpInv, OwnOp
  <2>2. \A u \in Threads \ {t} : pc'[u] = pc[u] /\ draft'[u] = draft[u]
    BY <1>5 DEF Draws, SameDraft, Others
  <2>3. log' = log /\ seen'.crossed = seen.crossed /\ pc[t] = "number" /\ pc'[t] = "write"
    BY <1>5 DEF Draws
  <2> QED
    BY <2>1, <2>2, <2>3 DEF Drawn, Numbered
<1>6. ASSUME NEW t \in Threads, Draws(t), Replacing PROVE Same
  <2>1. /\ log' = log /\ seen'.crossed = seen.crossed \cup {draft[t].op}
        /\ draft'[t].op = draft[t].op /\ pc[t] = "number" /\ pc'[t] = "write"
        /\ \A u \in Threads \ {t} : pc'[u] = pc[u] /\ draft'[u] = draft[u]
    BY <1>6 DEF Draws, SameDraft, Others
  <2>2. \A e \in log : e.op # draft[t].op
    BY <2>1 DEF OpInv, OwnOp, Making
  <2>3. Numbered' = Numbered
    BY <2>1, <2>2 DEF Numbered
  <2>4. \A u \in Threads \ {t} : pc[u] = "write" => draft[u].op # draft[t].op
    BY <2>1 DEF OpInv, OwnOp, Making
  <2>5. Drawn' = Drawn
    BY <2>1, <2>4 DEF Drawn
  <2>6. \A u \in Drawn : draft'[u].seq = draft[u].seq
    BY <2>1 DEF Drawn
  <2>7. t # Transport
    BY <1>6, <2>1 DEF Replacing
  <2>8. LastSeq' = LastSeq
    BY <1>6, <2>1, <2>7 DEF LastSeq, Replacing
  <2> QED
    BY <2>3, <2>5, <2>6, <2>8
<1>7. ASSUME NEW t \in Threads, Writes(t)
      PROVE  \/ Same
             \/ /\ t \in Drawn /\ Line(t) \notin log
                /\ Drawn' = Drawn \ {t} /\ Numbered' = Numbered \cup {Line(t)}
  <2>1. /\ pc[t] = "write" /\ pc'[t] \notin {"write", "update", "own_id", "own_seq"}
        /\ Others(t, pc', pc) /\ draft' = draft /\ session' = session
        /\ log' = log \cup {Line(t)} /\ seen'.crossed = seen.crossed /\ Line(t).op = draft[t].op
    BY <1>7 DEF Writes, After
  <2>2. \A e \in log : e.op # draft[t].op
    BY <2>1 DEF OpInv, OwnOp, Making
  <2>3. LastSeq' = LastSeq
    BY <2>1 DEF LastSeq, Replacing, Others
  <2>4. CASE draft[t].op \in seen.crossed
    <3>1. Numbered' = Numbered
      BY <2>1, <2>4 DEF Numbered
    <3>2. Drawn' = Drawn
      BY <2>1, <2>4 DEF Drawn, Others
    <3> QED
      BY <2>1, <2>3, <3>1, <3>2
  <2>5. CASE draft[t].op \notin seen.crossed
    <3>1. Numbered' = Numbered \cup {Line(t)}
      BY <2>1, <2>5 DEF Numbered
    <3>2. t \in Drawn /\ Drawn' = Drawn \ {t}
      BY <2>1, <2>5 DEF Drawn, Others
    <3> QED
      BY <2>1, <2>2, <3>1, <3>2
  <2> QED
    BY <2>4, <2>5
<1>8. ASSUME NEW t \in Threads, Draws(t)
      PROVE  Same \/ (t \notin Drawn /\ ~ Replacing /\ Drawn' = Drawn \cup {t} /\ Numbered' = Numbered)
  BY <1>5, <1>6, <1>8
<1> HIDE DEF Same
<1>9. ASSUME NEW t \in Threads, Writes(t)
      PROVE  Same \/ \E u \in Drawn : /\ Writes(u) /\ Line(u) \notin log
                                      /\ Drawn' = Drawn \ {u} /\ Numbered' = Numbered \cup {Line(u)}
  BY <1>7, <1>9
<1>10. \/ Same
       \/ \E t \in Threads : Draws(t)
       \/ \E t \in Threads : Writes(t)
  BY <1>2, <1>3, <1>4 DEF Forms
<1>11. \/ Same
       \/ \E t \in Threads \ Drawn :
             Draws(t) /\ ~ Replacing /\ Drawn' = Drawn \cup {t} /\ Numbered' = Numbered
       \/ \E t \in Drawn : /\ Writes(t) /\ Line(t) \notin log
                           /\ Drawn' = Drawn \ {t} /\ Numbered' = Numbered \cup {Line(t)}
  BY <1>8, <1>9, <1>10
<1> QED
  BY <1>11 DEF Same

\* Which threads have counted their command, and the number of commands, after a step.
LEMMA StoringIs ==
    ASSUME TypeInv, TypeInv', OpInv, Forms
    PROVE  \/ /\ Storing' = Storing /\ Logged("command")' = Logged("command")
              /\ session'.commands = session.commands
           \/ \E t \in Threads \ Storing : Stores(t) /\ log' = log /\ Storing' = Storing \cup {t}
           \/ \E t \in Storing : /\ Writes(t) /\ draft[t].type = "command" /\ Line(t) \notin log
                                 /\ Storing' = Storing \ {t}
<1> USE ThreadFacts
<1> DEFINE Same == /\ Storing' = Storing /\ Logged("command")' = Logged("command")
                   /\ session'.commands = session.commands
           Counted(u) == pc[u] \in {"build", "number", "write"} /\ draft[u].type = "command"
\* Steps that neither store nor write.
<1>1. ASSUME log' = log, session'.commands = session.commands,
             \A u \in Threads : Counted(u)' <=> Counted(u)
      PROVE  Same
  BY <1>1 DEF Storing, Logged
<1>2. ASSUME Quiet PROVE Same
  <2>1. \A u \in Threads : Counted(u)' <=> Counted(u)
    BY <1>2 DEF Quiet, Held
  <2> HIDE DEF Counted
  <2> QED
    BY <1>1, <1>2, <2>1 DEF Quiet
<1>3. ASSUME Replaces PROVE Same
  <2>1. {pc[Transport], pc'[Transport]} \cap {"build", "number", "write"} = {}
    BY <1>3 DEF Replaces, Held
  <2>2. \A u \in Threads : Counted(u)' <=> Counted(u)
    BY <1>3, <2>1 DEF Replaces, Others
  <2> HIDE DEF Counted
  <2> QED
    BY <1>1, <1>3, <2>2 DEF Replaces
<1>4. ASSUME NEW t \in Threads,
             Begins(t) \/ Takes(t) \/ Pops(t) \/ Answers(t) \/ Reads(t) \/ Draws(t)
      PROVE  Same
  <2>1. /\ log' = log /\ session'.commands = session.commands
        /\ Others(t, pc', pc) /\ Others(t, draft', draft)
    BY <1>4 DEF Begins, Takes, Pops, Answers, Reads, Draws, SameDraft, Others
  <2>2. Counted(t)' <=> Counted(t)
    BY <1>4 DEF Begins, Takes, Pops, Answers, Reads, Draws, SameDraft, Held
  <2>3. \A u \in Threads : Counted(u)' <=> Counted(u)
    BY <2>1, <2>2 DEF Others
  <2> HIDE DEF Counted
  <2> QED
    BY <1>1, <2>1, <2>3
<1>5. ASSUME NEW t \in Threads, Stores(t)
      PROVE  t \notin Storing /\ Storing' = Storing \cup {t} /\ log' = log
  <2>1. draft[t].type = "command" /\ pc[t] = "counted" /\ pc'[t] = "build"
    BY <1>5 DEF Stores, OpInv, OwnOp
  <2> QED
    BY <1>5, <2>1 DEF Stores, Others, Storing
<1>6. ASSUME NEW t \in Threads, Writes(t)
      PROVE  \/ Same
             \/ /\ t \in Storing /\ draft[t].type = "command" /\ Line(t) \notin log
                /\ Storing' = Storing \ {t}
  <2>1. /\ pc[t] = "write" /\ pc'[t] \notin {"build", "number", "write"}
        /\ Others(t, pc', pc) /\ draft' = draft /\ session' = session
        /\ log' = log \cup {Line(t)} /\ Line(t).op = draft[t].op /\ Line(t).type = draft[t].type
    BY <1>6 DEF Writes, After
  <2>2. \A e \in log : e.op # draft[t].op
    BY <2>1 DEF OpInv, OwnOp, Making
  <2>3. CASE draft[t].type = "command"
    BY <2>1, <2>2, <2>3 DEF Storing, Others
  <2>4. CASE draft[t].type # "command"
    <3>1. Storing' = Storing
      BY <2>1, <2>4 DEF Storing, Others
    <3>2. Logged("command")' = Logged("command")
      BY <2>1, <2>4 DEF Logged
    <3> QED
      BY <2>1, <3>1, <3>2
  <2> QED
    BY <2>3, <2>4
<1> HIDE DEF Same
<1>7. \/ Same
      \/ \E t \in Threads : Stores(t)
      \/ \E t \in Threads : Writes(t)
  BY <1>2, <1>3, <1>4 DEF Forms
<1>8. \/ Same
      \/ \E t \in Threads \ Storing : Stores(t) /\ log' = log /\ Storing' = Storing \cup {t}
      \/ \E t \in Storing : /\ Writes(t) /\ draft[t].type = "command" /\ Line(t) \notin log
                            /\ Storing' = Storing \ {t}
  BY <1>5, <1>6, <1>7
<1> QED
  BY <1>8 DEF Same

LEMMA FiniteKept == TypeInv /\ TypeInv' /\ OpInv /\ FiniteInv /\ Forms => FiniteInv'
<1> SUFFICES ASSUME TypeInv, TypeInv', OpInv, FiniteInv, Forms PROVE FiniteInv'
  OBVIOUS
<1>1. IsFiniteSet(Drawn')
  <2>1. \A t : IsFiniteSet(Drawn \cup {t}) /\ IsFiniteSet(Drawn \ {t})
    BY FS_AddElement, FS_RemoveElement DEF FiniteInv
  <2> QED
    BY <2>1, DrawnIs DEF FiniteInv
<1>2. IsFiniteSet(Storing')
  <2>1. \A t : IsFiniteSet(Storing \cup {t}) /\ IsFiniteSet(Storing \ {t})
    BY FS_AddElement, FS_RemoveElement DEF FiniteInv
  <2> QED
    BY <2>1, StoringIs DEF FiniteInv
<1>3. IsFiniteSet(log')
  <2>1. log' = log \/ \E t \in Threads : log' = log \cup {Line(t)}
    BY DEF Forms, Quiet, Replaces, Begins, Takes, Pops, Answers, Reads, Draws, Stores, Writes
  <2> QED
    BY <2>1, FS_AddElement DEF FiniteInv
<1> QED
  BY <1>1, <1>2, <1>3 DEF FiniteInv

LEMMA SeqsKept ==
    ASSUME TypeInv, TypeInv', OpInv, FiniteInv, SeqInv, Forms
    PROVE  SeqInv'
<1>0. /\ LastSeq \in Nat /\ LastSeq = Cardinality(Numbered) + Cardinality(Drawn)
      /\ {e.seq : e \in Numbered} \cup {draft[t].seq : t \in Drawn} = 1..LastSeq
      /\ IsFiniteSet(Numbered) /\ Cardinality(Numbered) \in Nat
      /\ IsFiniteSet(Drawn) /\ Cardinality(Drawn) \in Nat
  BY FS_Subset, FS_CardinalityType DEF SeqInv, FiniteInv, Numbered
<1>1. CASE /\ Numbered' = Numbered /\ Drawn' = Drawn /\ LastSeq' = LastSeq
           /\ \A u \in Drawn : draft'[u].seq = draft[u].seq
  <2>1. {draft'[t].seq : t \in Drawn'} = {draft[t].seq : t \in Drawn}
    BY <1>1
  <2> QED
    BY <1>0, <1>1, <2>1 DEF SeqInv
<1>2. ASSUME NEW t \in Threads \ Drawn, Draws(t), ~ Replacing,
             Drawn' = Drawn \cup {t}, Numbered' = Numbered
      PROVE  SeqInv'
  <2>1. LastSeq = session.seq /\ LastSeq' = LastSeq + 1
    BY <1>2, ThreadFacts DEF Draws, LastSeq, Replacing, Others
  <2>2. /\ \A u \in Drawn : draft'[u] = draft[u]
        /\ draft'[t].seq = LastSeq + 1
    BY <1>2, <2>1 DEF Draws, SameDraft, Others, Drawn
  <2>3. {draft'[u].seq : u \in Drawn'} = {draft[u].seq : u \in Drawn} \cup {LastSeq + 1}
    BY <1>2, <2>2
  <2>4. 1..(LastSeq + 1) = 1..LastSeq \cup {LastSeq + 1}
    BY <1>0
  <2>5. {e.seq : e \in Numbered'} \cup {draft'[u].seq : u \in Drawn'} = 1..LastSeq'
    BY <1>0, <1>2, <2>1, <2>3, <2>4
  <2>6. Cardinality(Drawn') = Cardinality(Drawn) + 1
    BY <1>0, <1>2, FS_AddElement
  <2> QED
    BY <1>0, <1>2, <2>1, <2>5, <2>6 DEF SeqInv
<1>3. ASSUME NEW t \in Drawn, Writes(t), Line(t) \notin log,
             Drawn' = Drawn \ {t}, Numbered' = Numbered \cup {Line(t)}
      PROVE  SeqInv'
  <2>1. /\ draft' = draft /\ session' = session /\ Line(t).seq = draft[t].seq
        /\ pc[t] = "write" /\ pc'[t] \notin {"write", "update", "own_id", "own_seq"}
        /\ Others(t, pc', pc) /\ t \in Threads
    BY <1>3 DEF Writes, After, Drawn
  <2>2. LastSeq' = LastSeq
    BY <2>1, ThreadFacts DEF LastSeq, Replacing, Others
  <2>3. {e.seq : e \in Numbered'} = {e.seq : e \in Numbered} \cup {draft[t].seq}
    BY <1>3, <2>1
  <2>4. {draft'[u].seq : u \in Drawn'} \cup {draft[t].seq} = {draft[u].seq : u \in Drawn}
    BY <1>3, <2>1
  <2>5. {e.seq : e \in Numbered'} \cup {draft'[u].seq : u \in Drawn'} = 1..LastSeq'
    BY <1>0, <2>2, <2>3, <2>4
  <2>6. Line(t) \notin Numbered
    BY <1>3 DEF Numbered
  <2>7. /\ Cardinality(Drawn') = Cardinality(Drawn) - 1
        /\ Cardinality(Numbered') = Cardinality(Numbered) + 1
    BY <1>0, <1>3, <2>6, FS_AddElement, FS_RemoveElement
  <2> QED
    BY <1>0, <2>2, <2>5, <2>7 DEF SeqInv
<1> QED
  BY <1>1, <1>2, <1>3, DrawnIs

-----------------------------------------------------------------------------
(* Session ids, and what crosses the replacement.                          *)

LEMMA SidsKept ==
    ASSUME TypeInv, TypeInv', OpInv, SidInv, Forms
    PROVE  SidInv'
<1> USE ThreadFacts
<1> DEFINE Own(t) == pc[t] \in {"number", "write"} =>
                        draft[t].sid = "own" \/ draft[t].op \in seen.foreign
           Back == session.sid = "own" \/ pc[Transport] = "own_id"
<1>0. (\A e \in log : e.sid = "own" \/ e.op \in seen.foreign) /\ (\A t \in Threads : Own(t)) /\ Back
  BY DEF SidInv
<1>1. CASE Quiet
  <2>1. \A t \in Threads : Own(t)'
    BY <1>0, <1>1 DEF Quiet, Held
  <2>2. Back'
    BY <1>0, <1>1 DEF Quiet, Held
  <2> QED
    BY <1>0, <1>1, <2>1, <2>2 DEF Quiet, SidInv
<1>2. CASE Replaces
  <2>1. pc'[Transport] \notin {"number", "write"}
    BY <1>2 DEF Replaces, Held
  <2>2. \A t \in Threads : Own(t)'
    BY <1>0, <1>2, <2>1 DEF Replaces, Others
  <2>3. Back'
    BY <1>0, <1>2 DEF Replaces, Held
  <2> QED
    BY <1>0, <1>2, <2>2, <2>3 DEF Replaces, SidInv
<1>3. ASSUME NEW t \in Threads, Others(t, pc', pc), Others(t, draft', draft), Own(t)',
             pc[t] # "own_id", session'.sid = session.sid, seen'.foreign = seen.foreign \/ Reads(t),
             log' = log \/ (log' = log \cup {Line(t)} /\ Writes(t))
      PROVE  SidInv'
  <2>0. seen.foreign \subseteq seen'.foreign
    BY <1>3 DEF Reads
  <2>1. \A u \in Threads : Own(u)'
    BY <1>0, <1>3, <2>0 DEF Others
  <2>2. Back'
    BY <1>0, <1>3 DEF Others
  <2>3. \A e \in log' : e.sid = "own" \/ e.op \in seen'.foreign
    <3>1. Writes(t) => Line(t).sid = "own" \/ Line(t).op \in seen.foreign
      BY <1>0 DEF Writes
    <3> QED
      BY <1>0, <1>3, <2>0, <3>1
  <2> QED
    BY <2>1, <2>2, <2>3 DEF SidInv
<1>4. ASSUME NEW t \in Threads, Begins(t) \/ Takes(t) \/ Pops(t) \/ Answers(t) \/ Stores(t)
      PROVE  SidInv'
  <2>1. /\ Others(t, pc', pc) /\ Others(t, draft', draft) /\ log' = log
        /\ session'.sid = session.sid /\ seen'.foreign = seen.foreign
    BY <1>4 DEF Begins, Takes, Pops, Answers, Stores, SameSeen, Others
  <2>2. pc'[t] \notin {"number", "write"} /\ pc[t] # "own_id"
    BY <1>4 DEF Begins, Takes, Pops, Answers, Stores, Held
  <2> QED
    BY <1>3, <2>1, <2>2
<1>5. ASSUME NEW t \in Threads, Reads(t) PROVE SidInv'
  <2>1. /\ Others(t, pc', pc) /\ Others(t, draft', draft) /\ log' = log /\ session' = session
        /\ pc[t] = "build" /\ draft'[t].sid = session.sid /\ draft'[t].op = draft[t].op
        /\ seen'.foreign = IF Replacing THEN seen.foreign \cup {draft[t].op} ELSE seen.foreign
    BY <1>5 DEF Reads, SameDraft
  <2>2. session.sid = "own" \/ Replacing
    BY <1>0 DEF Replacing
  <2>3. Own(t)'
    BY <2>1, <2>2
  <2> QED
    BY <1>3, <1>5, <2>1, <2>3
<1>6. ASSUME NEW t \in Threads, Draws(t) PROVE SidInv'
  <2>1. /\ Others(t, pc', pc) /\ Others(t, draft', draft) /\ log' = log /\ session'.sid = session.sid
        /\ pc[t] = "number" /\ draft'[t].sid = draft[t].sid /\ draft'[t].op = draft[t].op
        /\ seen'.foreign = seen.foreign
    BY <1>6 DEF Draws, SameDraft
  <2>2. Own(t)'
    BY <1>0, <2>1
  <2> QED
    BY <1>3, <2>1, <2>2
<1>7. ASSUME NEW t \in Threads, Writes(t) PROVE SidInv'
  <2>1. /\ Others(t, pc', pc) /\ draft' = draft /\ session' = session
        /\ log' = log \cup {Line(t)} /\ seen'.foreign = seen.foreign
        /\ pc[t] = "write" /\ pc'[t] \notin {"number", "write"}
    BY <1>7 DEF Writes, After
  <2> QED
    BY <1>3, <1>7, <2>1 DEF Others
<1> QED
  BY <1>1, <1>2, <1>4, <1>5, <1>6, <1>7 DEF Forms

\* Only the main thread makes events while the session is replaced: the transport thread
\* is replacing it, and there are no channels yet.
LEMMA CrossKept ==
    ASSUME TypeInv, OpInv, AuthInv, CrossInv, Forms
    PROVE  CrossInv'
<1> USE ThreadFacts
<1>1. CASE seen'.crossed = seen.crossed /\ seen'.foreign = seen.foreign
  BY <1>1 DEF CrossInv
<1>2. ASSUME NEW t \in Threads, Reads(t) \/ Draws(t) PROVE CrossInv'
  <2>1. pc[t] \in {"build", "number"}
    BY <1>2 DEF Reads, Draws
  <2>2. Replacing => t = Main
    BY <2>1 DEF Replacing, AuthInv, Trying, Threads
  <2>3. draft[t].op = <<t, jobs[t]>>
    BY <2>1 DEF OpInv, OwnOp, Making
  <2>4. Replacing => draft[t].op[1] = Main
    BY <2>2, <2>3
  <2>5. /\ seen'.crossed \subseteq seen.crossed \cup (IF Replacing THEN {draft[t].op} ELSE {})
        /\ seen'.foreign \subseteq seen.foreign \cup (IF Replacing THEN {draft[t].op} ELSE {})
    BY <1>2 DEF Reads, Draws
  <2> QED
    BY <2>4, <2>5 DEF CrossInv
<1>3. \/ seen'.crossed = seen.crossed /\ seen'.foreign = seen.foreign
      \/ \E t \in Threads : Reads(t) \/ Draws(t)
  BY DEF Forms, Quiet, Replaces, Begins, Takes, Pops, Stores, Writes, Answers, SameSeen
<1> QED
  BY <1>1, <1>2, <1>3

LEMMA AuthsKept ==
    ASSUME TypeInv, TypeInv', OpInv, AuthInv, [Next]_vars
    PROVE  AuthInv'
<1> USE ThreadFacts
<1> DEFINE Channeled == \A c \in Channels : open[c] \/ pc[c] # "new" => authed
           Calm == /\ authed' = authed
                   /\ \A c \in Channels : open'[c] \/ pc'[c] # "new" => open[c] \/ pc[c] # "new" \/ authed
<1>0. (Trying => ~ authed) /\ Channeled
  BY DEF AuthInv
<1>1. Calm /\ (Trying' => Trying \/ ~ authed) => AuthInv'
  BY <1>0 DEF AuthInv
<1>2. ASSUME NEW t \in Threads \ {Transport}, Others(t, pc', pc), Others(t, draft', draft),
             authed' = authed, \A c \in Channels : open'[c] => open[c] \/ authed,
             t \in Channels => pc[t] # "new" \/ authed
      PROVE  AuthInv'
  <2>1. Trying' => Trying
    BY <1>2 DEF Others, Trying, Attempting
  <2>2. Calm
    BY <1>2 DEF Others
  <2> QED
    BY <1>1, <2>1, <2>2
<1>3. ASSUME Others(Transport, pc', pc), authed' = authed,
             \A c \in Channels : open'[c] => open[c] \/ authed, Trying' => Trying \/ ~ authed
      PROVE  AuthInv'
  <2>1. Calm
    BY <1>3 DEF Others
  <2> QED
    BY <1>1, <1>3, <2>1
<1>4. CASE UNCHANGED vars
  <2>1. Calm /\ (Trying' => Trying)
    BY <1>4 DEF vars, chans, Trying, Attempting
  <2> QED
    BY <1>1, <2>1
<1>5. ASSUME NEW t \in Threads, LogEvent(t) PROVE AuthInv'
  <2>1. /\ authed' = authed /\ open' = open
        /\ Reads(t) \/ Draws(t) \/ Writes(t)
    BY <1>5, NumbersForm, WritesForm DEF LogEvent, ReadSid, NumberEvent, WriteEvent, chans
  <2>2. pc[t] # "new" /\ Others(t, pc', pc) /\ Others(t, draft', draft)
    BY <2>1 DEF Reads, Draws, Writes, SameDraft, Others
  <2>3. CASE t = Transport
    <3>1. draft'[t].type = draft[t].type
      BY <2>1 DEF Reads, Draws, Writes, SameDraft
    <3>2. Writes(t) => draft[t].type \in {"auth_attempt", "command"}
      BY <2>3 DEF Writes, OpInv, OwnOp, Making, TypesOf
    <3>3. Trying' => Trying
      BY <2>1, <2>3, <3>1, <3>2 DEF Reads, Draws, Writes, After, Trying, Attempting
    <3> QED
      BY <1>3, <2>1, <2>2, <2>3, <3>3
  <2> QED
    BY <1>2, <2>1, <2>2, <2>3
<1>6. CASE HandleClient /\ ~ LogEvent(Main)
  <2>1. CASE StartServer
    <3>1. ~ Trying' /\ authed' = authed /\ open' = open /\ \A c \in Channels : pc'[c] = pc[c]
      BY <2>1 DEF StartServer, Trying, Attempting, TypeInv, chans
    <3> QED
      BY <1>1, <3>1
  <2>2. CASE LogSessionStart \/ LogFingerprint
    <3>1. Begins(Main)
      BY <2>2, BeginsForm DEF LogSessionStart, LogFingerprint, TypesOf, Held
    <3> QED
      BY <1>2, <2>2, <3>1 DEF Begins, LogSessionStart, LogFingerprint, chans
  <2>3. CASE LogSessionEnd
    <3>1. Begins(Main) /\ authed' = authed /\ \A c \in Channels : ~ open'[c]
      BY <2>3, SessionEndForm DEF LogSessionEnd
    <3> QED
      BY <1>2, <3>1 DEF Begins
  <2>4. CASE HandshakeFails \/ AcceptChannel \/ ChannelClosed \/ LeaveLoop
    <3>1. Others(Main, pc', pc) /\ draft' = draft /\ authed' = authed /\ open' = open
      BY <2>4, GoesIs
         DEF HandshakeFails, AcceptChannel, ChannelClosed, LeaveLoop, Others, chans, TypeInv
    <3> QED
      BY <1>2, <3>1 DEF Others
  <2> QED
    BY <1>6, <2>1, <2>2, <2>3, <2>4 DEF HandleClient
<1>7. CASE Negotiate \/ ScpTimeout \/ Dies
  <2>1. /\ Others(Transport, pc', pc) /\ authed' = authed
        /\ \A c \in Channels : open'[c] => open[c]
    BY <1>7, GoesIs DEF Negotiate, ScpTimeout, Dies, Others, chans, TypeInv
  <2>2. pc'[Transport] \in {"idle", "dead"}
    BY <1>7, GoesIs DEF Negotiate, ScpTimeout, Dies, TypeInv
  <2> QED
    BY <1>3, <2>1, <2>2 DEF Trying, Attempting
<1>8. CASE AuthPassword
  <2>1. ~ authed /\ authed' = authed /\ open' = open /\ Others(Transport, pc', pc)
    BY <1>8, GoesIs DEF AuthPassword, Receives, chans
  <2> QED
    BY <1>3, <2>1
<1>9. CASE Authenticate
  <2>1. /\ pc[Transport] \in {"decide", "update", "own_id", "own_seq"}
        /\ Others(Transport, pc', pc) /\ open' = open
    BY <1>9, GoesIs DEF Authenticate, Reject, AcceptWithoutBackend, SaveSeq, UpdateSession,
                        RestoreSid, RestoreSeq, chans
  <2>2. Trying
    BY <2>1 DEF Trying
  <2>3. CASE authed' = authed
    BY <1>3, <2>1, <2>2, <2>3
  <2>4. CASE authed' # authed
    <3>1. authed' /\ pc'[Transport] = "idle"
      BY <1>9, <2>4, GoesIs DEF Authenticate, Reject, AcceptWithoutBackend, SaveSeq, UpdateSession,
                                RestoreSid, RestoreSeq
    <3> QED
      BY <3>1 DEF AuthInv, Trying, Attempting
  <2> QED
    BY <2>3, <2>4
<1>10. ASSUME NEW t \in Threads \ {Main}, Command(t) PROVE AuthInv'
  <2>1. /\ authed' = authed /\ open' = open
        /\ Pops(t) \/ Stores(t) \/ Answers(t)
    BY <1>10, PopsForm, StoresForm, AnswersForm DEF Command, PopLabel, StoreCommands, Answer, chans
  <2>2. pc[t] # "new" /\ Others(t, pc', pc) /\ Others(t, draft', draft)
    BY <2>1 DEF Pops, Stores, Answers, Others
  <2>3. CASE t = Transport
    <3>1. Stores(t) => draft'[t].type = "command"
      BY DEF Stores, OpInv, OwnOp
    <3>2. ~ Trying'
      BY <2>1, <2>3, <3>1 DEF Pops, Stores, Answers, Trying, Attempting
    <3> QED
      BY <1>3, <2>1, <2>2, <2>3, <3>2
  <2> QED
    BY <1>2, <2>1, <2>2, <2>3
<1>11. ASSUME NEW c \in Channels, OpenChannel(c) \/ ReceiveData(c) \/ CloseChannel(c) PROVE AuthInv'
  <2>1. /\ pc' = pc /\ draft' = draft /\ authed' = authed
        /\ \A d \in Channels : open'[d] => open[d] \/ authed
    BY <1>11 DEF OpenChannel, ReceiveData, CloseChannel, TypeInv, TypeOK
  <2>2. Calm /\ (Trying' => Trying)
    BY <2>1 DEF Trying, Attempting
  <2> QED
    BY <1>1, <2>2
<1>12. ASSUME NEW c \in Channels, RequestThread(c) \/ CloseFile(c) \/ ShellCommand(c)
                                    \/ ShellEnds(c) \/ SftpEnds(c)
       PROVE  AuthInv'
  <2>1. authed' = authed /\ \A d \in Channels : open'[d] => open[d]
    BY <1>12 DEF RequestThread, Requested, CloseFile, ShellCommand, TakesCommand, ShellEnds, SftpEnds,
                 chans, TypeInv, TypeOK
  <2>2. pc[c] # "new" \/ authed
    BY <1>0, <1>12 DEF RequestThread, Requested, CloseFile, ShellCommand, TakesCommand, ShellEnds,
                       SftpEnds, Goes
  <2>3. Others(c, pc', pc) /\ Others(c, draft', draft)
    <3>1. CASE RequestThread(c) \/ ShellEnds(c) \/ SftpEnds(c)
      BY <3>1, GoesIs DEF RequestThread, ShellEnds, SftpEnds, Others
    <3>2. CASE CloseFile(c)
      <4>1. Begins(c)
        BY <3>2, BeginsForm DEF CloseFile, Held, TypesOf
      <4> QED
        BY <4>1 DEF Begins
    <3>3. CASE ShellCommand(c)
      BY <3>3, TakesForm DEF ShellCommand, Takes
    <3> QED
      BY <1>12, <3>1, <3>2, <3>3
  <2> QED
    BY <1>2, <2>1, <2>2, <2>3
<1>13. ASSUME NEW c \in Channels, RequestExec(c) \/ RequestScp(c) PROVE AuthInv'
  <2>1. /\ authed' = authed /\ open' = open /\ Others(Transport, pc', pc)
        /\ pc'[Transport] \in {"reply", "counted", "scp"}
    <3>1. CASE RequestExec(c)
      <4>1. Requested(c, "exec") /\ TakesCommand(Transport) /\ Transport \in Threads \ {Main}
        BY <3>1, ThreadFacts DEF RequestExec
      <4>2. Takes(Transport)
        BY <4>1, TakesForm
      <4> QED
        BY <4>1, <4>2 DEF Requested, TakesCommand, Takes
    <3>2. CASE RequestScp(c)
      BY <3>2, GoesIs, ThreadFacts DEF RequestScp, Requested
    <3> QED
      BY <1>13, <3>1, <3>2
  <2> QED
    BY <1>3, <2>1 DEF Trying, Attempting
<1>14. HandleClient => AuthInv'
  BY <1>5, <1>6
<1>15. TransportThread => AuthInv'
  BY <1>5, <1>7, <1>9, <1>10 DEF TransportThread, TransportEnds
<1>16. Client => AuthInv'
  BY <1>7, <1>8, <1>11, <1>12, <1>13 DEF Client, TransportRaises
<1>17. (\E c \in Channels : ChannelThread(c)) => AuthInv'
  BY <1>5, <1>10, <1>12 DEF ChannelThread
<1> QED
  BY <1>4, <1>14, <1>15, <1>16, <1>17 DEF Next

-----------------------------------------------------------------------------
(* Labels.                                                                 *)

\* What LabelInv says of one thread.
OwnLabelInv(t) ==
    /\ pc[t] = "reply" =>
          session.label = IF draft[t].op \in seen.named THEN draft[t].op ELSE None
    /\ pc[t] \in {"counted", "build", "number", "write"} /\ draft[t].type = "command"
          /\ draft[t].label # Builtin =>
          draft[t].label = IF draft[t].op \in seen.named THEN draft[t].op ELSE None

LEMMA OpsDiffer ==
    ASSUME TypeInv, OpInv, NEW t \in Threads, NEW u \in Threads, t # u,
           Making(t), Making(u) \/ pc[u] = "answer"
    PROVE  draft[t].op # draft[u].op /\ draft[t].op # <<u, jobs[u] + 1>>
<1>1. draft[t].op = <<t, jobs[t]>> /\ draft[u].op = <<u, jobs[u]>>
  BY DEF OpInv, OwnOp
<1> QED
  BY <1>1

LEMMA LabelsKept ==
    ASSUME TypeInv, TypeInv', OpInv, ~ seen.together => LabelInv, Forms, ~ seen'.together
    PROVE  LabelInv'
<1> USE ThreadFacts
<1>0. ~ seen.together /\ LabelInv
  BY DEF Forms, Quiet, Replaces, Begins, Takes, Pops, Stores, Reads, Draws, Writes, Answers, SameSeen
<1> DEFINE Alone == \A t, u \in Threads : Commanding(t) /\ Commanding(u) => t = u
           Empty == (\A t \in Threads : pc[t] # "reply") => session.label = None
           Own == \A t \in Threads : OwnLabelInv(t)
<1>a. Alone /\ Empty /\ Own
  BY <1>0 DEF LabelInv, OwnLabelInv
<1>b. SUFFICES Alone' /\ Empty' /\ Own'
  BY DEF LabelInv, OwnLabelInv
<1>1. CASE Quiet
  <2>1. \A t \in Threads : /\ pc'[t] = "reply" <=> pc[t] = "reply"
                           /\ pc'[t] = "counted" <=> pc[t] = "counted"
                           /\ pc'[t] \in {"build", "number", "write"}
                                 <=> pc[t] \in {"build", "number", "write"}
    BY <1>1 DEF Quiet, Held
  <2>2. Alone' /\ Empty'
    BY <1>1, <1>a, <2>1 DEF Quiet, Commanding
  <2>3. Own'
    BY <1>1, <1>a, <2>1 DEF Quiet, OwnLabelInv
  <2> QED
    BY <2>2, <2>3
<1>2. CASE Replaces
  <2>1. {pc[Transport], pc'[Transport]} \cap {"reply", "counted", "build", "number", "write"} = {}
    BY <1>2 DEF Replaces, Held
  <2>2. \A t \in Threads \ {Transport} : pc'[t] = pc[t] /\ draft'[t] = draft[t]
    BY <1>2 DEF Replaces, Others
  <2>3. Alone' /\ Empty'
    BY <1>2, <1>a, <2>1, <2>2 DEF Replaces, Commanding
  <2>4. Own'
    BY <1>2, <1>a, <2>1, <2>2 DEF Replaces, OwnLabelInv
  <2> QED
    BY <2>3, <2>4
<1>3. ASSUME NEW t \in Threads, Begins(t) PROVE Alone' /\ Empty' /\ Own'
  <2>1. /\ pc[t] \notin {"reply", "counted", "build", "number", "write"}
        /\ pc'[t] = "build" /\ draft'[t].type # "command"
    BY <1>3 DEF Begins, Held
  <2>2. \A u \in Threads \ {t} : pc'[u] = pc[u] /\ draft'[u] = draft[u]
    BY <1>3 DEF Begins, Others
  <2>3. session'.label = session.label /\ seen'.named = seen.named
    BY <1>3 DEF Begins, SameSeen
  <2>4. Alone' /\ Empty'
    BY <1>a, <2>1, <2>2, <2>3 DEF Commanding
  <2>5. Own'
    BY <1>a, <2>1, <2>2, <2>3 DEF OwnLabelInv
  <2> QED
    BY <2>4, <2>5
<1>4. ASSUME NEW t \in Threads, Takes(t) PROVE Alone' /\ Empty' /\ Own'
  <2>1. \A u \in Threads \ {t} : pc'[u] = pc[u] /\ draft'[u] = draft[u] /\ ~ Commanding(u)
    BY <1>4 DEF Takes, Others
  <2>2. pc[t] \notin {"reply", "counted"} /\ pc'[t] \in {"reply", "counted"}
    BY <1>4 DEF Takes, Held
  <2>3. session.label = None
    BY <1>a, <2>1, <2>2 DEF Commanding
  <2>4. draft'[t].op = <<t, jobs[t] + 1>> /\ draft'[t].op \notin seen.named
    BY <1>4, NewOp DEF Takes
  <2>5. Alone'
    BY <2>1 DEF Commanding
  <2>6. Empty'
    BY <1>4, <2>2, <2>3 DEF Takes
  <2>7. OwnLabelInv(t)'
    BY <1>4, <2>2, <2>3, <2>4 DEF Takes, OwnLabelInv
  <2>8. ASSUME NEW u \in Threads \ {t} PROVE OwnLabelInv(u)'
    <3>1. pc[u] # "reply" /\ pc[u] # "counted"
      BY <2>1 DEF Commanding
    <3>2. pc[u] \in {"build", "number", "write"} => draft[u].op # draft'[t].op
      BY <2>4 DEF OpInv, OwnOp, Making
    <3>3. seen'.named = seen.named \/ seen'.named = seen.named \cup {draft'[t].op}
      BY <1>4 DEF Takes
    <3> QED
      BY <1>a, <2>1, <3>1, <3>2, <3>3 DEF OwnLabelInv
  <2> QED
    BY <2>5, <2>6, <2>7, <2>8
<1>5. ASSUME NEW t \in Threads, Reads(t) \/ Draws(t) \/ Stores(t) PROVE Alone' /\ Empty' /\ Own'
  <2>1. /\ pc[t] \in {"counted", "build", "number"} /\ pc'[t] \in {"build", "number", "write"}
    BY <1>5 DEF Reads, Draws, Stores
  <2>2. \A u \in Threads \ {t} : pc'[u] = pc[u] /\ draft'[u] = draft[u]
    BY <1>5 DEF Reads, Draws, Stores, SameDraft, Others
  <2>3. /\ session'.label = session.label /\ seen'.named = seen.named
        /\ draft'[t].type = draft[t].type /\ draft'[t].op = draft[t].op
        /\ draft'[t].label = draft[t].label
    BY <1>5 DEF Reads, Draws, Stores, SameDraft
  <2>5. Alone' /\ Empty'
    BY <1>a, <2>1, <2>2, <2>3 DEF Commanding
  <2>6. Own'
    BY <1>a, <2>1, <2>2, <2>3 DEF OwnLabelInv
  <2> QED
    BY <2>5, <2>6
<1>6. ASSUME NEW t \in Threads, Writes(t) PROVE Alone' /\ Empty' /\ Own'
  <2>1. pc[t] = "write" /\ pc'[t] \notin {"reply", "counted", "build", "number", "write"}
    BY <1>6 DEF Writes, After
  <2>2. \A u \in Threads \ {t} : pc'[u] = pc[u]
    BY <1>6 DEF Writes, Others
  <2>3. session' = session /\ seen'.named = seen.named /\ draft' = draft
    BY <1>6 DEF Writes
  <2>5. Alone' /\ Empty'
    BY <1>a, <2>1, <2>2, <2>3 DEF Commanding
  <2>6. Own'
    BY <1>a, <2>1, <2>2, <2>3 DEF OwnLabelInv
  <2> QED
    BY <2>5, <2>6
<1>7. ASSUME NEW t \in Threads, Pops(t) PROVE Alone' /\ Empty' /\ Own'
  <2>1. pc[t] = "reply" /\ pc'[t] = "counted"
    BY <1>7 DEF Pops
  <2>2. \A u \in Threads \ {t} : pc'[u] = pc[u] /\ draft'[u] = draft[u] /\ ~ Commanding(u)
    BY <1>7, <1>a, <2>1 DEF Pops, Others, Commanding
  <2>3. /\ session'.label = None /\ seen' = seen
        /\ draft'[t].op = draft[t].op /\ draft'[t].label = session.label
    BY <1>7 DEF Pops
  <2>5. Alone' /\ Empty'
    BY <2>2, <2>3 DEF Commanding
  <2>6. Own'
    BY <1>a, <2>1, <2>2, <2>3 DEF OwnLabelInv, Commanding
  <2> QED
    BY <2>5, <2>6
<1>8. ASSUME NEW t \in Threads, Answers(t) PROVE Alone' /\ Empty' /\ Own'
  <2>1. pc[t] = "answer" /\ pc'[t] \notin {"reply", "counted", "build", "number", "write"}
    BY <1>8 DEF Answers
  <2>2. \A u \in Threads \ {t} : pc'[u] = pc[u] /\ draft'[u] = draft[u]
    BY <1>8 DEF Answers, Others
  <2>3. session' = session /\ seen'.named = seen.named \ {draft[t].op}
    BY <1>8 DEF Answers
  <2>5. Alone' /\ Empty'
    BY <1>a, <2>1, <2>2, <2>3 DEF Commanding
  <2>6. ASSUME NEW u \in Threads \ {t} PROVE OwnLabelInv(u)'
    <3>1. Making(u) => draft[u].op # draft[t].op
      BY <2>1, OpsDiffer
    <3> QED
      BY <1>a, <2>2, <2>3, <3>1 DEF OwnLabelInv, Making
  <2>7. OwnLabelInv(t)'
    BY <2>1 DEF OwnLabelInv
  <2> QED
    BY <2>5, <2>6, <2>7
<1> QED
  BY <1>1, <1>2, <1>3, <1>4, <1>5, <1>6, <1>7, <1>8 DEF Forms

-----------------------------------------------------------------------------
(* Counters.                                                               *)

\* Events of a type in the log, after one more was written.
LEMMA LoggedIs ==
    ASSUME FiniteInv, NEW t \in Threads, Writes(t), Line(t) \notin log, NEW type
    PROVE  /\ Logged(type)' = IF draft[t].type = type THEN Logged(type) \cup {Line(t)} ELSE Logged(type)
           /\ Cardinality(Logged(type)') =
                 Cardinality(Logged(type)) + (IF draft[t].type = type THEN 1 ELSE 0)
<1>1. Logged(type)' = IF draft[t].type = type THEN Logged(type) \cup {Line(t)} ELSE Logged(type)
  BY DEF Writes, Logged
<1>2. IsFiniteSet(Logged(type)) /\ Line(t) \notin Logged(type)
  BY FS_Subset DEF FiniteInv, Logged
<1>3. Cardinality(Logged(type)) \in Nat
  BY <1>2, FS_CardinalityType
<1>4. Cardinality(Logged(type) \cup {Line(t)}) = Cardinality(Logged(type)) + 1
  BY <1>2, FS_AddElement
<1> QED
  BY <1>1, <1>3, <1>4

AttemptsInv ==
    /\ session.attempts = Cardinality(Logged("auth_attempt")) + (IF Attempting THEN 1 ELSE 0)
    /\ session.ok <=> (\E a \in Logged("auth_attempt") : a.ok) \/ (Attempting /\ draft[Transport].ok)

CommandsInv ==
    /\ session.commands = Cardinality(Logged("command")) + Cardinality(Storing)
    /\ \A t \in Threads : pc[t] = "counted" => draft[t].commands = session.commands

LEMMA CountParts == CountInv <=> AttemptsInv /\ (~ seen.together => CommandsInv)
BY DEF CountInv, AttemptsInv, CommandsInv

\* What a thread makes when it has a draft of its own to number or to write.
LEMMA TypesAre ==
    ASSUME OpInv, NEW t \in Threads, Making(t)
    PROVE  /\ draft[t].type \in TypesOf(t)
           /\ pc[t] = "counted" => draft[t].type = "command"
BY DEF OpInv, OwnOp, Making

LEMMA AttemptsKept ==
    ASSUME TypeInv, TypeInv', OpInv, FiniteInv, AttemptsInv, Forms
    PROVE  AttemptsInv'
<1> USE ThreadFacts
<1>1. ASSUME log' = log, session'.attempts = session.attempts, session'.ok = session.ok,
             Attempting' <=> Attempting, Attempting => draft'[Transport].ok = draft[Transport].ok
      PROVE  AttemptsInv'
  BY <1>1 DEF AttemptsInv, Logged
<1>2. CASE Quiet
  <2>1. Attempting' <=> Attempting
    BY <1>2 DEF Quiet, Attempting, Held
  <2> QED
    BY <1>1, <1>2, <2>1 DEF Quiet
<1>3. CASE Replaces
  <2>1. ~ Attempting' /\ ~ Attempting
    BY <1>3 DEF Replaces, Attempting, Held
  <2> QED
    BY <1>1, <1>3, <2>1 DEF Replaces, SameCounts
<1>4. ASSUME NEW t \in Threads \ {Transport}, Begins(t) PROVE AttemptsInv'
  <2>1. pc'[Transport] = pc[Transport] /\ draft'[Transport] = draft[Transport]
    BY <1>4 DEF Begins, Others
  <2> QED
    BY <1>1, <1>4, <2>1 DEF Begins, SameCounts, Attempting
<1>5. ASSUME Begins(Transport) PROVE AttemptsInv'
  <2>1. ~ Attempting /\ Attempting' /\ log' = log
    BY <1>5 DEF Begins, Attempting, Held, TypesOf
  <2>2. Cardinality(Logged("auth_attempt")) = session.attempts /\ session.attempts \in Nat
    <3>1. IsFiniteSet(Logged("auth_attempt"))
      BY FS_Subset DEF FiniteInv, Logged
    <3> QED
      BY <2>1, <3>1, FS_CardinalityType, SessionIs DEF AttemptsInv
  <2>3. Logged("auth_attempt")' = Logged("auth_attempt")
    BY <2>1 DEF Logged
  <2>4. session.ok <=> \E a \in Logged("auth_attempt") : a.ok
    BY <2>1 DEF AttemptsInv
  <2>5. session'.attempts = session.attempts + 1 /\ session'.ok = (session.ok \/ draft'[Transport].ok)
    BY <1>5 DEF Begins
  <2> QED
    BY <2>1, <2>2, <2>3, <2>4, <2>5 DEF AttemptsInv
<1>6. ASSUME NEW t \in Threads, Takes(t) \/ Pops(t) \/ Answers(t) PROVE AttemptsInv'
  <2>1. /\ log' = log /\ session'.attempts = session.attempts /\ session'.ok = session.ok
        /\ {pc[t], pc'[t]} \cap {"build", "number", "write"} = {}
        /\ Others(t, pc', pc) /\ Others(t, draft', draft)
    BY <1>6 DEF Takes, Pops, Answers, Held, SameCounts
  <2>2. (Attempting' <=> Attempting) /\ (Attempting => draft'[Transport] = draft[Transport])
    BY <2>1 DEF Attempting, Others
  <2> QED
    BY <1>1, <2>1, <2>2
<1>7. ASSUME NEW t \in Threads, Reads(t) \/ Draws(t) \/ Stores(t) PROVE AttemptsInv'
  <2>0. /\ log' = log /\ SameCounts /\ Others(t, pc', pc) /\ Others(t, draft', draft)
        /\ draft'[t].type = draft[t].type /\ draft'[t].ok = draft[t].ok
    BY <1>7 DEF Reads, Draws, Stores, SameDraft, SameCounts, Others
  <2>1. CASE t = Transport
    <3>1. \/ pc[t] \in {"build", "number"} /\ pc'[t] \in {"number", "write"}
          \/ pc[t] = "counted" /\ draft[t].type = "command"
      BY <1>7, TypesAre DEF Reads, Draws, Stores, Making
    <3>2. Attempting' <=> Attempting
      BY <2>0, <2>1, <3>1 DEF Attempting
    <3> QED
      BY <1>1, <2>0, <2>1, <3>2 DEF SameCounts
  <2>2. CASE t # Transport
    <3>1. pc'[Transport] = pc[Transport] /\ draft'[Transport] = draft[Transport]
      BY <2>0, <2>2 DEF Others
    <3> QED
      BY <1>1, <2>0, <3>1 DEF SameCounts, Attempting
  <2> QED
    BY <2>1, <2>2
<1>8. ASSUME NEW t \in Threads, Writes(t), Line(t) \notin log PROVE AttemptsInv'
  <2>1. /\ pc[t] = "write" /\ pc'[t] \notin {"build", "number", "write"} /\ Others(t, pc', pc)
        /\ draft' = draft /\ session' = session /\ Line(t).ok = draft[t].ok
    BY <1>8 DEF Writes, After
  <2>2. Cardinality(Logged("auth_attempt")) \in Nat
    BY FS_Subset, FS_CardinalityType DEF FiniteInv, Logged
  <2>3. CASE draft[t].type = "auth_attempt"
    <3>1. t = Transport
      BY <2>1, <2>3, TypesAre DEF TypesOf, Making
    <3>2. Attempting /\ ~ Attempting'
      BY <2>1, <2>3, <3>1 DEF Attempting
    <3>3. /\ Logged("auth_attempt")' = Logged("auth_attempt") \cup {Line(t)}
          /\ Cardinality(Logged("auth_attempt")') = Cardinality(Logged("auth_attempt")) + 1
      BY <1>8, <2>3, LoggedIs
    <3> QED
      BY <2>1, <2>2, <3>1, <3>2, <3>3 DEF AttemptsInv
  <2>4. CASE draft[t].type # "auth_attempt"
    <3>1. Attempting' <=> Attempting
      BY <2>1, <2>4 DEF Attempting, Others
    <3>2. Logged("auth_attempt")' = Logged("auth_attempt")
      BY <1>8, <2>4, LoggedIs
    <3> QED
      BY <2>1, <3>1, <3>2 DEF AttemptsInv
  <2> QED
    BY <2>3, <2>4
<1>9. ASSUME NEW t \in Threads, Writes(t) PROVE Line(t) \notin log
  <2>1. Line(t).op = draft[t].op /\ \A e \in log : e.op # draft[t].op
    BY <1>9 DEF Writes, OpInv, OwnOp, Making
  <2> QED
    BY <2>1
<1> QED
  BY <1>2, <1>3, <1>4, <1>5, <1>6, <1>7, <1>8, <1>9 DEF Forms

LEMMA CommandsKept ==
    ASSUME TypeInv, TypeInv', OpInv, FiniteInv, Forms, ~ seen'.together,
           ~ seen.together => LabelInv /\ CommandsInv
    PROVE  CommandsInv'
<1> USE ThreadFacts
<1>0. ~ seen.together /\ CommandsInv /\ \A t, u \in Threads : Commanding(t) /\ Commanding(u) => t = u
  BY DEF Forms, Quiet, Replaces, Begins, Takes, Pops, Stores, Reads, Draws, Writes, Answers, SameSeen,
         LabelInv
<1>1. session'.commands = Cardinality(Logged("command")') + Cardinality(Storing')
  <2>0. /\ IsFiniteSet(Storing) /\ Cardinality(Storing) \in Nat
        /\ IsFiniteSet(Logged("command")) /\ Cardinality(Logged("command")) \in Nat
    BY FS_Subset, FS_CardinalityType DEF FiniteInv, Logged
  <2>1. CASE /\ Storing' = Storing /\ Logged("command")' = Logged("command")
             /\ session'.commands = session.commands
    BY <1>0, <2>1 DEF CommandsInv
  <2>2. ASSUME NEW t \in Threads \ Storing, Stores(t), log' = log, Storing' = Storing \cup {t}
        PROVE  session'.commands = Cardinality(Logged("command")') + Cardinality(Storing')
    <3>1. Logged("command")' = Logged("command")
      BY <2>2 DEF Logged
    <3>2. Cardinality(Storing') = Cardinality(Storing) + 1
      BY <2>0, <2>2, FS_AddElement
    <3>3. session'.commands = draft[t].commands + 1 /\ pc[t] = "counted"
      BY <2>2 DEF Stores
    <3>4. draft[t].commands = Cardinality(Logged("command")) + Cardinality(Storing)
      BY <1>0, <3>3 DEF CommandsInv
    <3> QED
      BY <2>0, <3>1, <3>2, <3>3, <3>4
  <2>3. ASSUME NEW t \in Storing, Writes(t), draft[t].type = "command", Line(t) \notin log,
               Storing' = Storing \ {t}
        PROVE  session'.commands = Cardinality(Logged("command")') + Cardinality(Storing')
    <3>1. t \in Threads /\ session' = session
      BY <2>3 DEF Storing, Writes
    <3>2. Cardinality(Storing') = Cardinality(Storing) - 1
      BY <2>0, <2>3, FS_RemoveElement
    <3>3. Cardinality(Logged("command")') = Cardinality(Logged("command")) + 1
      BY <2>3, <3>1, LoggedIs
    <3> QED
      BY <1>0, <2>0, <3>1, <3>2, <3>3 DEF CommandsInv
  <2> QED
    BY <2>1, <2>2, <2>3, StoringIs
<1>2. ASSUME NEW t \in Threads, pc'[t] = "counted"
      PROVE  draft'[t].commands = session'.commands
  <2>1. pc[t] = "counted" => draft[t].commands = session.commands
    BY <1>0 DEF CommandsInv
  <2>2. CASE Quiet
    BY <1>2, <2>1, <2>2 DEF Quiet, Held
  <2>3. CASE Replaces
    BY <1>2, <2>1, <2>3 DEF Replaces, Others
  <2>4. ASSUME NEW u \in Threads, \/ Begins(u) \/ Takes(u) \/ Pops(u)
                                 \/ Answers(u) \/ Writes(u) \/ Reads(u) \/ Draws(u)
        PROVE  draft'[t].commands = session'.commands
    BY <1>2, <2>1, <2>4
       DEF Begins, Takes, Pops, Answers, Writes, Reads, Draws, SameDraft, After, Others
  <2>5. ASSUME NEW u \in Threads, Stores(u) PROVE draft'[t].commands = session'.commands
    <3>1. u # t /\ pc[t] = "counted" /\ pc[u] = "counted"
      BY <1>2, <2>5 DEF Stores, Others
    <3> QED
      BY <1>0, <3>1 DEF Commanding
  <2> QED
    BY <2>2, <2>3, <2>4, <2>5 DEF Forms
<1> QED
  BY <1>1, <1>2 DEF CommandsInv

-----------------------------------------------------------------------------
(* The end of the session.                                                 *)

Gone == ~ active /\ \A c \in Channels : ~ open[c]
NoneBusy == \A t \in Threads \ {Main} : ~ Busy(t)

MainStays == pc'[Main] = pc[Main] /\ draft'[Main] = draft[Main]

\* Thread t makes its event.
Numbers(t) == Reads(t) \/ Draws(t)

LEMMA NumbersFacts ==
    ASSUME NEW t \in Threads, Numbers(t)
    PROVE  /\ pc[t] \in {"build", "number"} /\ pc'[t] \in {"number", "write"} /\ Others(t, pc', pc)
           /\ log' = log /\ SameDraft(t)
           /\ seen'.after = seen.after /\ seen'.late = seen.late /\ seen'.together = seen.together
BY DEF Numbers, Reads, Draws

\* What steps there are after the transport was closed: of a thread that was busy then
\* and is so no more or still, or of Main.
LEMMA AfterEnd ==
    ASSUME TypeInv, TypeInv', [Next]_vars, Ended, Gone
    PROVE  /\ Gone' /\ seen'.late = seen.late
           /\ MainStays \/ Numbers(Main) \/ Writes(Main)
           /\ NoneBusy => /\ NoneBusy'
                          /\ (MainStays /\ log' = log /\ seen' = seen) \/ Numbers(Main) \/ Writes(Main)
<1> USE ThreadFacts
<1> DEFINE Result == /\ Gone' /\ seen'.late = seen.late
                     /\ MainStays \/ Numbers(Main) \/ Writes(Main)
                     /\ NoneBusy => /\ NoneBusy'
                                    /\ \/ MainStays /\ log' = log /\ seen' = seen
                                       \/ Numbers(Main) \/ Writes(Main)
<1>0. pc[Main] \in {"build", "number", "write", "done"}
  BY DEF Ended, Ending
<1>a. ~ active /\ \A c \in Channels : ~ open[c]
  BY DEF Gone
<1>1. CASE UNCHANGED vars
  <2>1. NoneBusy => NoneBusy'
    BY <1>1 DEF NoneBusy, Busy, vars, chans
  <2> QED
    BY <1>1, <1>a, <2>1 DEF Gone, MainStays, vars, chans
<1>2. CASE LogEvent(Main)
  <2>1. Numbers(Main) \/ Writes(Main)
    BY <1>2, NumbersForm, WritesForm DEF LogEvent, Numbers
  <2>2. UNCHANGED <<active, chans>>
    BY <1>2 DEF LogEvent, ReadSid, NumberEvent, WriteEvent
  <2>3. Gone' /\ seen'.late = seen.late
    BY <1>a, <2>1, <2>2, NumbersFacts DEF Gone, chans, Writes
  <2>4. NoneBusy => NoneBusy'
    BY <2>1, <2>2, NumbersFacts DEF NoneBusy, Busy, chans, Writes, Others
  <2> QED
    BY <2>1, <2>3, <2>4
<1>3. CASE HandleClient /\ ~ LogEvent(Main)
  BY <1>0, <1>3 DEF HandleClient, LogSessionStart, StartServer, HandshakeFails, LogFingerprint,
                    AcceptChannel, ChannelClosed, LeaveLoop, LogSessionEnd, Goes
\* Steps of threads that are busy.
<1>4. ASSUME NEW t \in Threads \ {Main}, Busy(t), UNCHANGED active,
             Others(t, pc', pc), Others(t, draft', draft),
             \A c \in Channels : open'[c] => open[c], seen'.late = seen.late
      PROVE  Result
  <2>1. Gone'
    BY <1>4, <1>a DEF Gone
  <2>2. MainStays
    BY <1>4 DEF MainStays, Others
  <2> QED
    BY <1>4, <2>1, <2>2 DEF NoneBusy
<1>5. ASSUME NEW t \in Threads \ {Main}, LogEvent(t) PROVE Result
  <2>1. Numbers(t) \/ Writes(t)
    BY <1>5, NumbersForm, WritesForm DEF LogEvent, Numbers
  <2>2. UNCHANGED <<active, open>>
    BY <1>5 DEF LogEvent, ReadSid, NumberEvent, WriteEvent, chans
  <2>3. Busy(t)
    BY <1>5, GoesIs DEF LogEvent, ReadSid, NumberEvent, WriteEvent, Busy
  <2> QED
    BY <1>4, <2>1, <2>2, <2>3, NumbersFacts DEF SameDraft, Writes, Others
<1>6. ASSUME NEW t \in Threads \ {Main}, Command(t) PROVE Result
  <2>1. Stores(t) \/ Pops(t) \/ Answers(t)
    BY <1>6, StoresForm, PopsForm, AnswersForm DEF Command
  <2>2. UNCHANGED <<active, open>>
    BY <1>6 DEF Command, PopLabel, StoreCommands, Answer, chans
  <2>3. Busy(t)
    BY <1>6, GoesIs DEF Command, PopLabel, StoreCommands, Answer, Busy
  <2> QED
    BY <1>4, <2>1, <2>2, <2>3 DEF Stores, Pops, Answers, Others
<1>7. CASE Authenticate \/ ScpTimeout
  <2>1. /\ UNCHANGED <<active, open, seen>> /\ Others(Transport, pc', pc) /\ Busy(Transport)
        /\ Others(Transport, draft', draft)
    BY <1>7, GoesIs, EventsAre
       DEF Authenticate, Reject, AcceptWithoutBackend, SaveSeq, UpdateSession,
          RestoreSid, RestoreSeq, ScpTimeout, Busy, Others, chans
  <2> QED
    BY <1>4, <2>1
\* Steps of threads that are not, and go on to be idle or to end.
<1>8. ASSUME NEW t \in Threads \ {Main}, UNCHANGED <<active, draft, log, seen>>, Others(t, pc', pc),
             pc'[t] \in {"idle", "dead", "done"},
             \A c \in Channels : (open'[c] => open[c]) /\ (pending'[c] => pending[c])
      PROVE  Result
  <2>1. Gone'
    BY <1>8, <1>a DEF Gone
  <2>2. MainStays
    BY <1>8 DEF MainStays, Others
  <2>3. NoneBusy => NoneBusy'
    BY <1>8 DEF NoneBusy, Busy, Others
  <2> QED
    BY <1>8, <2>1, <2>2, <2>3
<1>9. CASE Negotiate \/ TransportEnds
  <2>1. pc'[Transport] \in {"idle", "dead"} /\ Others(Transport, pc', pc)
    BY <1>9, GoesIs DEF Negotiate, TransportEnds, Dies, Others, TypeInv
  <2>2. /\ UNCHANGED <<active, draft, log, seen, pending>>
        /\ \A c \in Channels : open'[c] => open[c]
    <3>1. CASE Negotiate
      BY <3>1 DEF Negotiate, chans
    <3>2. CASE TransportEnds
      <4>1. active = FALSE
        BY <3>2 DEF TransportEnds, TypeInv, TypeOK
      <4> QED
        BY <3>2, <4>1 DEF TransportEnds, Dies
    <3> QED
      BY <1>9, <3>1, <3>2
  <2> QED
    BY <1>8, <2>1, <2>2
<1>10. ASSUME NEW c \in Channels, ShellEnds(c) \/ SftpEnds(c) PROVE Result
  <2>1. pc'[c] = "done" /\ Others(c, pc', pc)
    BY <1>10, GoesIs DEF ShellEnds, SftpEnds
  <2>2. /\ UNCHANGED <<active, draft, log, seen>>
        /\ \A d \in Channels : (open'[d] => open[d]) /\ (pending'[d] => pending[d])
    BY <1>10 DEF ShellEnds, SftpEnds, chans, TypeInv, TypeOK
  <2> QED
    BY <1>8, <2>1, <2>2
<1>11. ASSUME NEW c \in Channels, ShellCommand(c) PROVE Result
  <2>1. Takes(c) /\ Busy(c) /\ UNCHANGED <<active, open>>
    BY <1>11, TakesForm DEF ShellCommand, Busy, TakesCommand
  <2> QED
    BY <1>4, <2>1 DEF Takes
<1>12. ASSUME NEW c \in Channels, CloseFile(c) PROVE Result
  <2>1. Begins(c) /\ seen' = seen /\ Busy(c) /\ UNCHANGED <<active, open>>
    BY <1>12, BeginsForm DEF CloseFile, Busy, Held, TypesOf
  <2> QED
    BY <1>4, <2>1 DEF Begins
<1>13. ASSUME NEW c \in Channels,
              OpenChannel(c) \/ RequestThread(c) \/ RequestExec(c) \/ RequestScp(c)
                \/ ReceiveData(c) \/ CloseChannel(c)
       PROVE  Result
  BY <1>13, <1>a DEF OpenChannel, RequestThread, RequestExec, RequestScp, Requested, ReceiveData,
                     CloseChannel
<1>14. CASE AuthPassword \/ TransportRaises
  BY <1>14, <1>a DEF AuthPassword, TransportRaises, Receives
<1>15. HandleClient => Result
  BY <1>2, <1>3
<1>16. TransportThread => Result
  BY <1>5, <1>6, <1>7, <1>9 DEF TransportThread
<1>17. Client => Result
  BY <1>12, <1>13, <1>14 DEF Client
<1>18. (\E c \in Channels : ChannelThread(c)) => Result
  BY <1>5, <1>6, <1>10, <1>11 DEF ChannelThread
<1> QED
  BY <1>1, <1>15, <1>16, <1>17, <1>18 DEF Next

\* Threads other than the main thread leave it alone.
LEMMA MainAlone == TypeInv /\ [Next]_vars /\ ~ HandleClient => MainStays
<1> SUFFICES ASSUME TypeInv, [Next]_vars, ~ HandleClient PROVE MainStays
  OBVIOUS
<1> USE ThreadFacts
<1>1. ASSUME NEW t \in Threads \ {Main}, Others(t, pc', pc), Others(t, draft', draft) PROVE MainStays
  BY <1>1 DEF Others, MainStays
<1>2. ASSUME NEW t \in Threads \ {Main}, LogEvent(t) \/ Command(t) PROVE MainStays
  <2>1. Numbers(t) \/ Writes(t) \/ Stores(t) \/ Pops(t) \/ Answers(t)
    BY <1>2, NumbersForm, WritesForm, StoresForm, PopsForm, AnswersForm DEF LogEvent, Command, Numbers
  <2> QED
    BY <1>1, <2>1, NumbersFacts DEF SameDraft, Writes, Stores, Pops, Answers, Others
<1>3. CASE Negotiate \/ ScpTimeout \/ Authenticate \/ AuthPassword
  <2>1. Others(Transport, pc', pc) /\ Others(Transport, draft', draft)
    BY <1>3, GoesIs, EventsAre DEF Negotiate, Authenticate, Reject, AcceptWithoutBackend, SaveSeq,
          UpdateSession, RestoreSid, RestoreSeq, ScpTimeout, AuthPassword, Receives, Others
  <2> QED
    BY <1>1, <2>1
<1>4. CASE Dies
  <2>1. Others(Transport, pc', pc) /\ draft' = draft
    BY <1>4 DEF Dies, Others, TypeInv
  <2> QED
    BY <1>1, <2>1 DEF Others
<1>5. ASSUME NEW c \in Channels, RequestThread(c) \/ RequestScp(c) \/ ShellEnds(c) \/ SftpEnds(c)
      PROVE  MainStays
  BY <1>5, GoesIs DEF RequestThread, RequestScp, ShellEnds, SftpEnds, Others, MainStays
<1>6. ASSUME NEW c \in Channels, RequestExec(c) \/ ShellCommand(c) PROVE MainStays
  BY <1>1, <1>6, TakesForm DEF RequestExec, ShellCommand, Takes
<1>7. ASSUME NEW c \in Channels, CloseFile(c) PROVE MainStays
  <2>1. Begins(c)
    BY <1>7, BeginsForm DEF CloseFile, Held, TypesOf
  <2> QED
    BY <1>1, <2>1 DEF Begins
<1>8. ASSUME NEW c \in Channels, OpenChannel(c) \/ ReceiveData(c) \/ CloseChannel(c) PROVE MainStays
  BY <1>8 DEF OpenChannel, ReceiveData, CloseChannel, MainStays
<1>9. CASE UNCHANGED vars
  BY <1>9 DEF vars, MainStays
<1>10. TransportThread => MainStays
  BY <1>2, <1>3, <1>4 DEF TransportThread, TransportEnds
<1>11. Client => MainStays
  BY <1>3, <1>4, <1>5, <1>6, <1>7, <1>8 DEF Client, TransportRaises
<1>12. (\E c \in Channels : ChannelThread(c)) => MainStays
  BY <1>2, <1>5, <1>6 DEF ChannelThread
<1> QED
  BY <1>9, <1>10, <1>11, <1>12 DEF Next

\* Only the last handler of _handle_client ends the session.
LEMMA BeforeEnd ==
    ASSUME TypeInv, OpInv, [Next]_vars, ~ Ended, Ended'
    PROVE  LogSessionEnd
<1> USE ThreadFacts
<1> SUFFICES ASSUME ~ LogSessionEnd PROVE FALSE
  OBVIOUS
<1>1. HandleClient
  BY MainAlone DEF MainStays, Ended, Ending
<1>2. CASE LogSessionStart \/ LogFingerprint
  <2>1. pc'[Main] = "build" /\ draft'[Main].type \in {"session_start", "error"}
    <3>1. pc'[Main] = "build"
      BY <1>2, GoesIs DEF LogSessionStart, LogFingerprint
    <3>2. PICK type \in {"session_start", "error"} : Drafts(Main, type, None)
      BY <1>2 DEF LogSessionStart, LogFingerprint
    <3>3. None \in Labels /\ type \in {"session_start", "error", "command", "upload"}
      BY <3>2 DEF Labels
    <3>4. draft'[Main].type = type
      BY <3>2, <3>3, DraftsTyped
    <3> QED
      BY <3>1, <3>2, <3>4
  <2> QED
    BY <2>1 DEF Ended, Ending
<1>3. CASE StartServer \/ HandshakeFails \/ AcceptChannel \/ ChannelClosed \/ LeaveLoop
  <2>1. pc'[Main] \in {"negotiating", "closing", "waiting", "accept"}
    BY <1>3, GoesIs
       DEF StartServer, HandshakeFails, AcceptChannel, ChannelClosed, LeaveLoop, TypeInv
  <2> QED
    BY <2>1 DEF Ended, Ending
<1>4. CASE LogEvent(Main)
  <2>1. CASE Numbers(Main)
    <3>1. pc[Main] \in {"build", "number"} /\ SameDraft(Main)
      BY <2>1, NumbersFacts
    <3> QED
      BY <2>1, <3>1, NumbersFacts DEF SameDraft, Ended, Ending
  <2>2. CASE Writes(Main)
    BY <2>2 DEF Writes, After, Ended, Ending
  <2> QED
    BY <1>4, <2>1, <2>2, NumbersForm, WritesForm DEF LogEvent, Numbers
<1> QED
  BY <1>1, <1>2, <1>3, <1>4 DEF HandleClient

\* An end in the log, after a step, is an old one or the one that was at hand.
LEMMA EndsLogged ==
    ASSUME TypeInv, OpInv, Forms
    PROVE  /\ log \subseteq log'
           /\ seen'.after => seen.after \/ Logged("session_end") # {}
           /\ \/ Logged("session_end")' = Logged("session_end")
              \/ /\ Writes(Main) /\ Line(Main) = draft[Main] /\ draft[Main].type = "session_end"
                 /\ Logged("session_end")' = Logged("session_end") \cup {draft[Main]}
<1>1. CASE log' = log /\ seen'.after = seen.after
  BY <1>1 DEF Logged
<1>2. ASSUME NEW t \in Threads, Writes(t), draft[t].type = "session_end"
      PROVE  t = Main /\ Line(Main) = draft[Main]
  BY <1>2, TypesAre DEF Writes, Making, TypesOf, Line
<1>3. ASSUME NEW t \in Threads, Writes(t)
      PROVE  \/ Logged("session_end")' = Logged("session_end")
             \/ /\ draft[t].type = "session_end"
                /\ Logged("session_end")' = Logged("session_end") \cup {Line(t)}
  BY <1>3 DEF Writes, Logged
<1>4. ASSUME NEW t \in Threads, Writes(t)
      PROVE  log \subseteq log' /\ (seen'.after => seen.after \/ Logged("session_end") # {})
  BY <1>4 DEF Writes, Logged
<1>5. (\E t \in Threads : Writes(t)) \/ (log' = log /\ seen'.after = seen.after)
  BY DEF Forms, Quiet, Replaces, Begins, Takes, Pops, Stores, Reads, Draws, Answers, SameSeen
<1> QED
  BY <1>1, <1>2, <1>3, <1>4, <1>5

\* When the transport is closed and no thread is busy, the counters are those of the log.
LEMMA TruthAtEnd ==
    ASSUME TypeInv, OpInv, FiniteInv, CountInv, LogSessionEnd, NoneBusy
    PROVE  Truth(draft[Main])'
<1> USE ThreadFacts
<1>1. /\ Begins(Main) /\ draft'[Main].attempts = session.attempts
      /\ draft'[Main].ok = session.ok /\ draft'[Main].commands = session.commands
  BY SessionEndForm
<1>2. log' = log /\ seen'.together = seen.together
  BY <1>1 DEF Begins, SameSeen
<1>3. ~ Attempting
  BY DEF NoneBusy, Busy, Attempting
<1>4. Storing = {}
  BY <1>1 DEF NoneBusy, Busy, Storing, Begins, Held
<1>5. /\ Cardinality(Storing) = 0
      /\ Cardinality(Logged("auth_attempt")) \in Nat /\ Cardinality(Logged("command")) \in Nat
  BY <1>4, FS_EmptySet, FS_Subset, FS_CardinalityType DEF FiniteInv, Logged
<1>6. /\ session.attempts = Cardinality(Logged("auth_attempt"))
      /\ session.ok <=> \E a \in Logged("auth_attempt") : a.ok
      /\ ~ seen.together => session.commands = Cardinality(Logged("command"))
  BY <1>3, <1>5 DEF CountInv
<1>7. session.ok \in BOOLEAN
  BY SessionIs
<1>8. /\ Logged("auth_attempt")' = Logged("auth_attempt")
      /\ Logged("command")' = Logged("command")
  BY <1>2 DEF Logged
<1> QED
  BY <1>1, <1>2, <1>6, <1>7, <1>8 DEF Truth

LEMMA EndKept ==
    ASSUME TypeInv, TypeInv', OpInv, FiniteInv, CountInv, EndInv, [Next]_vars
    PROVE  EndInv'
<1> USE ThreadFacts
<1>0. Forms
  BY NextForm
<1>1. CASE Ended
  <2>1. /\ Gone /\ (~ seen.late => NoneBusy)
        /\ Logged("session_end") # {} => pc[Main] = "done"
        /\ seen.after => Logged("session_end") # {}
        /\ Ending /\ ~ seen.late => Truth(draft[Main])
        /\ \A e \in Logged("session_end") : ~ seen.late => ~ seen.after /\ Truth(e)
    BY <1>1 DEF EndInv, Gone, NoneBusy
  <2>2. /\ Gone' /\ seen'.late = seen.late
        /\ MainStays \/ Numbers(Main) \/ Writes(Main)
        /\ ~ seen.late => /\ NoneBusy'
                          /\ (MainStays /\ log' = log /\ seen' = seen) \/ Numbers(Main) \/ Writes(Main)
    BY <1>1, <2>1, AfterEnd
  <2>3. CASE Numbers(Main)
    <3>1. /\ pc[Main] \in {"build", "number"} /\ pc'[Main] \in {"number", "write"} /\ log' = log
          /\ SameDraft(Main) /\ seen'.after = seen.after /\ seen'.together = seen.together
      BY <2>3, NumbersFacts
    <3>2. Logged("session_end")' = {} /\ ~ seen'.after
      BY <2>1, <3>1 DEF Logged
    <3>3. ~ seen.late => Truth(draft[Main])'
      BY <1>1, <2>1, <3>1 DEF SameDraft, Truth, Logged, Ended, Ending
    <3> QED
      BY <2>2, <3>2, <3>3 DEF EndInv, Gone, NoneBusy
  <2>4. CASE Writes(Main)
    <3>1. draft[Main].type = "session_end" /\ pc[Main] = "write" /\ pc'[Main] = "done"
      BY <1>1, <2>4 DEF Writes, Ended, Ending, After
    <3>2. Logged("session_end") = {} /\ ~ seen.after
      BY <2>1, <3>1
    <3>3. Logged("session_end")' = {draft[Main]} /\ log' = log \cup {draft[Main]}
      BY <2>4, <3>1, <3>2 DEF Writes, Line, Logged
    <3>4. ~ seen'.after
      BY <2>4, <3>2 DEF Writes, Logged
    <3>5. Logged("auth_attempt")' = Logged("auth_attempt") /\ Logged("command")' = Logged("command")
      BY <3>1, <3>3 DEF Logged
    <3>6. ~ seen.late => Truth(draft[Main])'
      BY <2>1, <2>4, <3>1, <3>5 DEF Writes, Truth, Ending
    <3>7. ~ Ending' /\ draft' = draft
      BY <2>4, <3>1 DEF Writes, Ending
    <3> QED
      BY <2>2, <3>1, <3>3, <3>4, <3>6, <3>7 DEF EndInv, Gone, NoneBusy
  <2>5. CASE MainStays /\ ~ Writes(Main)
    <3>1. /\ Logged("session_end")' = Logged("session_end")
          /\ seen'.after => seen.after \/ Logged("session_end") # {}
      BY <1>0, <2>5, EndsLogged
    <3>2. Ending' <=> Ending
      BY <2>5 DEF MainStays, Ending
    <3>3. CASE seen.late
      BY <2>1, <2>2, <2>5, <3>1, <3>3 DEF EndInv, Gone, NoneBusy, MainStays
    <3>4. CASE ~ seen.late /\ ~ Numbers(Main)
      <4>1. log' = log /\ seen' = seen
        BY <2>2, <2>5, <3>4
      <4>2. \A e : Truth(e)' <=> Truth(e)
        BY <4>1 DEF Truth, Logged
      <4>3. Truth(draft[Main])' <=> Truth(draft[Main])
        BY <2>5, <4>1 DEF Truth, Logged, MainStays
      <4> QED
        BY <2>1, <2>2, <2>5, <3>1, <3>2, <3>4, <4>1, <4>2, <4>3
           DEF EndInv, Gone, NoneBusy, MainStays
    <3> QED
      BY <2>3, <3>3, <3>4
  <2> QED
    BY <2>2, <2>3, <2>4, <2>5
<1>2. CASE ~ Ended
  <2>1. Logged("session_end") = {} /\ ~ seen.after
    BY <1>2 DEF EndInv, Ended
  <2>2. Logged("session_end")' = {} /\ ~ seen'.after
    BY <1>0, <1>2, <2>1, EndsLogged DEF Writes, Ended, Ending
  <2>3. CASE ~ Ended'
    BY <2>2, <2>3 DEF EndInv, Ended
  <2>4. CASE Ended'
    <3>1. LogSessionEnd
      BY <1>2, <2>4, BeforeEnd
    <3>2. Gone'
      BY <3>1 DEF LogSessionEnd, Gone
    <3>3. ~ seen'.late => NoneBusy
      BY <3>1, SessionEndForm DEF NoneBusy
    <3>4. NoneBusy => NoneBusy'
      BY <3>1, SessionEndForm DEF NoneBusy, Busy, Begins, Others, LogSessionEnd
    <3>5. NoneBusy => Truth(draft[Main])'
      BY <3>1, TruthAtEnd
    <3> QED
      BY <2>2, <3>2, <3>3, <3>4, <3>5 DEF EndInv, Gone, NoneBusy
  <2> QED
    BY <2>3, <2>4
<1> QED
  BY <1>1, <1>2

-----------------------------------------------------------------------------
(* The theorems.                                                           *)

LEMMA InitIInv == Init => IInv
<1> SUFFICES ASSUME Init PROVE IInv
  OBVIOUS
<1> USE ThreadFacts
<1>0. TypeInv
  BY InitTypes
<1>1. /\ log = {} /\ pc[Main] = "start" /\ \A t \in Threads \ {Main} : pc[t] = "new"
      /\ \A t \in Threads : pc[t] \in {"start", "new"}
  BY DEF Init
<1>2. /\ session.sid = "own" /\ session.seq = 0 /\ session.commands = 0 /\ session.attempts = 0
      /\ session.ok = FALSE /\ session.label = None
      /\ seen.answered = {} /\ seen.named = {} /\ seen.after = FALSE
      /\ seen.crossed = {} /\ seen.foreign = {}
  BY DEF Init
<1>3. OpInv
  BY <1>1, <1>2 DEF OpInv, OwnOp, Making
<1>4. Numbered = {} /\ Drawn = {} /\ Storing = {} /\ \A type : Logged(type) = {}
  BY <1>1 DEF Numbered, Drawn, Storing, Logged
<1>5. IsFiniteSet({}) /\ Cardinality({}) = 0
  BY FS_EmptySet
<1>6. FiniteInv
  BY <1>1, <1>4, <1>5 DEF FiniteInv
<1>7. SeqInv
  <2>1. LastSeq = 0
    BY <1>1, <1>2 DEF LastSeq, Replacing
  <2>2. 1..0 = {}
    OBVIOUS
  <2>3. {e.seq : e \in Numbered} \cup {draft[t].seq : t \in Drawn} = {}
    BY <1>4
  <2> QED
    BY <1>4, <1>5, <2>1, <2>2, <2>3 DEF SeqInv
<1>8. LabelInv
  BY <1>1, <1>2 DEF LabelInv, Commanding
<1>9. CountInv
  <2>1. ~ Attempting
    BY <1>1 DEF Attempting
  <2>2. Cardinality(Logged("auth_attempt")) = 0 /\ Cardinality(Logged("command")) = 0
        /\ Cardinality(Storing) = 0
    BY <1>4, <1>5
  <2>3. ~ \E a \in Logged("auth_attempt") : a.ok
    BY <1>4
  <2> QED
    BY <1>1, <1>2, <2>1, <2>2, <2>3 DEF CountInv
<1>10. EndInv
  BY <1>1, <1>2, <1>4 DEF EndInv, Ended, Ending
<1>11. SidInv /\ CrossInv
  BY <1>1, <1>2 DEF SidInv, CrossInv
<1>12. AuthInv
  <2>1. \A c \in Channels : ~ open[c] /\ pc[c] = "new"
    BY <1>1 DEF Init
  <2> QED
    BY <1>1, <2>1 DEF AuthInv, Trying, Attempting
<1> QED
  BY <1>0, <1>3, <1>6, <1>7, <1>8, <1>9, <1>10, <1>11, <1>12 DEF IInv

LEMMA Inductive == IInv /\ [Next]_vars => IInv'
<1> SUFFICES ASSUME IInv, [Next]_vars PROVE IInv'
  OBVIOUS
<1>1. TypeInv' /\ Forms
  BY TypesKept, NextForm DEF IInv
<1>2. OpInv' /\ FiniteInv'
  BY <1>1, OpsKept, FiniteKept DEF IInv
<1>3. SeqInv' /\ SidInv' /\ AuthInv' /\ CrossInv'
  BY <1>1, SeqsKept, SidsKept, AuthsKept, CrossKept DEF IInv
<1>4. ~ seen'.together => LabelInv'
  BY <1>1, LabelsKept DEF IInv
<1>5. CountInv'
  <2>1. AttemptsInv'
    BY <1>1, AttemptsKept, CountParts DEF IInv
  <2>2. ~ seen'.together => CommandsInv'
    BY <1>1, CommandsKept, CountParts DEF IInv
  <2> QED
    BY <2>1, <2>2 DEF CountInv, AttemptsInv, CommandsInv
<1>6. EndInv'
  BY <1>1, EndKept DEF IInv
<1> QED
  BY <1>1, <1>2, <1>3, <1>4, <1>5, <1>6 DEF IInv

LEMMA Invariant == Spec => []IInv
BY InitIInv, Inductive, PTL DEF Spec

\* Every variable keeps its type: in particular the main thread serves a channel exactly
\* while it waits for one to be closed.
THEOREM TypeCorrect == Spec => []TypeOK
<1>1. IInv => TypeOK
  BY DEF IInv, TypeInv
<1> QED
  BY <1>1, Invariant, PTL

\* The events of a session have the numbers up to _seq, each once, and its own id, but for
\* what the main thread numbers or names while check_auth_password replaces the session.
THEOREM SeqsAreComplete == Spec => []SeqsComplete
<1>1. IInv => SeqsComplete
  BY DEF IInv, SeqInv, SidInv, CrossInv, SeqsComplete, Numbered, Drawn, LastSeq
<1> QED
  BY <1>1, Invariant, PTL

\* session_end is last and tells the truth, answers are logged, and labels stay with the
\* commands whose handlers left them, with the exceptions that the property names.
THEOREM LogIsTruthful == Spec => []LogIsTrue
<1>1. IInv => EndIsFinal
  BY DEF IInv, EndInv, Truth, EndIsFinal
<1>2. IInv => AnswersLogged
  BY DEF IInv, OpInv, AnswersLogged
<1>3. IInv => OwnLabel
  BY DEF IInv, LabelInv, OwnLabel
<1>4. IInv => LogIsTrue
  BY <1>1, <1>2, <1>3 DEF LogIsTrue
<1> QED
  BY <1>4, Invariant, PTL
=============================================================================
