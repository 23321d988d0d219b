---------------------------- MODULE FakeFSProofs ----------------------------
(***************************************************************************)
(* What holds of the file system for any sessions, paths, files, commands  *)
(* and URLs.  The table changes in three ways only: not at all, by writing *)
(* a file, and by the insert of a mkdir.  Rows never go away, and what was *)
(* a directory, or was written over, stays one or the other: so what a     *)
(* session learned in an earlier transaction still holds in a later one.   *)
(***************************************************************************)
EXTENDS FakeFS, TLAPS

Places == {"idle", "fetch", "save", "fs", "parent", "insert", "save_copy", "llm"}
CommandType == [op : Ops, todo : Seq(Paths), url : Urls \cup {NoUrl}, known : SUBSET Paths]

\* A directory, or a path that was written over.
Settled(p) == IsDir(p) \/ p \in put

(* What a handler knows of its command where it is. *)
CommandOK(s) ==
    /\ pc[s] = "idle" => cmd[s] = NoCommand
    /\ pc[s] \in {"fetch", "save", "save_copy"} => cmd[s].op = "download"
    /\ pc[s] \in {"parent", "insert"} => cmd[s].op = "mkdir"
    /\ cmd[s].op = "mkdir" => cmd[s].todo # <<>>
    /\ cmd[s].op = "download" => Saved(s, cmd[s].url) \in Paths /\ Fetched(cmd[s].url) \in Paths

(* The parent was asked for, and has not been lost since. *)
ParentSeen(s) == pc[s] = "insert" => Settled(Parent(Target(s)))

(* Why the file system gives up on a command about paths it has. *)
GivenUp(s) == cmd[s].op = "grep" \/ (cmd[s].op = "stat" /\ cmd[s].known \subseteq epoch)

(* What the tree knew when the command was typed is still there. *)
KnownPresent(s) ==
    cmd[s].known # {} =>
        \/ /\ pc[s] = "fs"
           /\ cmd[s].op \in {"ls", "cd", "read", "stat", "search", "grep", "mkdir"}
           /\ \A i \in DOMAIN cmd[s].todo : Present(cmd[s].todo[i])
           /\ cmd[s].op = "stat" => cmd[s].todo # <<>> /\ cmd[s].known = {Target(s)}
        \/ pc[s] = "llm" /\ GivenUp(s)

SessionOK(s) == CommandOK(s) /\ ParentSeen(s) /\ KnownPresent(s) /\ Settled(cwd[s])

TreeInv == Present(Root) /\ NoStrays /\ MkdirOnce

IInv == TypeOK /\ TreeInv /\ \A s \in Sessions : SessionOK(s)

-----------------------------------------------------------------------------
(* The paths of the parents. *)

LEMMA ParentInPaths == \A p \in Paths : Parent(p) \in Paths
  BY FSAssumption

LEMMA TargetInPaths ==
  ASSUME TypeOK, NEW s \in Sessions, cmd[s].todo # <<>>
  PROVE  /\ Target(s) \in Paths
         /\ Tail(cmd[s].todo) \in Seq(Paths)
         /\ Target(s) = cmd[s].todo[1] /\ 1 \in DOMAIN cmd[s].todo
  <1>1. cmd[s] \in CommandType
    BY DEF TypeOK, CommandType
  <1>2. cmd[s].todo \in Seq(Paths)
    BY <1>1 DEF CommandType
  <1> QED
    BY <1>2 DEF Target

-----------------------------------------------------------------------------
(* The three things that happen to a session. *)

(* A reply: the session is idle. *)
LEMMA NoCommandTyped == NoCommand \in CommandType
  <1>1. <<>> \in Seq(Paths) /\ NoUrl \in Urls \cup {NoUrl} /\ "none" \in Ops
    BY DEF Ops
  <1> QED
    BY <1>1 DEF NoCommand, CommandType

LEMMA RepliesLocal ==
  ASSUME TypeOK, NEW s \in Sessions, NEW from, Replies(s, from)
  PROVE  /\ pc' \in [Sessions -> Places] /\ cmd' \in [Sessions -> CommandType]
         /\ pc[s] = from /\ pc'[s] = "idle" /\ cmd'[s] = NoCommand
         /\ \A t \in Sessions \ {s} : pc'[t] = pc[t] /\ cmd'[t] = cmd[t]
  <1>1. cmd \in [Sessions -> CommandType]
    BY DEF TypeOK, CommandType
  <1> QED
    BY <1>1, NoCommandTyped DEF Replies, Goes, TypeOK, Places

(* The next handler or the next step of a handler. *)
LEMMA NextHandlerLocal ==
  ASSUME TypeOK, NEW s \in Sessions, NEW from, NEW to \in Places, NextHandler(s, from, to)
  PROVE  /\ pc' \in [Sessions -> Places] /\ UNCHANGED cmd
         /\ pc[s] = from /\ pc'[s] = to
         /\ \A t \in Sessions \ {s} : pc'[t] = pc[t]
  BY DEF NextHandler, Goes, TypeOK, Places

-----------------------------------------------------------------------------
(* The tree. *)

(* What may happen to the table. *)
LEMMA TreeStep ==
  ASSUME IInv, [Next]_vars
  PROVE  \/ UNCHANGED tree
         \/ \E p \in Paths : PutFile(p)
         \/ \E s \in Sessions : MkdirInsert(s)
  <1>1. CASE UNCHANGED vars
    BY <1>1 DEF vars
  <1>2. ASSUME NEW s \in Sessions, Visitor(s)
        PROVE  UNCHANGED tree
    BY <1>2 DEF Visitor, Connect, Query, QueryUrl
  <1>3. ASSUME NEW s \in Sessions, Handlers(s), ~ MkdirInsert(s)
        PROVE  UNCHANGED tree \/ \E p \in Paths : PutFile(p)
    <2>1. CASE Fetch(s)
      BY <2>1 DEF Fetch, Goes, IInv, SessionOK, CommandOK
    <2>2. CASE Download(s)
      BY <2>2 DEF Download, Handles, IInv, SessionOK, CommandOK
    <2>3. CASE FetchFails(s) \/ SaveToHost(s) \/ SaveFails(s) \/ AnswerLocally(s) \/ ListDir(s)
      BY <2>3 DEF FetchFails, SaveToHost, SaveFails, AnswerLocally, ListDir
    <2>4. CASE ChangeDir(s) \/ SkipPath(s) \/ ReadPath(s) \/ ReadMissing(s) \/ EndOfPaths(s)
      BY <2>4 DEF ChangeDir, SkipPath, ReadPath, ReadMissing, EndOfPaths
    <2>5. CASE MkdirTarget(s) \/ MkdirParent(s) \/ IntegrityError(s) \/ StatPath(s) \/ StatRaises(s)
      BY <2>5 DEF MkdirTarget, MkdirParent, IntegrityError, StatPath, StatRaises
    <2>6. CASE SaveCopy(s) \/ CopyFails(s) \/ NotHandled(s) \/ LastHandler(s)
      BY <2>6 DEF SaveCopy, CopyFails, NotHandled, LastHandler
    <2> QED
      BY <1>3, <2>1, <2>2, <2>3, <2>4, <2>5, <2>6 DEF Handlers
  <1> QED
    BY <1>1, <1>2, <1>3 DEF Next

(* The table keeps its type and its rows, and its directories are left or  *)
(* written over.                                                           *)
LEMMA TreeGrows ==
  ASSUME IInv, [Next]_vars
  PROVE  /\ node' \in [Paths -> Kinds] /\ epoch' \subseteq Paths
         /\ put' \subseteq Paths /\ made' \in [Paths -> Nat]
         /\ \A p \in Paths : Present(p) => Present(p)'
         /\ \A p \in Paths : Settled(p) => Settled(p)'
         /\ epoch \subseteq epoch'
  <1>0. /\ node \in [Paths -> Kinds] /\ epoch \subseteq Paths
        /\ put \subseteq Paths /\ made \in [Paths -> Nat]
    BY DEF IInv, TypeOK
  <1>1. CASE UNCHANGED tree
    BY <1>0, <1>1 DEF tree, Present, Settled, IsDir
  <1>2. ASSUME NEW p \in Paths, PutFile(p)
        PROVE  /\ node' \in [Paths -> Kinds] /\ epoch' \subseteq Paths
               /\ put' \subseteq Paths /\ made' \in [Paths -> Nat]
               /\ \A q \in Paths : Present(q) => Present(q)'
               /\ \A q \in Paths : Settled(q) => Settled(q)'
               /\ epoch \subseteq epoch'
    BY <1>0, <1>2 DEF PutFile, Stamp, Kinds, Present, Settled, IsDir
  <1>3. ASSUME NEW s \in Sessions, MkdirInsert(s)
        PROVE  /\ node' \in [Paths -> Kinds] /\ epoch' \subseteq Paths
               /\ put' \subseteq Paths /\ made' \in [Paths -> Nat]
               /\ \A q \in Paths : Present(q) => Present(q)'
               /\ \A q \in Paths : Settled(q) => Settled(q)'
               /\ epoch \subseteq epoch'
    <2>1. cmd[s].todo # <<>>
      BY <1>3 DEF MkdirInsert, IInv, TypeOK
    <2>2. Target(s) \in Paths
      BY <2>1, TargetInPaths DEF IInv
    <2> QED
      BY <1>0, <1>3, <2>2 DEF MkdirInsert, Stamp, Kinds, Present, Settled, IsDir
  <1> QED
    BY <1>1, <1>2, <1>3, TreeStep

(* Strays come from files that were written; a mkdir inserts into a        *)
(* directory it has seen, and only where nothing is.                       *)
LEMMA TreeInvStep ==
  ASSUME IInv, [Next]_vars
  PROVE  TreeInv'
  <1>0. node \in [Paths -> Kinds] /\ put \subseteq Paths /\ made \in [Paths -> Nat]
    BY DEF IInv, TypeOK
  <1>1. Present(Root)'
    BY TreeGrows, FSAssumption DEF IInv, TreeInv
  <1>2. NoStrays'
    <2>1. CASE UNCHANGED tree
      BY <2>1 DEF tree, IInv, TreeInv, NoStrays, Present, IsDir
    <2>2. ASSUME NEW p \in Paths, PutFile(p)
          PROVE  NoStrays'
      BY <1>0, <2>2, ParentInPaths DEF PutFile, IInv, TreeInv, NoStrays, Present, IsDir
    <2>3. ASSUME NEW s \in Sessions, MkdirInsert(s)
          PROVE  NoStrays'
      <3>1. cmd[s].todo # <<>> /\ pc[s] = "insert"
        BY <2>3 DEF MkdirInsert, IInv, TypeOK
      <3>2. Target(s) \in Paths
        BY <3>1, TargetInPaths DEF IInv
      <3>3. Settled(Parent(Target(s)))
        BY <3>1 DEF IInv, SessionOK, ParentSeen
      <3> QED
        BY <1>0, <2>3, <3>2, <3>3, ParentInPaths
        DEF MkdirInsert, IInv, TreeInv, NoStrays, Present, IsDir, Settled
    <2> QED
      BY <2>1, <2>2, <2>3, TreeStep
  <1>3. MkdirOnce'
    <2>1. CASE UNCHANGED tree
      BY <2>1 DEF tree, IInv, TreeInv, MkdirOnce, Present, IsDir
    <2>2. ASSUME NEW p \in Paths, PutFile(p)
          PROVE  MkdirOnce'
      BY <1>0, <2>2 DEF PutFile, IInv, TreeInv, MkdirOnce, Present, IsDir
    <2>3. ASSUME NEW s \in Sessions, MkdirInsert(s)
          PROVE  MkdirOnce'
      <3>1. cmd[s].todo # <<>>
        BY <2>3 DEF MkdirInsert, IInv, TypeOK
      <3>2. Target(s) \in Paths
        BY <3>1, TargetInPaths DEF IInv
      <3>3. made[Target(s)] = 0
        BY <1>0, <2>3, <3>2 DEF MkdirInsert, IInv, TreeInv, MkdirOnce, Present, IsDir
      <3> QED
        BY <1>0, <2>3, <3>2, <3>3 DEF MkdirInsert, IInv, TreeInv, MkdirOnce, Present, IsDir
    <2> QED
      BY <2>1, <2>2, <2>3, TreeStep
  <1> QED
    BY <1>1, <1>2, <1>3 DEF TreeInv
-----------------------------------------------------------------------------
(* The sessions.  After a step a session is one that stayed as it was, one *)
(* that got a reply, or one whose command moved on.                        *)

Typed ==
    /\ cwd \in [Sessions -> Paths] /\ pc \in [Sessions -> Places]
    /\ cmd \in [Sessions -> CommandType]

Stays(t) == pc'[t] = pc[t] /\ cmd'[t] = cmd[t] /\ cwd'[t] = cwd[t]

(* A session that another one's step leaves alone is as good as before:    *)
(* what it knows of the tree is not lost.                                  *)
LEMMA StaysOK ==
  ASSUME IInv, [Next]_vars, NEW t \in Sessions, Stays(t)
  PROVE  SessionOK(t)'
  <1>1. cmd[t] \in CommandType /\ cwd[t] \in Paths /\ cmd[t].todo \in Seq(Paths)
    BY DEF IInv, TypeOK, CommandType
  <1>2. CommandOK(t)'
    BY DEF IInv, SessionOK, CommandOK, Stays, Saved, Fetched
  <1>3. ParentSeen(t)'
    <2>1. SUFFICES ASSUME pc[t] = "insert"
                   PROVE  Settled(Parent(Target(t)))'
      BY DEF ParentSeen, Stays
    <2>2. cmd[t].todo # <<>> /\ Settled(Parent(Target(t)))
      BY <2>1 DEF IInv, SessionOK, CommandOK, ParentSeen
    <2>3. Parent(Target(t)) \in Paths
      BY <2>2, TargetInPaths, ParentInPaths DEF IInv
    <2>4. Target(t)' = Target(t)
      BY DEF Target, Stays
    <2>5. \A p \in Paths : Settled(p) => Settled(p)'
      BY TreeGrows
    <2> QED
      BY <2>2, <2>3, <2>4, <2>5 DEF Settled, IsDir
  <1>4. KnownPresent(t)'
    <2>1. \A i \in DOMAIN cmd[t].todo : cmd[t].todo[i] \in Paths
      BY <1>1
    <2>2. \A p \in Paths : Present(p) => Present(p)'
      BY TreeGrows
    <2>3. Target(t)' = Target(t) /\ (GivenUp(t) => GivenUp(t)')
      BY TreeGrows DEF Target, GivenUp, Stays
    <2> QED
      BY <2>1, <2>2, <2>3 DEF IInv, SessionOK, KnownPresent, Stays, Present
  <1>5. Settled(cwd[t])'
    BY <1>1, TreeGrows DEF IInv, SessionOK, Stays, Settled, IsDir
  <1> QED
    BY <1>2, <1>3, <1>4, <1>5 DEF SessionOK

(* A reply leaves the session idle. *)
LEMMA ReplyOK ==
  ASSUME IInv, [Next]_vars, NEW s \in Sessions, NEW from, Replies(s, from),
         cwd' \in [Sessions -> Paths], \A t \in Sessions \ {s} : cwd'[t] = cwd[t],
         Settled(cwd[s])'
  PROVE  Typed' /\ \A t \in Sessions : SessionOK(t)'
  <1>1. TypeOK
    BY DEF IInv
  <1>2. Typed'
    BY <1>1, RepliesLocal DEF Typed
  <1>3. ASSUME NEW t \in Sessions, t # s
        PROVE  SessionOK(t)'
    BY <1>1, <1>3, RepliesLocal, StaysOK DEF Stays
  <1>4. SessionOK(s)'
    <2>1. pc'[s] = "idle" /\ cmd'[s] = NoCommand /\ cmd'[s].op = "none" /\ cmd'[s].known = {}
      <3>1. pc'[s] = "idle" /\ cmd'[s] = NoCommand
        BY <1>1, RepliesLocal
      <3> QED
        BY <3>1 DEF NoCommand
    <2> QED
      BY <2>1 DEF SessionOK, CommandOK, ParentSeen, KnownPresent
  <1> QED
    BY <1>2, <1>3, <1>4

(* A command that moves on, with the same paths left.                      *)
LEMMA MoveOK ==
  ASSUME IInv, [Next]_vars, NEW s \in Sessions, NEW from, NEW to \in Places \ {"idle"},
         NextHandler(s, from, to), UNCHANGED cwd,
         cmd[s].known # {} => to = "llm" /\ GivenUp(s),
         from = "idle" => FALSE,
         to \in {"save", "save_copy"} => cmd[s].op = "download",
         to \in {"parent", "insert"} => cmd[s].op = "mkdir",
         to = "insert" => Settled(Parent(Target(s))),
         to # "fetch"
  PROVE  Typed' /\ \A t \in Sessions : SessionOK(t)'
  <1>1. TypeOK
    BY DEF IInv
  <1>2. pc' \in [Sessions -> Places] /\ UNCHANGED cmd /\ pc[s] = from /\ pc'[s] = to
    BY <1>1, NextHandlerLocal
  <1>3. Typed'
    BY <1>1, <1>2 DEF Typed, TypeOK, CommandType
  <1>4. ASSUME NEW t \in Sessions, t # s
        PROVE  SessionOK(t)'
    BY <1>1, <1>4, NextHandlerLocal, StaysOK DEF Stays
  <1>5. CommandOK(s)'
    BY <1>2 DEF IInv, SessionOK, CommandOK, Saved, Fetched
  <1>6. ParentSeen(s)'
    <2>1. SUFFICES ASSUME to = "insert"
                   PROVE  Settled(Parent(Target(s)))'
      BY <1>2 DEF ParentSeen
    <2>2. cmd[s].todo # <<>>
      BY <2>1 DEF IInv, SessionOK, CommandOK
    <2>3. Parent(Target(s)) \in Paths
      BY <2>2, TargetInPaths, ParentInPaths DEF IInv
    <2>4. Target(s)' = Target(s)
      BY <1>2 DEF Target
    <2>5. \A p \in Paths : Settled(p) => Settled(p)'
      BY TreeGrows
    <2> QED
      BY <2>1, <2>3, <2>4, <2>5 DEF Settled, IsDir
  <1>7. KnownPresent(s)'
    <2>1. GivenUp(s) => GivenUp(s)'
      BY <1>2, TreeGrows DEF GivenUp
    <2> QED
      BY <1>2, <2>1 DEF KnownPresent
  <1>8. Settled(cwd[s])'
    BY TreeGrows DEF IInv, TypeOK, SessionOK, Settled, IsDir
  <1> QED
    BY <1>3, <1>4, <1>5, <1>6, <1>7, <1>8 DEF SessionOK

(* A path that was visited is dropped; the rest is still known.            *)
LEMMA DropOK ==
  ASSUME IInv, [Next]_vars, NEW s \in Sessions, Handles(s, {"cd", "search", "read"}), cmd[s].todo # <<>>,
         cmd' = [cmd EXCEPT ![s].todo = Tail(@)], UNCHANGED <<tree, cwd, pc>>
  PROVE  Typed' /\ \A t \in Sessions : SessionOK(t)'
  <1>1. cmd \in [Sessions -> CommandType]
    BY DEF IInv, TypeOK, CommandType
  <1>2. cmd[s] \in CommandType /\ cmd[s].todo \in Seq(Paths) /\ Tail(cmd[s].todo) \in Seq(Paths)
    BY <1>1 DEF CommandType
  <1>3. cmd'[s] = [cmd[s] EXCEPT !.todo = Tail(cmd[s].todo)]
    BY <1>1
  <1>4. /\ cmd'[s].todo = Tail(cmd[s].todo) /\ cmd'[s].op = cmd[s].op
        /\ cmd'[s].url = cmd[s].url /\ cmd'[s].known = cmd[s].known
        /\ cmd'[s] \in CommandType
    BY <1>2, <1>3 DEF CommandType
  <1>5. cmd' \in [Sessions -> CommandType] /\ \A t \in Sessions \ {s} : cmd'[t] = cmd[t]
    BY <1>1, <1>4
  <1>6. Typed'
    BY <1>5 DEF IInv, Typed, TypeOK, Places
  <1>7. ASSUME NEW t \in Sessions, t # s
        PROVE  SessionOK(t)'
    BY <1>5, <1>7, StaysOK DEF Stays
  <1>8. SessionOK(s)'
    <2>1. \A i \in DOMAIN Tail(cmd[s].todo) :
              i + 1 \in DOMAIN cmd[s].todo /\ Tail(cmd[s].todo)[i] = cmd[s].todo[i + 1]
      BY <1>2
    <2>2. CommandOK(s)' /\ ParentSeen(s)'
      BY <1>4 DEF Handles, CommandOK, ParentSeen
    <2>3. KnownPresent(s)'
      BY <1>4, <2>1 DEF IInv, SessionOK, KnownPresent, GivenUp, Handles, Present, tree
    <2>4. Settled(cwd[s])'
      BY DEF IInv, SessionOK, Settled, IsDir, tree
    <2> QED
      BY <2>2, <2>3, <2>4 DEF SessionOK
  <1> QED
    BY <1>6, <1>7, <1>8

-----------------------------------------------------------------------------
(* The actions. *)

(* A visitor connects or types a command: what the command knows of the    *)
(* tree is so when it is typed.                                            *)
LEMMA VisitorOK ==
  ASSUME IInv, [Next]_vars, NEW s \in Sessions, Visitor(s)
  PROVE  Typed' /\ \A t \in Sessions : SessionOK(t)'
  <1>0. /\ cmd \in [Sessions -> CommandType] /\ pc \in [Sessions -> Places]
        /\ cwd \in [Sessions -> Paths]
    BY DEF IInv, TypeOK, CommandType, Places
  <1>1. NoCommand \in CommandType
    BY NoCommandTyped
  <1>2. CASE Connect(s)
    <2>1. Typed'
      BY <1>0, <1>1, <1>2, FSAssumption DEF Connect, Typed
    <2>2. Settled(Root)
      BY FSAssumption DEF IInv, TreeInv, NoStrays, Settled, Parent
    <2>3. SessionOK(s)'
      <3>1. pc[s] = "idle" /\ UNCHANGED <<tree, pc, cmd>> /\ cwd'[s] = Root
        BY <1>0, <1>2 DEF Connect
      <3>2. cmd[s] = NoCommand
        BY <3>1 DEF IInv, SessionOK, CommandOK
      <3>3. cmd[s].op = "none" /\ cmd[s].known = {}
        BY <3>2 DEF NoCommand
      <3>4. CommandOK(s)' /\ ParentSeen(s)' /\ KnownPresent(s)'
        BY <3>1, <3>2, <3>3 DEF CommandOK, ParentSeen, KnownPresent
      <3> QED
        BY <2>2, <3>1, <3>4 DEF SessionOK, Settled, IsDir, tree
    <2>4. ASSUME NEW t \in Sessions, t # s
          PROVE  SessionOK(t)'
      BY <1>0, <1>2, <2>4, StaysOK DEF Connect, Stays
    <2> QED
      BY <2>1, <2>3, <2>4
  <1>3. ASSUME NEW op \in Ops \ {"none", "download"}, NEW args, Query(s, op, args),
               \/ op \in {"fixed", "other"} /\ args = <<>>
               \/ /\ op \in {"cd", "read", "search", "grep", "ls", "mkdir", "stat"} /\ args \in Args
                  /\ op \in {"ls", "mkdir", "stat"} => Len(args) = 1
        PROVE  Typed' /\ \A t \in Sessions : SessionOK(t)'
    <2> DEFINE paths == [i \in DOMAIN args |-> Normalize(args[i], cwd[s])]
               known == IF \A i \in DOMAIN paths : Present(paths[i])
                        THEN {paths[i] : i \in DOMAIN paths} ELSE {}
               new == [op |-> op, todo |-> paths, url |-> NoUrl, known |-> known]
    <2>1. \E n \in Nat : DOMAIN args = 1 .. n /\ Len(args) = n
      <3>1. CASE args = <<>>
        BY <3>1
      <3>2. CASE args \in Args
        <4>1. args \in Seq([absolute : BOOLEAN, parts : Seq(Names \cup {Up})])
          BY <3>2, FSAssumption
        <4> QED
          BY <4>1
      <3> QED
        BY <1>3, <3>1, <3>2
    <2>2. \A i \in DOMAIN paths : paths[i] \in Paths
      BY <1>3 DEF Query
    <2>3. paths \in Seq(Paths) /\ DOMAIN paths = DOMAIN args
      BY <2>1, <2>2
    <2>4. op \in {"mkdir", "stat"} => paths # <<>> /\ DOMAIN paths = {1}
      <3>1. SUFFICES ASSUME op \in {"mkdir", "stat"} PROVE DOMAIN paths = {1}
        OBVIOUS
      <3>2. Len(args) = 1
        BY <1>3, <3>1
      <3> QED
        BY <2>1, <2>3, <3>2
    <2>5. cmd' = [cmd EXCEPT ![s] = new]
      BY <1>3 DEF Query
    <2>6. pc[s] = "idle" /\ pc' = [pc EXCEPT ![s] = "fs"] /\ UNCHANGED <<tree, cwd>>
      BY <1>3 DEF Query, Goes
    <2>7. known \in SUBSET Paths
      BY <2>2
    <2>8. new \in CommandType
      BY <2>3, <2>7 DEF CommandType
    <2> HIDE DEF known, paths
    <2>9. Typed'
      BY <1>0, <2>5, <2>6, <2>8 DEF Typed, Places
    <2>10. cmd'[s] = new /\ pc'[s] = "fs"
      BY <1>0, <2>5, <2>6
    <2>11. known # {} => op \in {"ls", "cd", "read", "stat", "search", "grep", "mkdir"}
      <3>1. args = <<>> => known = {}
        BY <2>3 DEF known
      <3> QED
        BY <1>3, <3>1
    <2>12. known # {} => /\ \A i \in DOMAIN paths : Present(paths[i])
                         /\ op = "stat" => paths # <<>> /\ known = {Head(paths)}
      BY <2>3, <2>4 DEF known
    <2>13. CommandOK(s)' /\ ParentSeen(s)'
      BY <1>3, <2>4, <2>10 DEF CommandOK, ParentSeen
    <2>14. KnownPresent(s)'
      BY <2>6, <2>10, <2>11, <2>12 DEF KnownPresent, Present, Target, tree
    <2>15. Settled(cwd[s])'
      BY <2>6 DEF IInv, SessionOK, Settled, IsDir, tree
    <2>16. ASSUME NEW t \in Sessions, t # s
           PROVE  SessionOK(t)'
      BY <1>0, <2>5, <2>6, <2>16, StaysOK DEF Stays
    <2> QED
      BY <2>9, <2>13, <2>14, <2>15, <2>16 DEF SessionOK
  <1>4. ASSUME NEW url \in Urls, QueryUrl(s, url)
        PROVE  Typed' /\ \A t \in Sessions : SessionOK(t)'
    <2> DEFINE new == [op |-> "download", todo |-> <<>>, url |-> url, known |-> {}]
    <2>1. new \in CommandType
      <3>1. <<>> \in Seq(Paths) /\ url \in Urls \cup {NoUrl} /\ "download" \in Ops
        BY DEF Ops
      <3> QED
        BY <3>1 DEF CommandType
    <2>2. /\ cmd' = [cmd EXCEPT ![s] = new]
          /\ UNCHANGED <<tree, cwd>>
      BY <1>4 DEF QueryUrl
    <2>3. \E to \in {"fetch", "fs"} : pc' = [pc EXCEPT ![s] = to]
      BY <1>4 DEF QueryUrl, Goes
    <2>4. Typed'
      BY <1>0, <2>1, <2>2, <2>3 DEF Typed, Places
    <2>5. cmd'[s] = new /\ pc'[s] \in {"fetch", "fs"}
      BY <1>0, <2>2, <2>3
    <2>6. cmd'[s].op = "download" /\ cmd'[s].url = url /\ cmd'[s].known = {}
      BY <2>5
    <2>7. Saved(s, url) \in Paths /\ Fetched(url) \in Paths
      BY <1>4 DEF QueryUrl
    <2>8. CommandOK(s)'
      BY <2>2, <2>5, <2>6, <2>7 DEF CommandOK, Saved, Fetched
    <2>9. ParentSeen(s)' /\ KnownPresent(s)'
      BY <2>5, <2>6 DEF ParentSeen, KnownPresent
    <2>10. Settled(cwd[s])'
      BY <2>2 DEF IInv, SessionOK, Settled, IsDir, tree
    <2>11. ASSUME NEW t \in Sessions, t # s
           PROVE  SessionOK(t)'
      BY <1>0, <2>2, <2>3, <2>11, StaysOK DEF Stays
    <2> QED
      BY <2>4, <2>8, <2>9, <2>10, <2>11 DEF SessionOK
  <1> QED
    BY <1>2, <1>3, <1>4 DEF Visitor, Ops

(* A handler does the next thing for a command. *)
LEMMA HandlersOK ==
  ASSUME IInv, [Next]_vars, NEW s \in Sessions, Handlers(s)
  PROVE  Typed' /\ \A t \in Sessions : SessionOK(t)'
  <1>1. SessionOK(s) /\ CommandOK(s) /\ KnownPresent(s) /\ ParentSeen(s)
    BY DEF IInv, SessionOK
  <1>2. cwd \in [Sessions -> Paths] /\ cmd[s].todo \in Seq(Paths)
    BY DEF IInv, TypeOK
  <1>3. cmd[s].known # {} => pc[s] \in {"fs", "llm"}
    BY <1>1 DEF KnownPresent
  <1>4. UNCHANGED cwd => cwd' \in [Sessions -> Paths] /\ Settled(cwd[s])'
    BY <1>1, <1>2, TreeGrows DEF SessionOK, Settled, IsDir
  <1>5. cmd[s].todo # <<>> => Target(s) = cmd[s].todo[1] /\ 1 \in DOMAIN cmd[s].todo
    BY <1>2, TargetInPaths DEF IInv
  <1>6. CASE Fetch(s)
    <2>1. NextHandler(s, "fetch", "save") /\ UNCHANGED cwd /\ pc[s] = "fetch"
      BY <1>6 DEF Fetch, NextHandler, Goes
    <2> QED
      BY <1>1, <1>3, <2>1, MoveOK DEF Places, CommandOK
  <1>7. CASE FetchFails(s)
    <2>1. pc[s] = "fetch" /\ NextHandler(s, "fetch", "fs") /\ UNCHANGED cwd
      BY <1>7 DEF FetchFails, NextHandler, Goes
    <2> QED
      BY <1>3, <2>1, MoveOK DEF Places
  <1>8. CASE SaveToHost(s)
    BY <1>3, <1>4, <1>8, ReplyOK DEF SaveToHost, Replies, Goes
  <1>9. CASE SaveFails(s)
    <2>1. pc[s] = "save" /\ NextHandler(s, "save", "fs") /\ UNCHANGED cwd
      BY <1>9 DEF SaveFails, NextHandler, Goes
    <2> QED
      BY <1>3, <2>1, MoveOK DEF Places
  <1>10. CASE AnswerLocally(s) \/ ListDir(s)
    BY <1>4, <1>10, ReplyOK DEF AnswerLocally, ListDir
  <1>11. CASE ChangeDir(s)
    <2>1. Target(s) \in Paths
      BY <1>11, TargetInPaths DEF ChangeDir, IInv
    <2>2. cwd' \in [Sessions -> Paths] /\ \A t \in Sessions \ {s} : cwd'[t] = cwd[t]
      BY <1>2, <1>11, <2>1 DEF ChangeDir
    <2>3. Settled(cwd[s])'
      BY <1>2, <1>11, <2>1 DEF ChangeDir, Settled, IsDir, tree
    <2> QED
      BY <1>11, <2>2, <2>3, ReplyOK DEF ChangeDir
  <1>12. CASE SkipPath(s)
    BY <1>12, DropOK DEF SkipPath, Handles
  <1>13. CASE ReadPath(s)
    BY <1>13, DropOK DEF ReadPath, Handles
  <1>14. CASE ReadMissing(s)
    <2>1. pc[s] = "fs" /\ cmd[s].known = {}
      BY <1>1, <1>5, <1>14 DEF ReadMissing, Handles, KnownPresent
    <2> QED
      BY <1>14, <2>1, MoveOK DEF ReadMissing, Places
  <1>15. CASE EndOfPaths(s)
    BY <1>4, <1>15, ReplyOK DEF EndOfPaths
  <1>16. CASE MkdirTarget(s)
    <2>1. cmd[s].op = "mkdir" /\ pc[s] = "fs" /\ cmd[s].todo # <<>>
      BY <1>1, <1>16 DEF MkdirTarget, Handles, CommandOK
    <2>2. CASE Present(Target(s)) /\ Replies(s, "fs")
      BY <1>4, <1>16, <2>2, ReplyOK DEF MkdirTarget
    <2>3. CASE ~Present(Target(s)) /\ NextHandler(s, "fs", "parent")
      <3>1. cmd[s].known = {}
        BY <1>1, <1>5, <2>1, <2>3 DEF KnownPresent
      <3> QED
        BY <1>16, <2>1, <2>3, <3>1, MoveOK DEF MkdirTarget, Places
    <2> QED
      BY <1>16, <2>2, <2>3 DEF MkdirTarget
  <1>17. CASE MkdirParent(s)
    <2>1. cmd[s].op = "mkdir" /\ cmd[s].known = {}
      BY <1>1, <1>3, <1>17 DEF MkdirParent, CommandOK
    <2>2. CASE ~IsDir(Parent(Target(s))) /\ Replies(s, "parent")
      BY <1>4, <1>17, <2>1, <2>2, ReplyOK DEF MkdirParent
    <2>3. CASE IsDir(Parent(Target(s))) /\ NextHandler(s, "parent", "insert")
      BY <1>17, <2>1, <2>3, MoveOK DEF MkdirParent, Places, Settled
    <2> QED
      BY <1>17, <2>2, <2>3 DEF MkdirParent
  <1>18. CASE MkdirInsert(s)
    BY <1>3, <1>4, <1>18, ReplyOK DEF MkdirInsert
  <1>19. CASE IntegrityError(s)
    BY <1>3, <1>19, MoveOK DEF IntegrityError, Places
  <1>20. CASE Download(s)
    <2>1. NextHandler(s, "fs", "save_copy") /\ UNCHANGED cwd /\ pc[s] = "fs" /\ cmd[s].op = "download"
      BY <1>20 DEF Download, Handles, NextHandler, Goes
    <2>2. cmd[s].known = {}
      BY <1>1, <2>1 DEF KnownPresent
    <2> QED
      BY <2>1, <2>2, MoveOK DEF Places
  <1>21. CASE SaveCopy(s)
    BY <1>3, <1>4, <1>21, ReplyOK DEF SaveCopy, Replies, Goes
  <1>22. CASE CopyFails(s)
    <2>1. pc[s] = "save_copy" /\ NextHandler(s, "save_copy", "llm") /\ UNCHANGED cwd
      BY <1>22 DEF CopyFails, NextHandler, Goes
    <2> QED
      BY <1>3, <2>1, MoveOK DEF Places
  <1>23. CASE NotHandled(s)
    <2>1. pc[s] = "fs" /\ (cmd[s].known # {} => GivenUp(s))
      BY <1>1, <1>23 DEF NotHandled, Handles, KnownPresent, GivenUp
    <2> QED
      BY <1>23, <2>1, MoveOK DEF NotHandled, Places
  <1>24. CASE LastHandler(s)
    BY <1>4, <1>24, ReplyOK DEF LastHandler
  <1>25. CASE StatPath(s)
    BY <1>4, <1>25, ReplyOK DEF StatPath
  <1>26. CASE StatRaises(s)
    <2>1. pc[s] = "fs" /\ (cmd[s].known # {} => GivenUp(s))
      BY <1>1, <1>26 DEF StatRaises, Handles, KnownPresent, GivenUp
    <2> QED
      BY <1>26, <2>1, MoveOK DEF StatRaises, Places
  <1> QED
    BY <1>6, <1>7, <1>8, <1>9, <1>10, <1>11, <1>12, <1>13, <1>14, <1>15, <1>16, <1>17, <1>18,
       <1>19, <1>20, <1>21, <1>22, <1>23, <1>24, <1>25, <1>26 DEF Handlers

-----------------------------------------------------------------------------
(* The inductive invariant. *)

(* Strays at the start are files of the profile. *)
LEMMA Start == Init => IInv
  <1> SUFFICES ASSUME Init PROVE IInv
    OBVIOUS
  <1>1. Seeded \in [Paths -> Kinds]
    BY FSAssumption DEF Seeded
  <1>2. Root \in Paths /\ Seeded[Root] = "dir" /\ Strays \subseteq Paths
    BY FSAssumption DEF Seeded, Strays, Kinds
  <1>3. NoCommand \in CommandType
    BY NoCommandTyped
  <1>4. TypeOK
    BY <1>1, <1>2, <1>3, FSAssumption DEF Init, TypeOK, CommandType
  <1>5. TreeInv
    BY <1>1, <1>2, ParentInPaths DEF Init, TreeInv, NoStrays, MkdirOnce, Present, IsDir, Strays
  <1>6. ASSUME NEW s \in Sessions
        PROVE  SessionOK(s)
    BY <1>2 DEF Init, SessionOK, CommandOK, ParentSeen, KnownPresent, Settled, IsDir, NoCommand
  <1> QED
    BY <1>4, <1>5, <1>6 DEF IInv

(* Every step keeps the invariant. *)
LEMMA Inductive == IInv /\ [Next]_vars => IInv'
  <1> SUFFICES ASSUME IInv, [Next]_vars PROVE IInv'
    OBVIOUS
  <1>1. TreeInv'
    BY TreeInvStep
  <1>2. Typed' /\ \A t \in Sessions : SessionOK(t)'
    <2>1. CASE UNCHANGED vars
      <3>1. Typed'
        BY <2>1 DEF vars, IInv, TypeOK, Typed, CommandType, Places
      <3>2. \A t \in Sessions : SessionOK(t)'
        BY <2>1, StaysOK DEF vars, Stays
      <3> QED
        BY <3>1, <3>2
    <2>2. CASE Next
      BY <2>2, VisitorOK, HandlersOK DEF Next
    <2> QED
      BY <2>1, <2>2
  <1>3. TypeOK'
    <2>1. /\ node' \in [Paths -> Kinds] /\ epoch' \subseteq Paths
          /\ put' \subseteq Paths /\ made' \in [Paths -> Nat]
      BY TreeGrows
    <2>2. \A s \in Sessions : pc'[s] \in {"parent", "insert"} =>
              cmd'[s].op = "mkdir" /\ cmd'[s].todo # <<>>
      BY <1>2 DEF SessionOK, CommandOK
    <2> QED
      BY <1>2, <2>1, <2>2 DEF TypeOK, Typed, CommandType, Places
  <1> QED
    BY <1>1, <1>2, <1>3 DEF IInv

(* The file system's state and the commands keep their types, and a mkdir  *)
(* has the path it works on (FakeFS.TypeOK).                               *)
THEOREM TypeCorrect == Spec => []TypeOK
  <1>1. IInv => TypeOK
    BY DEF IInv
  <1> QED
    BY Start, Inductive, <1>1, PTL DEF Spec

(* However the commands of any number of sessions interleave, only the     *)
(* writes that do not ask for the parent leave a node outside a directory  *)
(* or a session in a place that is none (FakeFS.TreeSound).                *)
THEOREM TreeStaysSound == Spec => []TreeSound
  <1>1. IInv => TreeSound
    BY DEF IInv, TreeInv, SessionOK, TreeSound, CwdIsDir, Settled
  <1> QED
    BY Start, Inductive, <1>1, PTL DEF Spec

(* Racing mkdirs of a path: one success at most, and it is there           *)
(* (FakeFS.MkdirOnce).                                                     *)
THEOREM MkdirSucceedsOnce == Spec => []MkdirOnce
  <1>1. IInv => MkdirOnce
    BY DEF IInv, TreeInv
  <1> QED
    BY Start, Inductive, <1>1, PTL DEF Spec

(* A command about paths that the tree has is sent to the LLM only if it   *)
(* is a grep without -r, or a stat and the date is a number: nothing       *)
(* another session does takes a row away (FakeFS.KnownAnsweredLocally).    *)
THEOREM KnownRarelyAsked == Spec => []KnownAnsweredLocally
  <1>1. IInv => KnownAnsweredLocally
    BY DEF IInv, SessionOK, KnownPresent, GivenUp, KnownAnsweredLocally
  <1> QED
    BY Start, Inductive, <1>1, PTL DEF Spec
=============================================================================
