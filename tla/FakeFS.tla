------------------------------- MODULE FakeFS -------------------------------
(***************************************************************************)
(* The fake file system of an SSH honeypot: one SQLite table of nodes that *)
(* all sessions share, the commands that read and change it, and the chain *)
(* of handlers that a command goes through: the file download handler, the *)
(* file system, the LLM handler.  A session runs one command at a time;    *)
(* every access to the table is a connection and transaction of its own,   *)
(* so that the commands of other sessions run between two accesses of one  *)
(* command.                                                                *)
(*                                                                         *)
(* A node is a row: a directory or a file at a normalized path, which is a *)
(* sequence of names.  Of its date only the type is kept: "stat" wants a   *)
(* text.  Contents, sizes, owners and the texts of the replies are left    *)
(* out, and so is a database that stays locked longer than SQLite waits.   *)
(***************************************************************************)
EXTENDS Integers, Sequences, SequencesExt, FiniteSets

CONSTANTS
    Sessions,
    Names,      \* the names of nodes
    Up,         \* ".."
    NoName,     \* the last segment of a URL that ends in "/"
    Paths,      \* bound: the paths commands may reach
    Tmp,        \* "/tmp"
    Tree,       \* Tree[p]: the kind of p in the jsonl.gz file
    Epochs,     \* the paths that have a number for a date in the file
    Profile,    \* Profile[p]: the kind of p in the default profile
    Args,       \* bound: the lists of paths, relative or absolute, a visitor types
    Urls        \* bound: the URLs a visitor downloads

Kinds == {"absent", "dir", "file"}
Root == <<>>

(* os.path.dirname of a normalized path: the root is its own parent. *)
Parent(p) == IF p = Root THEN Root ELSE SubSeq(p, 1, Len(p) - 1)

ASSUME FSAssumption ==
    /\ Paths \subseteq Seq(Names)
    /\ Root \in Paths /\ Tmp \in Paths
    /\ \A p \in Paths : Parent(p) \in Paths
    /\ Tree \in [Paths -> Kinds] /\ Profile \in [Paths -> Kinds]
    /\ Tree[Root] = "dir" /\ Profile[Root] # "file"
    /\ Epochs \subseteq {p \in Paths : Tree[p] # "absent"}
    /\ Args \subseteq Seq([absolute : BOOLEAN, parts : Seq(Names \cup {Up})]) \ {<<>>}
    /\ Urls \subseteq [scheme : BOOLEAN, base : Names, last : Names \cup {Up, NoName}]

VARIABLES
    node,   \* the table fs_nodes: node[p], the kind of p
    epoch,  \* the paths whose date is read as a number
    put,    \* history: the paths written without asking for the parent
    made,   \* made[p]: how many mkdirs of p answered that they succeeded
    cwd,    \* cwd[s]: session["cwd"]
    pc,     \* pc[s]: where the command of s is
    cmd     \* cmd[s]: the command, with the paths not visited yet

tree == <<node, epoch, put, made>>
vars == <<tree, cwd, pc, cmd>>

(* normalize_path: ".." leaves the last directory, and the root never. *)
Descend(path, part) == IF part = Up THEN Parent(path) ELSE Append(path, part)
Normalize(arg, dir) == FoldLeft(Descend, IF arg.absolute THEN Root ELSE dir, arg.parts)

Present(p) == node[p] # "absent"
IsDir(p) == node[p] = "dir"

NoUrl == [scheme |-> FALSE, base |-> NoName, last |-> NoName]
NoCommand == [op |-> "none", todo |-> <<>>, url |-> NoUrl, known |-> {}]

(* The profile is written over the rows of the file on every start, and    *)
(* nothing asks whether the directories of its files have a row.           *)
Seeded == [p \in Paths |-> IF Profile[p] # "absent" THEN Profile[p] ELSE Tree[p]]
Strays == {p \in Paths : Seeded[p] # "absent" /\ Seeded[Parent(p)] # "dir"}

Init ==
    /\ node = Seeded
    /\ epoch = {p \in Epochs : Profile[p] = "absent"}
    /\ put = Strays
    /\ made = [p \in Paths |-> 0]
    /\ cwd = [s \in Sessions |-> Root]
    /\ pc = [s \in Sessions |-> "idle"]
    /\ cmd = [s \in Sessions |-> NoCommand]

-----------------------------------------------------------------------------
(* Steps of a session. *)

Goes(s, from, to) == pc[s] = from /\ pc' = [pc EXCEPT ![s] = to]

(* mkdir and write_file store int(time.time()).  sqlite_utils has made a   *)
(* number column of the dates if those of the file are numbers (gen_fs.py) *)
(* and a text column if there are none, where a number becomes a text.     *)
Stamp(p) == epoch' = IF Epochs = {} THEN epoch ELSE epoch \cup {p}

(* write_file: INSERT OR REPLACE, whatever the row was and whatever the    *)
(* parent is.                                                              *)
PutFile(p) ==
    /\ node' = [node EXCEPT ![p] = "file"]
    /\ Stamp(p)
    /\ put' = put \cup {p}
    /\ UNCHANGED made

(* The reply of a handler goes back through the chain. *)
Replies(s, from) == Goes(s, from, "idle") /\ cmd' = [cmd EXCEPT ![s] = NoCommand]

(* A handler returned None or raised: the chain asks the next one. *)
NextHandler(s, from, to) == Goes(s, from, to) /\ UNCHANGED cmd

(* The file system has the command of s and op is one of ops. *)
Handles(s, ops) == pc[s] = "fs" /\ cmd[s].op \in ops
Target(s) == Head(cmd[s].todo)

(* A new connection takes the place of one that ended. *)
Connect(s) ==
    /\ pc[s] = "idle"
    /\ cwd' = [cwd EXCEPT ![s] = Root]
    /\ UNCHANGED <<tree, pc, cmd>>

(* The paths a command names are resolved against the session's directory; *)
(* known: the paths, if the tree has them all.                             *)
Query(s, op, args) ==
    LET paths == [i \in DOMAIN args |-> Normalize(args[i], cwd[s])]
    IN  /\ Goes(s, "idle", "fs")
        /\ \A i \in DOMAIN paths : paths[i] \in Paths
        /\ cmd' = [cmd EXCEPT ![s] =
                [op |-> op, todo |-> paths, url |-> NoUrl,
                 known |-> IF \A i \in DOMAIN paths : Present(paths[i])
                           THEN {paths[i] : i \in DOMAIN paths} ELSE {}]]
        /\ UNCHANGED <<tree, cwd>>

(* The download handler saves to /tmp, wherever the session is; the file   *)
(* system to the session's directory, under the last segment of the URL,   *)
(* which is the directory itself when that is empty.                       *)
Fetched(url) == Append(Tmp, url.base)
Saved(s, url) == IF url.last = NoName THEN cwd[s] ELSE Descend(cwd[s], url.last)

(* Only wget and curl with an http URL are for the download handler. *)
QueryUrl(s, url) ==
    /\ Saved(s, url) \in Paths /\ Fetched(url) \in Paths
    /\ Goes(s, "idle", IF url.scheme THEN "fetch" ELSE "fs")
    /\ cmd' = [cmd EXCEPT ![s] = [op |-> "download", todo |-> <<>>, url |-> url, known |-> {}]]
    /\ UNCHANGED <<tree, cwd>>

-----------------------------------------------------------------------------
(* FileDownloadHandler. *)

Fetch(s) ==
    /\ Goes(s, "fetch", "save")
    /\ PutFile(Fetched(cmd[s].url))
    /\ UNCHANGED <<cwd, cmd>>

FetchFails(s) == NextHandler(s, "fetch", "fs") /\ UNCHANGED <<tree, cwd>>

SaveToHost(s) == Replies(s, "save") /\ UNCHANGED <<tree, cwd>>

SaveFails(s) == NextHandler(s, "save", "fs") /\ UNCHANGED <<tree, cwd>>

-----------------------------------------------------------------------------
(* FakeFSDataHandler.  A fixed answer, a usage message, a listing.         *)

AnswerLocally(s) ==
    /\ Handles(s, {"fixed"})
    /\ Replies(s, "fs")
    /\ UNCHANGED <<tree, cwd>>

(* ls answers for a path without a row as well. *)
ListDir(s) ==
    /\ Handles(s, {"ls"})
    /\ Replies(s, "fs")
    /\ UNCHANGED <<tree, cwd>>

(* cd: the candidates between "||" are tried in turn. *)
ChangeDir(s) ==
    /\ Handles(s, {"cd"}) /\ cmd[s].todo # <<>>
    /\ IsDir(Target(s))
    /\ cwd' = [cwd EXCEPT ![s] = Target(s)]
    /\ Replies(s, "fs")
    /\ UNCHANGED tree

(* cd, grep -r: a path without a directory, or without a row, is skipped. *)
SkipPath(s) ==
    /\ Handles(s, {"cd", "search"}) /\ cmd[s].todo # <<>>
    /\ cmd[s].op = "cd" => ~IsDir(Target(s))
    /\ cmd' = [cmd EXCEPT ![s].todo = Tail(@)]
    /\ UNCHANGED <<tree, cwd, pc>>

(* cat visits its paths in turn; head, tail, file and find read only one.  *)
ReadPath(s) ==
    /\ Handles(s, {"read"}) /\ cmd[s].todo # <<>>
    /\ Present(Target(s))
    /\ cmd' = [cmd EXCEPT ![s].todo = Tail(@)]
    /\ UNCHANGED <<tree, cwd, pc>>

\* Mutant: a directory taken for missing.
ReadNoFile(s) ==
    /\ Handles(s, {"read"}) /\ cmd[s].todo # <<>>
    /\ node[Target(s)] # "file"
    /\ NextHandler(s, "fs", "llm")
    /\ UNCHANGED <<tree, cwd>>

(* A path without a row is left to the LLM, with the whole command. *)
ReadMissing(s) ==
    /\ Handles(s, {"read", "stat"}) /\ cmd[s].todo # <<>>
    /\ ~Present(Target(s))
    /\ NextHandler(s, "fs", "llm")
    /\ UNCHANGED <<tree, cwd>>

(* stat, of the last path it names. *)
StatPath(s) ==
    /\ Handles(s, {"stat"})
    /\ Present(Target(s)) /\ Target(s) \notin epoch
    /\ Replies(s, "fs")
    /\ UNCHANGED <<tree, cwd>>

(* modified.replace('T', ' '): AttributeError, as an int has no replace. *)
StatRaises(s) ==
    /\ Handles(s, {"stat"})
    /\ Present(Target(s)) /\ Target(s) \in epoch
    /\ NextHandler(s, "fs", "llm")
    /\ UNCHANGED <<tree, cwd>>

(* All paths visited: the output, or "no such file or directory" of cd. *)
EndOfPaths(s) ==
    /\ Handles(s, {"cd", "search", "read"}) /\ cmd[s].todo = <<>>
    /\ Replies(s, "fs")
    /\ UNCHANGED <<tree, cwd>>

\* Mutant: the path is dropped once it was asked for.
MkdirTargetDropped(s) ==
    /\ Handles(s, {"mkdir"})
    /\ \/ Present(Target(s)) /\ Replies(s, "fs")
       \/ /\ ~Present(Target(s))
          /\ Goes(s, "fs", "parent")
          /\ cmd' = [cmd EXCEPT ![s].todo = Tail(@)]
    /\ UNCHANGED <<tree, cwd>>

(* mkdir asks for the path, asks for the parent, and then inserts. *)
MkdirTarget(s) ==
    /\ Handles(s, {"mkdir"})
    /\ \/ Present(Target(s)) /\ Replies(s, "fs")
       \/ ~Present(Target(s)) /\ NextHandler(s, "fs", "parent")
    /\ UNCHANGED <<tree, cwd>>

\* Mutant: the parent is not asked for.
MkdirNoParent(s) ==
    /\ pc[s] = "parent"
    /\ NextHandler(s, "parent", "insert")
    /\ UNCHANGED <<tree, cwd>>

MkdirParent(s) ==
    /\ pc[s] = "parent"
    /\ \/ ~IsDir(Parent(Target(s))) /\ Replies(s, "parent")
       \/ IsDir(Parent(Target(s))) /\ NextHandler(s, "parent", "insert")
    /\ UNCHANGED <<tree, cwd>>

\* Mutant: a row that is there is replaced.
MkdirReplace(s) ==
    /\ pc[s] = "insert"
    /\ node' = [node EXCEPT ![Target(s)] = "dir"]
    /\ Stamp(Target(s))
    /\ made' = [made EXCEPT ![Target(s)] = @ + 1]
    /\ Replies(s, "insert")
    /\ UNCHANGED <<put, cwd>>

MkdirInsert(s) ==
    /\ pc[s] = "insert"
    /\ ~Present(Target(s))
    /\ node' = [node EXCEPT ![Target(s)] = "dir"]
    /\ Stamp(Target(s))
    /\ made' = [made EXCEPT ![Target(s)] = @ + 1]
    /\ Replies(s, "insert")
    /\ UNCHANGED <<put, cwd>>

(* INSERT without REPLACE: the key is taken by now. *)
IntegrityError(s) ==
    /\ pc[s] = "insert"
    /\ Present(Target(s))
    /\ NextHandler(s, "insert", "llm")
    /\ UNCHANGED <<tree, cwd>>

(* handle_download *)
Download(s) ==
    /\ Handles(s, {"download"})
    /\ Goes(s, "fs", "save_copy")
    /\ PutFile(Saved(s, cmd[s].url))
    /\ UNCHANGED <<cwd, cmd>>

(* Not for a name that opens a directory, nor for a URL without a host. *)
SaveCopy(s) ==
    /\ cmd[s].url.last \in Names /\ cmd[s].url.scheme
    /\ Replies(s, "save_copy")
    /\ UNCHANGED <<tree, cwd>>

CopyFails(s) == NextHandler(s, "save_copy", "llm") /\ UNCHANGED <<tree, cwd>>

(* Neither a fixed answer nor a command of the file system, or a grep      *)
(* without -r: _handle_grep has no answer to it.                           *)
NotHandled(s) ==
    /\ Handles(s, {"other", "grep"})
    /\ NextHandler(s, "fs", "llm")
    /\ UNCHANGED <<tree, cwd>>

(* The last handler answers (ResponseCache.tla) or raises: "not handled". *)
LastHandler(s) ==
    /\ Replies(s, "llm")
    /\ UNCHANGED <<tree, cwd>>

-----------------------------------------------------------------------------
Visitor(s) ==
    \/ Connect(s)
    \/ \E op \in {"fixed", "other"} : Query(s, op, <<>>)
    \/ \E op \in {"cd", "read", "search", "grep"}, args \in Args : Query(s, op, args)
    \/ \E op \in {"ls", "mkdir", "stat"}, args \in Args : Len(args) = 1 /\ Query(s, op, args)
    \/ \E url \in Urls : QueryUrl(s, url)

Handlers(s) ==
    \/ Fetch(s) \/ FetchFails(s) \/ SaveToHost(s) \/ SaveFails(s)
    \/ AnswerLocally(s) \/ ListDir(s) \/ ChangeDir(s) \/ SkipPath(s)
    \/ ReadPath(s) \/ ReadMissing(s) \/ StatPath(s) \/ StatRaises(s) \/ EndOfPaths(s)
    \/ MkdirTarget(s) \/ MkdirParent(s) \/ MkdirInsert(s) \/ IntegrityError(s)
    \/ Download(s) \/ SaveCopy(s) \/ CopyFails(s)
    \/ NotHandled(s) \/ LastHandler(s)

Next == \E s \in Sessions : Visitor(s) \/ Handlers(s)

Spec == Init /\ [][Next]_vars

-----------------------------------------------------------------------------
Ops == {"none", "fixed", "other", "ls", "cd", "read", "stat", "search", "grep", "mkdir", "download"}

(* The tree, the sessions and their commands are of their types; mkdir     *)
(* works on one path that can be reached (src/infra/fake_fs/commands.py).  *)
TypeOK ==
    /\ node \in [Paths -> Kinds]
    /\ epoch \subseteq Paths
    /\ put \subseteq Paths
    /\ made \in [Paths -> Nat]
    /\ cwd \in [Sessions -> Paths]
    /\ pc \in [Sessions -> {"idle", "fetch", "save", "fs", "parent", "insert", "save_copy", "llm"}]
    /\ cmd \in [Sessions -> [op : Ops, todo : Seq(Paths), url : Urls \cup {NoUrl},
                         known : SUBSET Paths]]
    /\ \A s \in Sessions : pc[s] \in {"parent", "insert"} =>
           cmd[s].op = "mkdir" /\ cmd[s].todo # <<>>

(* A node outside any directory was written by a download or the profile,  *)
(* or was cut off when one of them replaced its directory: commands of     *)
(* sessions that interleave never tear the tree.                           *)
NoStrays ==
    \A p \in Paths : Present(p) => IsDir(Parent(p)) \/ {p, Parent(p)} \cap put # {}

(* A session stands in a directory of the tree, unless a download has      *)
(* since put a file over it, in this session or in another one.            *)
CwdIsDir == \A s \in Sessions : IsDir(cwd[s]) \/ cwd[s] \in put

(* The tree stays a tree for those who walk it. *)
TreeSound == NoStrays /\ CwdIsDir

(* Of all the mkdirs of one path, by any sessions, at most one reports     *)
(* success, and what it reported is there: a directory, or the file that a *)
(* download put in its place.                                              *)
MkdirOnce ==
    \A p \in Paths :
        /\ made[p] <= 1
        /\ made[p] = 1 => IsDir(p) \/ (p \in put /\ Present(p))

(* A command about files and directories that the tree knew when it was    *)
(* typed never reaches the LLM, whatever other sessions do while it runs,  *)
(* but for two: a grep without -r, and the stat of a path whose date is a  *)
(* number.                                                                 *)
KnownAnsweredLocally ==
    \A s \in Sessions : cmd[s].known # {} /\ pc[s] = "llm" =>
        \/ cmd[s].op = "grep"
        \/ cmd[s].op = "stat" /\ cmd[s].known \subseteq epoch
=============================================================================
