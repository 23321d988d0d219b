------------------------------ MODULE EventLog ------------------------------
(***************************************************************************)
(* logging_pipeline/local_log_utils.py write_local_event: the threads of   *)
(* the honeypot append their events to one JSONL file per day.  No lock is *)
(* held.  The file is opened for appending, so each write() of the system  *)
(* goes to its end, but an event is one write() only when its line fits    *)
(* the buffers of Python's file object: of a longer one the text is        *)
(* written first and the newline at flush(), and the text itself may be    *)
(* written, or seen by a reader, in two parts.                             *)
(*                                                                         *)
(* A file is a sequence of pieces: an event's text, whole or in two parts, *)
(* and newlines.  IocWriter.tla reads the files.                           *)
(***************************************************************************)
EXTENDS Naturals, Sequences, FiniteSets

CONSTANTS
    Events,    \* the events the honeypot logs
    Large,     \* those whose line is longer than the buffer
    LastDay,   \* bound: days, one file each
    Newline

ASSUME ELAssumption ==
    /\ Large \subseteq Events
    /\ LastDay \in Nat \ {0}
    /\ Newline \notin [of : Events, part : {"whole", "first", "rest"}]

VARIABLES
    files,    \* files[d]: the content of the file of day d
    today,
    writing,  \* writing[e]: where the thread that logs e is
    path      \* path[e]: the day whose file it opened, 0 before

logVars == <<files, today, writing, path>>

Days == 1..LastDay
Piece == [of : Events, part : {"whole", "first", "rest"}] \cup {Newline}

Text(e, part) == [of |-> e, part |-> part]

LogInit ==
    /\ files = [d \in Days |-> <<>>]
    /\ today = 1
    /\ writing = [e \in Events |-> "new"]
    /\ path = [e \in Events |-> 0]

-----------------------------------------------------------------------------
Writes(e, from, to, pieces) ==
    /\ writing[e] = from
    /\ writing' = [writing EXCEPT ![e] = to]
    /\ files' = [files EXCEPT ![path[e]] = @ \o pieces]
    /\ UNCHANGED <<today, path>>

(* path.open("a"), with the name of the day. *)
OpenLog(e) ==
    /\ writing[e] = "new"
    /\ writing' = [writing EXCEPT ![e] = "open"]
    /\ path' = [path EXCEPT ![e] = today]
    /\ UNCHANGED <<files, today>>

(* A short event: f.write(text), f.write("\n"), f.flush() are one write(). *)
WriteLine(e) ==
    /\ e \notin Large
    /\ Writes(e, "open", "logged", <<Text(e, "whole"), Newline>>)

(* A long one: f.write(text), ... *)
WriteText(e) ==
    /\ e \in Large
    /\ \/ Writes(e, "open", "flush", <<Text(e, "whole")>>)
       \/ Writes(e, "open", "rest", <<Text(e, "first")>>)
       \/ Writes(e, "rest", "flush", <<Text(e, "rest")>>)

(* ... then the newline.  A write that raises is only warned about: that, and *)
(* the end of the honeypot, is a thread that takes no further step.          *)
FlushNewline(e) == Writes(e, "flush", "logged", <<Newline>>)

Midnight ==
    /\ today < LastDay
    /\ today' = today + 1
    /\ UNCHANGED <<files, writing, path>>

Log(e) == OpenLog(e) \/ WriteLine(e) \/ WriteText(e) \/ FlushNewline(e)

-----------------------------------------------------------------------------
(* Reading: what  for raw_line in f  returns next at position pos, and the *)
(* event that json.loads makes of it.                                      *)
LineEnd(d, pos) ==
    LET ends == {i \in (pos + 1)..Len(files[d]) : files[d][i] = Newline}
    IN  IF ends = {} THEN Len(files[d]) ELSE CHOOSE i \in ends : \A j \in ends : i <= j

Spells(line, e) ==
    \E t \in {<<Text(e, "whole")>>, <<Text(e, "first"), Text(e, "rest")>>} :
        line \in {t, Append(t, Newline)}

EventsOf(line) == {e \in Events : Spells(line, e)}

(* e's text stands in the file of day d at position i, on a line of its own. *)
OwnLine(e, d, i) ==
    /\ i + 1 <= Len(files[d])
    /\ files[d][i] = Text(e, "whole")
    /\ files[d][i + 1] = Newline
    /\ i > 1 => files[d][i - 1] = Newline

LogTypeOK ==
    /\ files \in [Days -> Seq(Piece)]
    /\ today \in Days
    /\ writing \in [Events -> {"new", "open", "rest", "flush", "logged"}]
    /\ path \in [Events -> Days \cup {0}]
    /\ \A e \in Events : writing[e] # "new" => path[e] \in Days
=============================================================================
