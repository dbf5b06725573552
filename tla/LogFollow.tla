----------------------------- MODULE LogFollow -----------------------------
(***************************************************************************)
(* The broker's event log (netbroker/logfile.go) and `jailoc logs -f`      *)
(* reading it (cmd/tail.go).  The broker appends events and moves a full   *)
(* log to path.1; the follower shares nothing with it but the two names in *)
(* the directory.                                                          *)
(*                                                                         *)
(* A file is a number in the order of creation, an event is the number of  *)
(* the Write that carries it and has the size 1.  A Write whose rotation   *)
(* fails loses its event.                                                  *)
(***************************************************************************)
EXTENDS Integers, Sequences

CONSTANTS
    MaxSize,    \* maxLogSize, in events
    MaxEvents   \* bound on the Writes of a behaviour

VARIABLES
    content,    \* content[i]: the events in file i
    path,       \* the file the log's name leads to, 0 when there is none
    old,        \* the file path.1 leads to
    event,      \* Writes begun
    wf,         \* logFile.f, 0 for nil
    wpc,        \* where Write is
    fpc,        \* where tailLog is
    f, offset,  \* follower.f and follower.offset
    printed,    \* what was printed
    passed      \* history: files the follower has left for a newer one

dir == <<content, path, old>>
writer == <<event, wf, wpc>>
reader == <<fpc, f, offset, printed, passed>>
vars == <<dir, writer, reader>>

Files == 1 .. Len(content)

Init ==
    /\ content = <<>> /\ path = 0 /\ old = 0
    /\ event = 0 /\ wf = 0 /\ wpc = "idle"
    /\ fpc = "old" /\ f = 0 /\ offset = 0 /\ printed = <<>> /\ passed = {}

------------------------------------------------------------------------------
(* logFile.Write and rotate, under logFile.mu. *)

Begin ==
    /\ wpc = "idle" /\ event < MaxEvents
    /\ event' = event + 1 /\ wpc' = IF wf = 0 THEN "open" ELSE "size"
    /\ UNCHANGED <<dir, wf, reader>>

\* open finds the file its name leads to, or makes one.
Open ==
    /\ wpc = "open" /\ wpc' = "size"
    /\ \/ path # 0 /\ wf' = path /\ UNCHANGED dir
       \/ /\ path = 0 /\ content' = Append(content, <<>>)
          /\ path' = Len(content') /\ wf' = path' /\ UNCHANGED old
    /\ UNCHANGED <<event, reader>>

\* A full log is closed to be rotated.
CheckSize ==
    /\ wpc = "size"
    /\ IF Len(content[wf]) > 0 /\ Len(content[wf]) + 1 > MaxSize
       THEN wf' = 0 /\ wpc' = "rename"
       ELSE wpc' = "append" /\ UNCHANGED wf
    /\ UNCHANGED <<dir, event, reader>>

Rename ==
    /\ wpc = "rename" /\ old' = path /\ path' = 0 /\ wpc' = "open"
    /\ UNCHANGED <<content, event, wf, reader>>

\* open, close or rename fails: this event is lost and the next Write opens the
\* log again.
Fail ==
    /\ wpc \in {"open", "rename"} /\ wpc' = "idle"
    /\ UNCHANGED <<dir, event, wf, reader>>

AppendEvent ==
    /\ wpc = "append" /\ content' = [content EXCEPT ![wf] = Append(@, event)]
    /\ wpc' = "idle"
    /\ UNCHANGED <<path, old, event, wf, reader>>

\* The broker ends; the next one opens the same name.
Close ==
    /\ wpc = "idle" /\ wf # 0 /\ wf' = 0
    /\ UNCHANGED <<dir, event, wpc, reader>>

------------------------------------------------------------------------------
(* tailLog of path.1 and path, with v.follow and every line wanted. *)

\* readLines: the lines after the offset, or all of a file shorter than that.
Lines(i, from) ==
    SubSeq(content[i], IF Len(content[i]) < from THEN 1 ELSE from + 1, Len(content[i]))

\* The first follower opens path.1 ...
OpenOld ==
    /\ fpc = "old" /\ f' = old
    /\ fpc' = IF old = 0 THEN "reopen" ELSE "readOld"
    /\ UNCHANGED <<dir, writer, offset, printed, passed>>

\* ... and reads it, before the second opens path.
ReadOld ==
    /\ fpc = "readOld" /\ printed' = printed \o Lines(f, 0)
    /\ f' = 0 /\ fpc' = "reopen"
    /\ UNCHANGED <<dir, writer, offset, passed>>

\* poll reads on in the open file.
Poll ==
    /\ fpc = "poll" /\ fpc' = "reopen"
    /\ \/ f = 0 /\ UNCHANGED <<printed, offset>>
       \/ f # 0 /\ printed' = printed \o Lines(f, offset) /\ offset' = Len(content[f])
    /\ UNCHANGED <<dir, writer, f, passed>>

\* Mistaken variant: the offset of the old file is kept for the new one.
ReopenKeepOffset ==
    /\ fpc = "reopen"
    /\ IF path \in {0, f}
       THEN fpc' = "poll" /\ UNCHANGED <<f, offset, passed>>
       ELSE /\ f' = path /\ fpc' = "poll"
            /\ passed' = passed \cup ({f} \ {0}) /\ UNCHANGED offset
    /\ UNCHANGED <<dir, writer, printed>>

\* It then opens the name, and goes over to another file.
Reopen ==
    /\ fpc = "reopen"
    /\ IF path \in {0, f}
       THEN fpc' = "poll" /\ UNCHANGED <<f, offset, passed>>
       ELSE /\ f' = path /\ offset' = 0 /\ fpc' = "first"
            /\ passed' = passed \cup ({f} \ {0})
    /\ UNCHANGED <<dir, writer, printed>>

\* The new file is read from the start.
ReadFirst ==
    /\ fpc = "first" /\ fpc' = "poll"
    /\ printed' = printed \o Lines(f, 0) /\ offset' = Len(content[f])
    /\ UNCHANGED <<dir, writer, f, passed>>

Next ==
    \/ Begin \/ Open \/ CheckSize \/ Rename \/ Fail \/ AppendEvent \/ Close
    \/ OpenOld \/ ReadOld \/ Poll \/ Reopen \/ ReadFirst

Spec == Init /\ [][Next]_vars

------------------------------------------------------------------------------
(* Properties. *)

\* Every variable has its type.
TypeOK ==
    /\ content \in Seq(Seq(1 .. MaxEvents)) /\ {path, old, wf, f} \subseteq {0} \cup Files
    /\ event \in 0 .. MaxEvents /\ wpc \in {"idle", "open", "size", "rename", "append"}
    /\ fpc \in {"old", "readOld", "poll", "reopen", "first"} /\ offset \in 0 .. MaxSize
    /\ printed \in Seq(1 .. MaxEvents) /\ passed \subseteq Files

\* The events in a file, or printed.
Events(s) == {s[a] : a \in DOMAIN s}

\* What the follower prints is in the order of the Writes, nothing is printed
\* twice, and of each file it printed a prefix: no event without those before
\* it, however rotations, failed rotations and restarts of the broker fall
\* between the steps of poll.
FollowerInOrder ==
    /\ \A a, b \in DOMAIN printed : a < b => printed[a] < printed[b]
    /\ \A i \in Files : \A k, j \in DOMAIN content[i] :
        k < j /\ content[i][j] \in Events(printed) => content[i][k] \in Events(printed)

\* "lines written just before the log is rotated are still read from the old
\* file before the new one is started": a file the follower has left was printed
\* to its end.
OldFileFinished == \A i \in passed : Events(content[i]) \subseteq Events(printed)
==============================================================================
