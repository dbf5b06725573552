------------------------------ MODULE ProcWatch ------------------------------
(***************************************************************************)
(* The two goroutines of jailoc-guest that follow processes through the    *)
(* kernel's proc connector: the OOM guard (guest/oom_linux.go, oom.go) and *)
(* the exec log (guest/execlog_linux.go).  Each has a socket of its own,   *)
(* so one of them is followed at a time.                                   *)
(*                                                                         *)
(* Process 1 is a session holder.  Others are forked, run programs, start  *)
(* threads and exit; a process ID is used once.  The kernel queues an      *)
(* event for each step.  When the queue is full it drops events until the  *)
(* queue is empty again, and reports ENOBUFS once, at the next receive.    *)
(***************************************************************************)
EXTENDS Integers, Sequences, SequencesExt, FiniteSets

CONSTANTS
    MaxPid,   \* processes ever started, the holder included
    Cap       \* events the socket's buffer holds

Pid == 1 .. MaxPid
Holder == 1

VARIABLES
    watcher,    \* "guard" or "log"
    proc,       \* the processes: see Process
    queue,      \* events to receive
    congested,  \* the kernel drops events
    enobufs,    \* the next receive reports ENOBUFS
    agents,     \* oomGuard.agents
    tracked,    \* execTracker: live threads by process
    logged,     \* history: the processes whose exit was logged, with what was logged
    missed,     \* history: processes of which an event was dropped
    spoiled     \* history: processes of which one was dropped that ENOBUFS does not cover

kernel == <<proc, queue, congested, enobufs, missed, spoiled>>
vars == <<watcher, kernel, agents, tracked, logged>>

\* state: "free", "forked" (still the parent's program), "program", "dead".
\* adj: oom_score_adj.  threads: live threads, ended: the last that exited.
Process == [
    state : {"free", "forked", "program", "dead"}, parent : 0 .. MaxPid, adj : {"guest", "agent", "child"},
    threads : 0 .. 2, ended : {"none", "leader", "thread"}]
Free == [state |-> "free", parent |-> 0, adj |-> "child", threads |-> 0, ended |-> "none"]

Live(p) == proc[p].state \in {"forked", "program"}

Init ==
    /\ watcher \in {"guard", "log"}
    /\ proc = [p \in Pid |-> IF p = Holder THEN [Free EXCEPT !.state = "program", !.adj = "guest", !.threads = 1] ELSE Free]
    /\ queue = <<>> /\ congested = "no" /\ enobufs = "no"
    /\ agents = {} /\ tracked = <<>> /\ logged = {} /\ missed = {} /\ spoiled = {}

------------------------------------------------------------------------------
(* The kernel. *)

Event(what, pid, tgid, child) == [what |-> what, pid |-> pid, tgid |-> tgid, child |-> child]

\* The process an event is about.
About(ev) == IF ev.what = "fork" THEN ev.child ELSE ev.tgid

Emit(ev) ==
    LET drop == congested = "yes" \/ Len(queue) = Cap
        unread == \E k \in DOMAIN queue : About(queue[k]) = About(ev)
    IN  /\ queue' = IF drop THEN queue ELSE Append(queue, ev)
        /\ congested' = IF drop THEN "yes" ELSE "no"
        /\ enobufs' = IF drop /\ congested = "no" THEN "yes" ELSE enobufs
        /\ missed' = IF drop THEN missed \cup {About(ev)} ELSE missed
        /\ spoiled' = IF drop /\ (unread \/ (congested = "yes" /\ enobufs = "no"))
                      THEN spoiled \cup {About(ev)} ELSE spoiled
        /\ UNCHANGED <<watcher, agents, tracked, logged>>

Fork(p) ==
    \E c \in Pid :
        /\ Live(p) /\ proc[c].state = "free" /\ \A d \in Pid : d < c => proc[d].state # "free"
        /\ p = Holder \/ proc[p].state = "program"
        /\ watcher = "log" => p = Holder /\ c < MaxPid   \* who forked whom does not matter to the log
        /\ proc' = [proc EXCEPT ![c] = [state |-> "forked", parent |-> p, adj |-> proc[p].adj, threads |-> 1, ended |-> "none"]]
        /\ Emit(Event("fork", p, p, c))

Exec(p) ==
    /\ Live(p) /\ p # Holder
    /\ proc[p].state = "forked" \/ (watcher = "log" /\ proc[p].threads = 1 /\ proc[p].ended = "none")
    /\ proc' = [proc EXCEPT ![p].state = "program"]
    /\ Emit(Event("exec", p, p, p))

\* A thread is an event of its process with another thread's ID, here 0.
Thread(p) ==
    /\ watcher = "log" /\ Live(p) /\ p # Holder /\ proc[p].state = "program"
    /\ proc[p].threads = 1 /\ proc[p].ended = "none"
    /\ proc' = [proc EXCEPT ![p].threads = 2]
    /\ Emit(Event("thread", 0, p, p))

\* The leader or the other thread exits; the children of a process that is gone
\* are init's.
Exit(p) ==
    \E who \in {"leader", "thread"} :
        /\ Live(p) /\ p # Holder /\ proc[p].ended # who
        /\ who = "thread" => proc[p].threads = 2 \/ proc[p].ended = "leader"
        /\ proc' = [q \in Pid |->
            IF q = p THEN [proc[p] EXCEPT !.threads = @ - 1, !.ended = who, !.state = IF proc[p].threads = 1 THEN "dead" ELSE @]
            ELSE IF proc[q].parent = p /\ proc[p].threads = 1 THEN [proc[q] EXCEPT !.parent = 0] ELSE proc[q]]
        /\ Emit(Event("exit", IF who = "leader" THEN p ELSE 0, p, p))

------------------------------------------------------------------------------
(* The OOM guard. *)

\* classify, from /proc as it is when the event is handled.  What a holder forked
\* is still its program until it execs.
Classify(p) ==
    IF p = Holder \/ (proc[p].state = "forked" /\ proc[p].parent = Holder) THEN "guest"
    ELSE IF proc[p].parent = Holder THEN "agent" ELSE "other"

\* Mistaken variant: a session program keeps the score it was forked with.
HandleKnown(ev) ==
    CASE ev.what = "exec" /\ Live(ev.tgid) /\ Classify(ev.tgid) = "guest" ->
            proc' = [proc EXCEPT ![ev.tgid].adj = "guest"] /\ UNCHANGED agents
      [] ev.what = "exec" /\ Live(ev.tgid) /\ Classify(ev.tgid) = "agent" ->
            /\ agents' = agents \cup {ev.tgid}
            /\ UNCHANGED proc
      [] ev.what = "fork" /\ ev.tgid \in agents ->
            /\ proc' = IF Live(ev.child) THEN [proc EXCEPT ![ev.child].adj = "child"] ELSE proc
            /\ UNCHANGED agents
      [] ev.what = "exit" /\ ev.pid = ev.tgid -> agents' = agents \ {ev.tgid} /\ UNCHANGED proc
      [] OTHER -> UNCHANGED <<proc, agents>>

\* handle.
Handle(ev) ==
    CASE ev.what = "exec" /\ Live(ev.tgid) /\ Classify(ev.tgid) = "guest" ->
            proc' = [proc EXCEPT ![ev.tgid].adj = "guest"] /\ UNCHANGED agents
      [] ev.what = "exec" /\ Live(ev.tgid) /\ Classify(ev.tgid) = "agent" ->
            /\ agents' = agents \cup {ev.tgid}
            /\ proc' = [proc EXCEPT ![ev.tgid].adj = "agent"]
      [] ev.what = "fork" /\ ev.tgid \in agents ->
            /\ proc' = IF Live(ev.child) THEN [proc EXCEPT ![ev.child].adj = "child"] ELSE proc
            /\ UNCHANGED agents
      [] ev.what = "exit" /\ ev.pid = ev.tgid -> agents' = agents \ {ev.tgid} /\ UNCHANGED proc
      [] OTHER -> UNCHANGED <<proc, agents>>

RECURSIVE Descends(_, _)
Descends(p, S) == p > 0 /\ (proc[p].parent \in S \/ Descends(proc[p].parent, S))

\* rescan and rescanPlan, in one step.
Rescan ==
    /\ agents' = {p \in Pid : Live(p) /\ Classify(p) = "agent"}
    /\ proc' = [p \in Pid |->
        CASE ~Live(p) -> proc[p]
          [] Live(p) /\ Classify(p) = "guest" -> [proc[p] EXCEPT !.adj = "guest"]
          [] p \in agents' -> [proc[p] EXCEPT !.adj = "agent"]
          [] Live(p) /\ Classify(p) = "other" /\ proc[p].adj = "agent" /\ Descends(p, agents') -> [proc[p] EXCEPT !.adj = "child"]
          [] OTHER -> proc[p]]

------------------------------------------------------------------------------
(* The exec log. *)

Track(p, n) == [q \in DOMAIN tracked \cup {p} |-> IF q = p THEN n ELSE tracked[q]]
Untrack(p) == [q \in DOMAIN tracked \ {p} |-> tracked[q]]

\* Mistaken variant: the process ends with its leader.
RecordLeader(ev) ==
    CASE ev.what = "exec" -> tracked' = Track(ev.tgid, 1) /\ UNCHANGED logged
      [] ev.what = "exit" /\ ev.tgid \in DOMAIN tracked /\ ev.pid = ev.tgid ->
            tracked' = Untrack(ev.tgid) /\ logged' = logged \cup {[pid |-> ev.tgid, status |-> "leader"]}
      [] OTHER -> UNCHANGED <<tracked, logged>>

\* exec, fork and exit of the tracker, with the record each writes.
Record(ev) ==
    CASE ev.what = "exec" -> tracked' = Track(ev.tgid, 1) /\ UNCHANGED logged
      [] ev.what = "thread" /\ ev.tgid \in DOMAIN tracked -> tracked' = Track(ev.tgid, tracked[ev.tgid] + 1) /\ UNCHANGED logged
      [] ev.what = "exit" /\ ev.tgid \in DOMAIN tracked ->
            IF tracked[ev.tgid] > 1 THEN tracked' = Track(ev.tgid, tracked[ev.tgid] - 1) /\ UNCHANGED logged
            ELSE /\ tracked' = Untrack(ev.tgid)
                 /\ logged' = logged \cup {[pid |-> ev.tgid, status |-> IF ev.pid = ev.tgid THEN "leader" ELSE "thread"]}
      [] OTHER -> UNCHANGED <<tracked, logged>>

------------------------------------------------------------------------------
(* The receive loops. *)

\* ENOBUFS: the guard reads /proc again, the log forgets every process (dropped).
Overrun ==
    /\ enobufs = "yes" /\ enobufs' = "no"
    /\ congested' = IF queue = <<>> THEN "no" ELSE congested
    /\ IF watcher = "guard" THEN Rescan /\ UNCHANGED tracked
       ELSE tracked' = <<>> /\ UNCHANGED <<proc, agents>>
    /\ UNCHANGED <<watcher, queue, missed, spoiled, logged>>

Receive ==
    /\ enobufs = "no" /\ queue # <<>>
    /\ queue' = Tail(queue) /\ congested' = IF queue' = <<>> THEN "no" ELSE congested
    /\ IF watcher = "guard" THEN Handle(Head(queue)) /\ UNCHANGED <<tracked, logged>>
       ELSE Record(Head(queue)) /\ UNCHANGED <<proc, agents>>
    /\ UNCHANGED <<watcher, enobufs, missed, spoiled>>

Next == Overrun \/ Receive \/ \E p \in Pid : Fork(p) \/ Exec(p) \/ Thread(p) \/ Exit(p)

Spec == Init /\ [][Next]_vars

------------------------------------------------------------------------------
(* Properties. *)

\* Every variable has its type.
TypeOK ==
    /\ watcher \in {"guard", "log"} /\ proc \in [Pid -> Process] /\ Len(queue) <= Cap
    /\ agents \subseteq Pid /\ DOMAIN tracked \subseteq Pid

\* Once the guard has caught up, the holder and every session program have the
\* scores that keep them from being killed first, even after events were dropped,
\* and a process a session program forked has the score that lets it be killed,
\* unless an event about it or the program was dropped.  A process that such a
\* process forked before the guard got to it is not covered.
ScoresSettle ==
    watcher = "guard" /\ queue = <<>> /\ enobufs = "no" =>
        /\ proc[Holder].adj = "guest"
        /\ \A p \in Pid : Live(p) /\ Classify(p) = "agent" /\ p \notin spoiled => p \in agents /\ proc[p].adj = "agent"
        /\ \A p \in Pid :
            Live(p) /\ proc[p].parent > 0 /\ p \notin missed => LET a == proc[p].parent IN
                Classify(a) = "agent" /\ a \notin missed => proc[p].adj = "child"

\* An exit in the exec log is that of a process all of whose threads are gone, with
\* the status of the last, however the threads' exits were ordered.  A process of
\* which an event was dropped is left out, but for what was still queued when
\* ENOBUFS was reported.
ExitsLoggedRight ==
    \A r \in logged : r.pid \notin spoiled => proc[r.pid].state = "dead" /\ proc[r.pid].ended = r.status
==============================================================================
