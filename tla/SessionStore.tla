---------------------------- MODULE SessionStore ----------------------------
(***************************************************************************)
(* The session directory of a guest: an entry <id>.json and a socket       *)
(* <id>.sock for each session.  Processes of the guest work on it at the   *)
(* same time: `session open` (Mode "open"), `session open -new` ("new")    *)
(* and `session list` ("list"), and the holder of each session, which      *)
(* outlives the process that made it.  Only Open takes open.lock.          *)
(*                                                                         *)
(* An entry is "new" until the holder records its PID in it.  Times are    *)
(* one bit: whether startTimeout has passed since the entry was created.   *)
(***************************************************************************)
EXTENDS FiniteSets

CONSTANTS
    Proc,    \* guest processes that open or list sessions
    Mode,    \* Mode[p]: "open", "new" or "list"
    Want,    \* Want[p]: the directory p opens a session in
    Id,      \* session ids, never drawn twice
    None,
    Settings \* the settings behaviours run in: who takes part, what may go wrong

Modes == {"open", "new", "list"}

AllSettings == [procs : SUBSET Proc, faults : SUBSET {"slow", "kill"}]

ASSUME SessionsAssumption ==
    /\ Mode \in [Proc -> Modes] /\ Settings \subseteq AllSettings
    /\ None \notin Proc /\ None \notin Id

VARIABLES
    lock,    \* who holds open.lock
    info,    \* info[i]: the entry: "none", "new" (PID 0) or "pid"
    socks,   \* sessions with a socket file
    old,     \* entries created startTimeout ago or earlier
    holder,  \* holder[i]: where the holder process of i is
    maker,   \* maker[i]: the process that made i
    pc,      \* pc[p]
    todo,    \* todo[p]: entries of List's directory listing not yet read
    found,   \* found[p]: running sessions List has seen
    dead,    \* dead[p]: the entry List is removing
    got,     \* got[p]: the session p returns or is making
    setting  \* the setting of this behaviour: constant

disk == <<lock, info, socks, old>>
locals == <<todo, found, dead, got>>
vars == <<disk, holder, maker, pc, locals, setting>>

HolderSteps == {"none", "serve", "record", "listen", "start", "run", "clean", "gone"}
ProcSteps == {"idle", "peek", "lock", "find", "create", "spawn", "dial", "done", "failed", "killed"}
Ended == {"done", "failed", "killed"}

\* alive: the holder process exists.
Alive(i) == holder[i] \notin {"none", "gone"}
\* The socket of i accepts connections.
Accepts(i) == i \in socks /\ holder[i] \in {"start", "run"}
Entries == {i \in Id : info[i] # "none"}

Init ==
    /\ lock = None /\ info = [i \in Id |-> "none"] /\ socks = {} /\ old = {}
    /\ holder = [i \in Id |-> "none"] /\ maker = [i \in Id |-> None]
    /\ pc = [p \in Proc |-> "idle"]
    /\ todo = [p \in Proc |-> {}] /\ found = [p \in Proc |-> {}]
    /\ dead = [p \in Proc |-> <<>>] /\ got = [p \in Proc |-> None]
    /\ setting \in Settings

------------------------------------------------------------------------------
(* List, Find and Open. *)

\* List reads the directory once; Find and `list` begin with it.
ListInto(p, step) ==
    /\ pc' = [pc EXCEPT ![p] = step]
    /\ todo' = [todo EXCEPT ![p] = Entries] /\ found' = [found EXCEPT ![p] = {}]

\* `open` first looks, without the lock, whether a session runs (sessionRuns).
Begin(p) ==
    /\ pc[p] = "idle" /\ p \in setting.procs
    /\ \/ Mode[p] # "new" /\ ListInto(p, "peek")
       \/ Mode[p] = "new" /\ pc' = [pc EXCEPT ![p] = "create"] /\ UNCHANGED <<todo, found>>
    /\ UNCHANGED <<disk, holder, maker, dead, got, setting>>

\* List reads one entry: it runs, it is being created, or it is to be removed.
ReadEntry(p) ==
    /\ pc[p] \in {"peek", "find"} /\ dead[p] = <<>>
    /\ \E i \in todo[p] :
        /\ todo' = [todo EXCEPT ![p] = @ \ {i}]
        /\ \/ info[i] = "pid" /\ Alive(i)
              /\ found' = [found EXCEPT ![p] = @ \cup {i}] /\ UNCHANGED dead
           \/ (info[i] = "none" \/ (info[i] = "new" /\ i \notin old))
              /\ UNCHANGED <<found, dead>>
           \/ ((info[i] = "new" /\ i \in old) \/ (info[i] = "pid" /\ ~Alive(i)))
              /\ dead' = [dead EXCEPT ![p] = <<"info", i>>] /\ UNCHANGED found
    /\ UNCHANGED <<disk, holder, maker, pc, got, setting>>

\* Mistaken variant: the entry is marked stale and stays.
RemoveEntryMark(p) ==
    /\ dead[p] # <<>> /\ dead[p][1] = "info"
    /\ info' = [info EXCEPT ![dead[p][2]] = "stale"]
    /\ dead' = [dead EXCEPT ![p] = <<"sock", dead[p][2]>>]
    /\ UNCHANGED <<lock, socks, old, holder, maker, pc, todo, found, got, setting>>

\* List removes the entry it decided on, then its socket.
RemoveEntry(p) ==
    /\ dead[p] # <<>> /\ dead[p][1] = "info"
    /\ info' = [info EXCEPT ![dead[p][2]] = "none"]
    /\ dead' = [dead EXCEPT ![p] = <<"sock", dead[p][2]>>]
    /\ UNCHANGED <<lock, socks, old, holder, maker, pc, todo, found, got, setting>>

RemoveSocket(p) ==
    /\ dead[p] # <<>> /\ dead[p][1] = "sock"
    /\ socks' = socks \ {dead[p][2]}
    /\ dead' = [dead EXCEPT ![p] = <<>>]
    /\ UNCHANGED <<lock, info, old, holder, maker, pc, todo, found, got, setting>>

Listed(p, step) == pc[p] = step /\ todo[p] = {} /\ dead[p] = <<>>

Peeked(p) ==
    /\ Listed(p, "peek")
    /\ pc' = [pc EXCEPT ![p] = IF Mode[p] = "list" THEN "done" ELSE "lock"]
    /\ found' = [found EXCEPT ![p] = {}]
    /\ UNCHANGED <<disk, holder, maker, todo, dead, got, setting>>

\* Mistaken variant: the lock does not exclude other Opens.
LockShared(p) ==
    /\ pc[p] = "lock"
    /\ lock' = p /\ ListInto(p, "find")
    /\ UNCHANGED <<info, socks, old, holder, maker, dead, got, setting>>

Lock(p) ==
    /\ pc[p] = "lock" /\ lock = None
    /\ lock' = p /\ ListInto(p, "find")
    /\ UNCHANGED <<info, socks, old, holder, maker, dead, got, setting>>

\* The lock goes with the process or with Open's return, whichever is first.
Unlock(p) == lock' = IF lock = p THEN None ELSE lock

\* Find returns a running session of the directory, or Open goes on to Create.
\* Which one was attached last is left open.
Find(p) ==
    /\ Listed(p, "find")
    /\ LET here == {i \in found[p] : Want[maker[i]] = Want[p]} IN
       \/ /\ \E i \in here : got' = [got EXCEPT ![p] = i]
          /\ pc' = [pc EXCEPT ![p] = "done"] /\ Unlock(p)
       \/ /\ here = {}
          /\ pc' = [pc EXCEPT ![p] = "create"] /\ UNCHANGED <<lock, got>>
    /\ found' = [found EXCEPT ![p] = {}]
    /\ UNCHANGED <<info, socks, old, holder, maker, todo, dead, setting>>

------------------------------------------------------------------------------
(* Create. *)

\* Ids are drawn at random and never compared, so any unused one will do.
CreateEntry(p) ==
    /\ pc[p] = "create" /\ \E i \in Id : maker[i] = None
    /\ LET i == CHOOSE i \in Id : maker[i] = None IN
        /\ maker' = [maker EXCEPT ![i] = p] /\ info' = [info EXCEPT ![i] = "new"]
        /\ got' = [got EXCEPT ![p] = i]
    /\ pc' = [pc EXCEPT ![p] = "spawn"]
    /\ UNCHANGED <<lock, socks, old, holder, todo, found, dead, setting>>

Spawn(p) ==
    /\ pc[p] = "spawn"
    /\ \/ /\ holder' = [holder EXCEPT ![got[p]] = "serve"]
          /\ pc' = [pc EXCEPT ![p] = "dial"] /\ UNCHANGED <<lock, info>>
       \/ /\ info' = [info EXCEPT ![got[p]] = "none"]
          /\ pc' = [pc EXCEPT ![p] = "failed"] /\ Unlock(p) /\ UNCHANGED holder
    /\ UNCHANGED <<socks, old, maker, locals, setting>>

Dialled(p) ==
    /\ pc[p] = "dial" /\ Accepts(got[p])
    /\ pc' = [pc EXCEPT ![p] = "done"] /\ Unlock(p)
    /\ UNCHANGED <<info, socks, old, holder, maker, locals, setting>>

HolderExited(p) ==
    /\ pc[p] = "dial" /\ holder[got[p]] = "gone"
    /\ pc' = [pc EXCEPT ![p] = "failed"] /\ Unlock(p)
    /\ UNCHANGED <<info, socks, old, holder, maker, locals, setting>>

\* Mistaken variant: the holder that did not start in time is left running.
DeadlineLeave(p) ==
    /\ pc[p] = "dial" /\ got[p] \in old
    /\ pc' = [pc EXCEPT ![p] = "failed"] /\ Unlock(p)
    /\ UNCHANGED <<info, socks, old, holder, maker, locals, setting>>

Deadline(p) ==
    /\ pc[p] = "dial" /\ got[p] \in old
    /\ holder' = [holder EXCEPT ![got[p]] = "gone"]
    /\ pc' = [pc EXCEPT ![p] = "failed"] /\ Unlock(p)
    /\ UNCHANGED <<info, socks, old, maker, locals, setting>>

\* startTimeout passes for the entry p made.  The entry's clock starts first,
\* so an entry is old before Create gives up on it.
Age(i) ==
    /\ "slow" \in setting.faults /\ maker[i] # None /\ i \notin old
    /\ old' = old \cup {i}
    /\ UNCHANGED <<lock, info, socks, holder, maker, pc, locals, setting>>

\* Mistaken variant: the lock is a file that outlives its owner.
KillKeepsLock(p) ==
    /\ "kill" \in setting.faults /\ pc[p] \notin Ended \cup {"idle"}
    /\ pc' = [pc EXCEPT ![p] = "killed"]
    /\ todo' = [todo EXCEPT ![p] = {}] /\ found' = [found EXCEPT ![p] = {}]
    /\ dead' = [dead EXCEPT ![p] = <<>>]
    /\ UNCHANGED <<disk, holder, maker, got, setting>>

\* The process dies: its SSH connection is gone, or it is killed.  The holder
\* it started has a process session of its own and goes on.
Kill(p) ==
    /\ "kill" \in setting.faults /\ pc[p] \notin Ended \cup {"idle"}
    /\ pc' = [pc EXCEPT ![p] = "killed"] /\ Unlock(p)
    /\ todo' = [todo EXCEPT ![p] = {}] /\ found' = [found EXCEPT ![p] = {}]
    /\ dead' = [dead EXCEPT ![p] = <<>>]
    /\ UNCHANGED <<info, socks, old, holder, maker, got, setting>>

------------------------------------------------------------------------------
(* Serve, the holder of session i. *)

HolderAt(i, step, next) == holder[i] = step /\ holder' = [holder EXCEPT ![i] = next]

ServeRead(i) ==
    /\ HolderAt(i, "serve", IF info[i] = "none" THEN "gone" ELSE "record")
    /\ UNCHANGED <<disk, maker, pc, locals, setting>>

\* Mistaken variant: the socket accepts clients before the PID is recorded.
ServeRecordLate(i) ==
    /\ HolderAt(i, "record", "listen")
    /\ UNCHANGED <<disk, maker, pc, locals, setting>>

ServeRecord(i) ==
    /\ HolderAt(i, "record", "listen")
    /\ info' = [info EXCEPT ![i] = "pid"]
    /\ UNCHANGED <<lock, socks, old, maker, pc, locals, setting>>

ServeListen(i) ==
    /\ HolderAt(i, "listen", "start")
    /\ socks' = socks \cup {i}
    /\ UNCHANGED <<lock, info, old, maker, pc, locals, setting>>

ServeStart(i) ==
    /\ HolderAt(i, "start", "run")
    /\ UNCHANGED <<disk, maker, pc, locals, setting>>

\* The program could not start, or it has ended: the deferred cleanup removes
\* the socket, then the entry.
ServeEnd(i) ==
    /\ \/ HolderAt(i, "start", "clean")
       \/ HolderAt(i, "run", "clean")
    /\ socks' = socks \ {i}
    /\ UNCHANGED <<lock, info, old, maker, pc, locals, setting>>

ServeForget(i) ==
    /\ HolderAt(i, "clean", "gone")
    /\ info' = [info EXCEPT ![i] = "none"]
    /\ UNCHANGED <<lock, socks, old, maker, pc, locals, setting>>

\* Recording the PID or listening fails: no cleanup is deferred yet.
ServeFail(i) ==
    /\ \E step \in {"record", "listen"} : HolderAt(i, step, "gone")
    /\ UNCHANGED <<disk, maker, pc, locals, setting>>

Step(p) ==
    \/ Begin(p) \/ ReadEntry(p) \/ RemoveEntry(p) \/ RemoveSocket(p) \/ Peeked(p)
    \/ Lock(p) \/ Find(p) \/ CreateEntry(p) \/ Spawn(p)
    \/ Dialled(p) \/ HolderExited(p) \/ Deadline(p)

Serve(i) ==
    \/ ServeRead(i) \/ ServeRecord(i) \/ ServeListen(i) \/ ServeStart(i)
    \/ ServeEnd(i) \/ ServeForget(i) \/ ServeFail(i)

\* All processes have returned; holders are left to run their programs.
Quiet == (\A p \in setting.procs : pc[p] \in Ended) /\ UNCHANGED vars

Next ==
    \/ \E p \in Proc : Step(p) \/ Kill(p)
    \/ \E i \in Id : Serve(i) \/ Age(i)
    \/ Quiet

Spec == Init /\ [][Next]_vars

\* A process that is not killed goes on, and time passes.  Holders may hang.
Fairness ==
    /\ \A p \in Proc : WF_vars(Step(p))
    /\ \A i \in Id : WF_vars(Age(i))

------------------------------------------------------------------------------
(* Properties. *)

\* Every variable has its type.
TypeOK ==
    /\ lock \in Proc \cup {None} /\ info \in [Id -> {"none", "new", "pid"}]
    /\ socks \subseteq Id /\ old \subseteq Id
    /\ holder \in [Id -> HolderSteps] /\ maker \in [Id -> Proc \cup {None}]
    /\ pc \in [Proc -> ProcSteps] /\ got \in [Proc -> Id \cup {None}]
    /\ todo \in [Proc -> SUBSET Id] /\ found \in [Proc -> SUBSET Id]
    /\ dead \in [Proc -> {<<>>} \cup ({"info", "sock"} \X Id)]
    /\ setting \in Settings

\* Concurrent Opens of a directory share one session: no two sessions that
\* Open made in it run at once (the promise in Open's comment), whatever
\* `open -new` and `list` do meanwhile.  A start slower than startTimeout or a
\* killed opener can break it.
OneSession ==
    setting.faults = {} => \A i, j \in {k \in Id : Accepts(k) /\ Mode[maker[k]] = "open"} :
        Want[maker[i]] = Want[maker[j]] => i = j

\* A session that Open or Create has returned can be stopped for as long as
\* it runs: Stop finds its entry, with the PID of the holder in it.  A List
\* beside a start slower than startTimeout can break it.
OpenedIsStoppable ==
    "slow" \notin setting.faults => \A p \in Proc :
        pc[p] = "done" /\ Mode[p] # "list" /\ Accepts(got[p]) => info[got[p]] = "pid"

\* An Open or Create that reports an error has left no holder behind, which
\* would run a program nobody asked for any more.
FailedLeavesNoHolder == \A p \in Proc : pc[p] = "failed" => ~Alive(got[p])

\* Sessions and their entries agree: all three of the above.
SessionsAccounted == OneSession /\ OpenedIsStoppable /\ FailedLeavesNoHolder

\* Every Open and List returns, even when a holder hangs or the owner of the
\* lock dies: Create gives up after startTimeout and the lock goes with its
\* process.
OpenReturns ==
    \A p \in Proc : pc[p] # "idle" /\ "slow" \in setting.faults ~> pc[p] \in Ended
==============================================================================
