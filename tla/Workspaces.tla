----------------------------- MODULE Workspaces ------------------------------
(***************************************************************************)
(* The jailoc commands that start, reload and stop workspace VMs           *)
(* (internal/cmd vmflow_unix.go, vmbackend_unix.go, vmprofile_unix.go), as *)
(* they meet in the files they share: state.json, spec.json and the        *)
(* secrets marker of a workspace, the owner recorded in the lock file of a *)
(* named profile, and the SSH socket of the VM.                            *)
(*                                                                         *)
(* A command is a process; nothing but the profile lock keeps two of them  *)
(* apart. Supervisors are processes of their own, which outlive the        *)
(* command: one per process ID, behaving as VMLifecycle says. A spec is    *)
(* abstracted to the profile it names.                                     *)
(***************************************************************************)
EXTENDS Naturals

CONSTANTS
    Workspace, Profile, None,
    Command,     \* jailoc processes that run at the same time
    MaxPID,      \* bound: supervisors ever started
    Interrupts   \* steps at which a command may be cut short

Ops == {"up", "down", "purge", "restart", "session"}
Steps == {"idle", "check", "claim", "record", "build", "start", "spec", "fork", "wait",
          "deliver", "redeliver", "mark", "reload", "respec", "down", "stop", "stopWait", "release", "purge"}

PID == 1..MaxPID
\* "none": the workspace names no profile.
Profiles == Profile \cup {"none"}

VARIABLES
    pc, op, ws, prof,  \* a command: its step, kind, workspace and configured profile
    saw,     \* the supervisor it started or is stopping
    after,   \* where stopSupervisor returns to
    file,    \* state.json: None, or the process ID and whether it says ready
    spec,    \* the profile in spec.json, or None
    marker,  \* "yes" while the secrets marker exists
    sock,    \* the supervisor whose broker serves ssh.sock, or None
    owner,   \* the workspace recorded in the lock file of each profile
    lock,    \* the command that holds that file locked
    life,    \* supervisors: "unused", "new", "booting", "ready",
             \* "failing" or "ending" (stopping before or after "ready"), "exited", "killed"
    vm,      \* their VMs: "none", "up", "gone"
    of, uses,  \* the workspace and the profile of each live supervisor
    got        \* "yes" once the secrets reached its VM

command == <<pc, op, ws, prof, saw, after>>
files == <<file, spec, marker, sock>>
profiles == <<owner, lock>>
sups == <<life, vm, of, uses, got>>
vars == <<command, files, profiles, sups>>

TypeOK ==
    /\ pc \in [Command -> Steps]
    /\ op \in [Command -> Ops \cup {None}]
    /\ ws \in [Command -> Workspace \cup {None}]
    /\ prof \in [Command -> Profiles \cup {None}]
    /\ saw \in [Command -> PID \cup {None}]
    /\ after \in [Command -> Steps]
    /\ file \in [Workspace -> [pid : PID, ready : {"yes", "no"}] \cup {None}]
    /\ spec \in [Workspace -> Profiles \cup {None}]
    /\ marker \in [Workspace -> {"yes", "no"}]
    /\ sock \in [Workspace -> PID \cup {None}]
    /\ owner \in [Profile -> Workspace \cup {None}]
    /\ lock \in [Profile -> Command \cup {None}]
    /\ life \in [PID -> {"unused", "new", "booting", "ready", "failing", "ending",
                       "exited", "killed"}]
    /\ vm \in [PID -> {"none", "up", "gone"}]
    /\ of \in [PID -> Workspace \cup {None}]
    /\ uses \in [PID -> Profiles \cup {None}]
    /\ got \in [PID -> {"yes", "no"}]

Init ==
    /\ pc = [c \in Command |-> "idle"] /\ op = [c \in Command |-> None]
    /\ ws = [c \in Command |-> None] /\ prof = [c \in Command |-> None]
    /\ saw = [c \in Command |-> None] /\ after = [c \in Command |-> "idle"]
    /\ file = [w \in Workspace |-> None] /\ spec = [w \in Workspace |-> None]
    /\ marker = [w \in Workspace |-> "no"] /\ sock = [w \in Workspace |-> None]
    /\ owner = [p \in Profile |-> None] /\ lock = [p \in Profile |-> None]
    /\ life = [s \in PID |-> "unused"] /\ vm = [s \in PID |-> "none"]
    /\ of = [s \in PID |-> None] /\ uses = [s \in PID |-> None]
    /\ got = [s \in PID |-> "no"]

\* processAlive
Alive(s) == life[s] \in {"new", "booting", "ready", "failing", "ending"}
Stopping(s) == life[s] \in {"failing", "ending"}

\* runningVM: the state file says ready and its process lives.
Running(w) == file[w] # None /\ file[w].ready = "yes" /\ Alive(file[w].pid)

Goto(c, step) == pc' = [pc EXCEPT ![c] = step]

\* The command ends; its locks go with it.
Return(c) ==
    /\ pc' = [pc EXCEPT ![c] = "idle"] /\ op' = [op EXCEPT ![c] = None]
    /\ ws' = [ws EXCEPT ![c] = None] /\ prof' = [prof EXCEPT ![c] = None]
    /\ saw' = [saw EXCEPT ![c] = None] /\ after' = [after EXCEPT ![c] = "idle"]

\* Goto with the rest of the command's state unchanged.
Step(c, step) == Goto(c, step) /\ UNCHANGED <<op, ws, prof, saw, after>>

\* Calls stopSupervisor, to go on at step next.
CallStop(c, next) ==
    /\ Goto(c, "stop") /\ after' = [after EXCEPT ![c] = next]
    /\ UNCHANGED <<op, ws, prof, saw>>

\* A command begins with the configuration as the user left it.
Begin(c) ==
    /\ pc[c] = "idle"
    /\ \E o \in Ops, w \in Workspace, p \in Profiles :
         /\ o \in {"down", "purge"} => p = "none"   \* they do not read it
         /\ op' = [op EXCEPT ![c] = o] /\ ws' = [ws EXCEPT ![c] = w]
         /\ prof' = [prof EXCEPT ![c] = p]
         /\ Goto(c, IF o \in {"up", "session"} THEN "check" ELSE "down")
    /\ UNCHANGED <<saw, after, files, profiles, sups>>

\* A signal, a closed terminal or, in the wait for a supervisor, vmStartTimeout
\* ends the command. A supervisor it started is at most told to stop, and never
\* waited for.
Interrupt(c) ==
    /\ pc[c] \in Interrupts \ {"idle"} /\ Return(c)
    /\ lock' = [p \in Profile |-> IF lock[p] = c THEN None ELSE lock[p]]
    /\ UNCHANGED <<files, owner, sups>>

------------------------------------------------------------------------------
(* up *)

\* A running VM is reloaded by up, and by a session only given its secrets.
UpCheck(c) ==
    /\ pc[c] = "check"
    /\ LET w == ws[c] IN
       \/ Running(w) /\ op[c] # "session" /\ Step(c, "reload")
       \/ Running(w) /\ op[c] = "session" /\ marker[w] = "yes" /\ Return(c)
       \/ Running(w) /\ op[c] = "session" /\ marker[w] = "no" /\ Step(c, "redeliver")
       \/ ~Running(w) /\ Step(c, IF prof[c] = "none" THEN "build" ELSE "claim")
    /\ UNCHANGED <<files, profiles, sups>>

\* profileHeld
Held(o, p) == Running(o) /\ spec[o] = p
InUse(p, w) == owner[p] \notin {None, w} /\ Held(owner[p], p)

\* claimProfile, with the lock file locked: refused while the recorded owner
\* runs with the profile.
Claim(c) ==
    /\ pc[c] = "claim" /\ lock[prof[c]] = None
    /\ \/ ~InUse(prof[c], ws[c]) /\ Step(c, "record") /\ lock' = [lock EXCEPT ![prof[c]] = c]
       \/ InUse(prof[c], ws[c]) /\ Return(c) /\ UNCHANGED lock
    /\ UNCHANGED <<files, owner, sups>>

\* Mistaken variant: the profile's name is recorded instead of the workspace's.
RecordName(c) ==
    /\ pc[c] = "record" /\ Step(c, "build")
    /\ owner' = [owner EXCEPT ![prof[c]] = prof[c]]
    /\ lock' = [lock EXCEPT ![prof[c]] = None]
    /\ UNCHANGED <<files, sups>>

Record(c) ==
    /\ pc[c] = "record" /\ Step(c, "build")
    /\ owner' = [owner EXCEPT ![prof[c]] = ws[c]]
    /\ lock' = [lock EXCEPT ![prof[c]] = None]
    /\ UNCHANGED <<files, sups>>

\* Mistaken variant: the marker of an earlier VM is kept.
BuildKeepMarker(c) ==
    /\ pc[c] = "build"
    /\ Step(c, "start") \/ Return(c)
    /\ UNCHANGED <<files, profiles, sups>>

\* The image build, the snapshots, the spec and the secret values; then the
\* marker of an earlier VM is removed.
Build(c) ==
    /\ pc[c] = "build"
    /\ \/ Step(c, "start") /\ marker' = [marker EXCEPT ![ws[c]] = "no"]
       \/ Return(c) /\ UNCHANGED marker
    /\ UNCHANGED <<file, spec, sock, profiles, sups>>

\* startSupervisor: a running VM is kept if its spec is the wanted one, and
\* stopped otherwise. Specs that name the same profile may still differ.
Start(c) ==
    /\ pc[c] = "start"
    /\ LET w == ws[c] IN
       \/ Running(w) /\ spec[w] = prof[c] /\ Step(c, "deliver")
       \/ Running(w) /\ CallStop(c, "spec")
       \/ ~Running(w) /\ Step(c, "spec")
    /\ UNCHANGED <<files, profiles, sups>>

WriteSpec(c) ==
    /\ pc[c] = "spec" /\ Step(c, "fork")
    /\ spec' = [spec EXCEPT ![ws[c]] = prof[c]]
    /\ UNCHANGED <<file, marker, sock, profiles, sups>>

\* The old state file is removed and the supervisor started.
Fork(c) ==
    /\ pc[c] = "fork"
    /\ \E s \in PID :
         /\ life[s] = "unused" /\ \A t \in PID : t < s => life[t] # "unused"
         /\ life' = [life EXCEPT ![s] = "new"] /\ of' = [of EXCEPT ![s] = ws[c]]
         /\ saw' = [saw EXCEPT ![c] = s]
    /\ file' = [file EXCEPT ![ws[c]] = None]
    /\ Goto(c, "wait")
    /\ UNCHANGED <<op, ws, prof, after, spec, marker, sock, profiles, vm, uses, got>>

\* The command polls the state file until its own supervisor is ready or gone.
Wait(c) ==
    /\ pc[c] = "wait"
    /\ LET s == saw[c] IN
       \/ file[ws[c]] = [pid |-> s, ready |-> "yes"] /\ Step(c, "deliver")
       \/ ~Alive(s) /\ Return(c)
    /\ UNCHANGED <<files, profiles, sups>>

\* deliverSecrets over the SSH socket. When up cannot deliver to the VM it has
\* started it stops the VM; reload and session leave it running.
Deliver(c) ==
    /\ pc[c] \in {"deliver", "redeliver"}
    /\ LET s == sock[ws[c]] IN
       \/ /\ s # None /\ vm[s] = "up"
          /\ Step(c, "mark") /\ got' = [got EXCEPT ![s] = "yes"]
       \/ /\ IF pc[c] = "deliver" THEN CallStop(c, "idle") ELSE Return(c)
          /\ UNCHANGED got
    /\ UNCHANGED <<files, profiles, life, vm, of, uses>>

Mark(c) ==
    /\ pc[c] = "mark" /\ Return(c)
    /\ marker' = [marker EXCEPT ![ws[c]] = "yes"]
    /\ UNCHANGED <<file, spec, sock, profiles, sups>>

------------------------------------------------------------------------------
(* reload *)

\* reloadVM reads the running VM's spec; prof keeps the profile in it.
Reload(c) ==
    /\ pc[c] = "reload"
    /\ LET w == ws[c] IN
       \/ /\ Running(w) /\ spec[w] # None
          /\ Goto(c, "respec") /\ prof' = [prof EXCEPT ![c] = spec[w]]
          /\ UNCHANGED <<op, ws, saw, after>>
       \/ Return(c)
    /\ UNCHANGED <<files, profiles, sups>>

\* Mistaken variant: the configured profile is stored, which the VM does not use.
RespecWanted(c) ==
    /\ pc[c] = "respec" /\ Step(c, "redeliver")
    /\ \E p \in Profiles : spec' = [spec EXCEPT ![ws[c]] = p]
    /\ UNCHANGED <<file, marker, sock, profiles, sups>>

\* Broker and guest have taken the new settings, and the spec is stored with
\* the old profile; either may fail before that.
Respec(c) ==
    /\ pc[c] = "respec"
    /\ \/ Step(c, "redeliver") /\ spec' = [spec EXCEPT ![ws[c]] = prof[c]]
       \/ Return(c) /\ UNCHANGED spec
    /\ UNCHANGED <<file, marker, sock, profiles, sups>>

------------------------------------------------------------------------------
(* down *)

\* Mistaken variant: purge does not stop the VM first.
DownCheckPurge(c) ==
    /\ pc[c] = "down"
    /\ \/ Running(ws[c]) /\ op[c] # "purge" /\ CallStop(c, "release")
       \/ op[c] = "purge" /\ Step(c, "purge")
       \/ ~Running(ws[c]) /\ op[c] = "down" /\ Return(c)
       \/ ~Running(ws[c]) /\ op[c] = "restart" /\ Step(c, "check")
    /\ UNCHANGED <<files, profiles, sups>>

DownCheck(c) ==
    /\ pc[c] = "down"
    /\ \/ (Running(ws[c]) \/ op[c] = "purge") /\ CallStop(c, "release")
       \/ ~Running(ws[c]) /\ op[c] = "down" /\ Return(c)
       \/ ~Running(ws[c]) /\ op[c] = "restart" /\ Step(c, "check")
    /\ UNCHANGED <<files, profiles, sups>>

\* Where stopSupervisor returns to: up gives up after a failed delivery.
Resume(c) == IF after[c] = "idle" THEN Return(c)
             ELSE /\ Goto(c, after[c]) /\ saw' = [saw EXCEPT ![c] = None]
                  /\ after' = [after EXCEPT ![c] = "idle"] /\ UNCHANGED <<op, ws, prof>>

\* Mistaken variant: stopSupervisor does not wait for the process it signals.
StopNoWait(c) ==
    /\ pc[c] = "stop" /\ Resume(c)
    /\ life' = [s \in PID |->
                  IF file[ws[c]] # None /\ file[ws[c]].pid = s /\ Alive(s) THEN "ending"
                  ELSE life[s]]
    /\ UNCHANGED <<files, profiles, vm, of, uses, got>>

\* stopSupervisor signals the process in the state file, ready or not.
Stop(c) ==
    /\ pc[c] = "stop"
    /\ LET f == file[ws[c]] IN
       \/ ~(f # None /\ Alive(f.pid)) /\ Resume(c)
       \/ /\ f # None /\ Alive(f.pid)
          /\ Goto(c, "stopWait") /\ saw' = [saw EXCEPT ![c] = f.pid]
          /\ UNCHANGED <<op, ws, prof, after>>
    /\ UNCHANGED <<files, profiles, sups>>

\* It waits for the process, and kills one that is not done after vmStopTimeout
\* (45 s); by then the VM has been stopped (Supervise's grace, 30 s).
StopWait(c) ==
    /\ pc[c] = "stopWait" /\ Resume(c)
    /\ \/ ~Alive(saw[c]) /\ UNCHANGED <<life, of, uses, got>>
       \/ /\ Stopping(saw[c]) /\ vm[saw[c]] # "up"
          /\ life' = [life EXCEPT ![saw[c]] = "killed"]
          /\ of' = [of EXCEPT ![saw[c]] = None] /\ uses' = [uses EXCEPT ![saw[c]] = None]
          /\ got' = [got EXCEPT ![saw[c]] = "no"]
    /\ UNCHANGED <<files, profiles, vm>>

\* releaseProfile drops the claim on the profile in the spec, if it is the
\* workspace's own.
Release(c) ==
    /\ pc[c] = "release"
    /\ LET w == ws[c]
           p == spec[w] IN
       /\ IF p \in Profile
            THEN /\ lock[p] = None
                 /\ owner' = [owner EXCEPT ![p] = IF @ = w THEN None ELSE @]
            ELSE UNCHANGED owner
       /\ IF op[c] = "purge" THEN Step(c, "purge")
          ELSE IF op[c] = "restart" THEN Step(c, "check") ELSE Return(c)
    /\ UNCHANGED <<files, lock, sups>>

\* RemoveTree of the state directory.
Purge(c) ==
    /\ pc[c] = "purge" /\ Return(c)
    /\ file' = [file EXCEPT ![ws[c]] = None] /\ spec' = [spec EXCEPT ![ws[c]] = None]
    /\ marker' = [marker EXCEPT ![ws[c]] = "no"] /\ sock' = [sock EXCEPT ![ws[c]] = None]
    /\ UNCHANGED <<profiles, sups>>

------------------------------------------------------------------------------
(* Supervisors: vm.Run as VMLifecycle has it, with its files. *)

\* vm-supervise reads the spec and writes the first state.
SupRead(s) ==
    /\ life[s] = "new"
    /\ \/ /\ spec[of[s]] # None
          /\ life' = [life EXCEPT ![s] = "booting"]
          /\ uses' = [uses EXCEPT ![s] = spec[of[s]]]
          /\ file' = [file EXCEPT ![of[s]] = [pid |-> s, ready |-> "no"]]
       \/ /\ spec[of[s]] = None
          /\ life' = [life EXCEPT ![s] = "exited"] /\ UNCHANGED <<uses, file>>
    /\ UNCHANGED <<command, spec, marker, sock, profiles, vm, of, got>>

\* The broker takes over the socket path and the VM boots.
SupBoot(s) ==
    /\ life[s] = "booting" /\ vm[s] = "none"
    /\ vm' = [vm EXCEPT ![s] = "up"] /\ sock' = [sock EXCEPT ![of[s]] = s]
    /\ UNCHANGED <<command, file, spec, marker, profiles, life, of, uses, got>>

\* Its guest answers on the socket.
SupReady(s) ==
    /\ life[s] = "booting" /\ vm[s] = "up" /\ sock[of[s]] = s
    /\ life' = [life EXCEPT ![s] = "ready"]
    /\ file' = [file EXCEPT ![of[s]] = [pid |-> s, ready |-> "yes"]]
    /\ UNCHANGED <<command, spec, marker, sock, profiles, vm, of, uses, got>>

\* SIGTERM, a failure on the way up, or the end of the broker or the VM.
SupEnd(s) ==
    /\ life[s] \in {"booting", "ready"}
    /\ life' = [life EXCEPT ![s] = IF @ = "ready" THEN "ending" ELSE "failing"]
    /\ UNCHANGED <<command, files, profiles, vm, of, uses, got>>

VMHalt(s) ==
    /\ vm[s] = "up" /\ vm' = [vm EXCEPT ![s] = "gone"]
    /\ UNCHANGED <<command, files, profiles, life, of, uses, got>>

\* Mistaken variant: the supervisor ends before its VM has stopped.
SupExitEarly(s) ==
    /\ Stopping(s)
    /\ life' = [life EXCEPT ![s] = "exited"] /\ sock' = [sock EXCEPT ![of[s]] = None]
    /\ file' \in {file, [file EXCEPT ![of[s]] = [pid |-> s, ready |-> "no"]]}
    /\ of' = [of EXCEPT ![s] = None] /\ uses' = [uses EXCEPT ![s] = None]
    /\ got' = [got EXCEPT ![s] = "no"]
    /\ UNCHANGED <<command, spec, marker, profiles, vm>>

\* With the VM gone the broker is stopped, which removes the socket path whoever
\* serves it, and the final state is written if the directory is still there.
SupExit(s) ==
    /\ Stopping(s) /\ vm[s] # "up"
    /\ life' = [life EXCEPT ![s] = "exited"] /\ sock' = [sock EXCEPT ![of[s]] = None]
    /\ file' \in {file, [file EXCEPT ![of[s]] = [pid |-> s, ready |-> "no"]]}
    /\ of' = [of EXCEPT ![s] = None] /\ uses' = [uses EXCEPT ![s] = None]
    /\ got' = [got EXCEPT ![s] = "no"]
    /\ UNCHANGED <<command, spec, marker, profiles, vm>>

Sup(s) == SupRead(s) \/ SupBoot(s) \/ SupReady(s) \/ SupEnd(s) \/ VMHalt(s) \/ SupExit(s)

Next ==
    \/ \E c \in Command :
         \/ Begin(c) \/ Interrupt(c)
         \/ UpCheck(c) \/ Claim(c) \/ Record(c) \/ Build(c) \/ Start(c) \/ WriteSpec(c)
         \/ Fork(c) \/ Wait(c) \/ Deliver(c) \/ Mark(c) \/ Reload(c) \/ Respec(c)
         \/ DownCheck(c) \/ Stop(c) \/ StopWait(c) \/ Release(c) \/ Purge(c)
    \/ \E s \in PID : Sup(s)

Spec == Init /\ [][Next]_vars

------------------------------------------------------------------------------
(* Properties. *)

\* Two VMs never run on one named profile (claimProfile: "A profile serves one
\* running VM at a time").
ProfileExclusive ==
    \A s, t \in PID :
        s # t /\ vm[s] = "up" /\ vm[t] = "up" /\ uses[s] = uses[t] => uses[s] \notin Profile

\* Every VM that is up and announced is the one its workspace's state file names,
\* so that runningVM, and with it down, restart and the profile check, finds it.
RunningIsKnown ==
    \A s \in PID :
        life[s] = "ready" => Running(of[s]) /\ file[of[s]].pid = s

\* The files describe the running VM: the spec names the profile it uses, and
\* that profile is recorded as its workspace's, so that profileHeld protects it.
ClaimCoversVM ==
    \A s \in PID :
        life[s] = "ready" =>
            /\ spec[of[s]] = uses[s]
            /\ uses[s] \in Profile => owner[uses[s]] = of[s]

\* A secrets marker next to a running VM means that this VM received its secrets
\* (secretsMarker), even when a command was interrupted at any step; otherwise a
\* session would start without them.
MarkerFaithful ==
    \A w \in Workspace :
        Running(w) /\ marker[w] = "yes" /\ vm[file[w].pid] = "up" => got[file[w].pid] = "yes"

\* What jailoc recorded about a workspace is true of its running VM, although each
\* file is written by another step and a command may stop between any two.
FilesFaithful == RunningIsKnown /\ ClaimCoversVM /\ MarkerFaithful

Lifecycle(s) == INSTANCE VMLifecycle WITH
    sup <- IF life[s] \in {"exited", "killed"} THEN life[s] ELSE "running",
    vm <- vm[s],
    ready <- IF life[s] \in {"ready", "ending"} THEN "yes" ELSE "no"

\* Every supervisor keeps to VMLifecycle (the conjunction of its instances'
\* specifications, as one).
SupervisorsImplementLifecycle ==
    /\ \A s \in PID : Lifecycle(s)!Init
    /\ [][\A s \in PID : UNCHANGED Lifecycle(s)!vars \/ Lifecycle(s)!Next]_vars
==============================================================================
