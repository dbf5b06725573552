------------------------------- MODULE Reload -------------------------------
(***************************************************************************)
(* `jailoc reload` of one running workspace: the command (reloadVM) writes *)
(* files the broker rereads on SIGHUP, asks the guest init through the     *)
(* control share, and records the new spec.  The broker's reload loop and  *)
(* the guest's poll run beside it; a reload may fail or be abandoned at    *)
(* any step, and a slow broker or guest goes on without it.                *)
(*                                                                         *)
(* A configuration is abstracted to a version: the policy, the runtime     *)
(* (ports and services), the CA bundle and the guest's relays each carry   *)
(* the version they come from.  Snapshots are staged in a directory per    *)
(* generation, named after the reload that made it; a bind is a pair of a  *)
(* generation and the snapshot's number.                                   *)
(***************************************************************************)
EXTENDS Naturals, Sequences, FiniteSets

CONSTANTS
    Reloader,    \* processes that run `jailoc reload`
    Version,     \* configurations
    Count,       \* the number of snapshots each configuration has
    None,
    Settings     \* the settings behaviours run in: what may go wrong ("overlap":
                 \* reloads run at once) and a bound on the reloads they start

AllFaults == {"stage", "runtime", "guest", "timeout", "interrupt", "overlap"}

Bind == Nat \X Nat
Request == [seq : Nat, ver : Version, binds : Seq(Bind)]
Reply == [seq : Nat, error : {"no", "yes"}]

ASSUME ReloadAssumption ==
    /\ Count \in [Version -> Nat]
    /\ None \notin Version /\ None \notin Request /\ None \notin Reply
    /\ Settings \subseteq [faults : SUBSET AllFaults, reloads : Nat]

VARIABLES
    config,   \* the configuration on the host
    made,     \* the number of generations made
    spec,     \* spec.json: the version and snapshot binds jailoc believes in
    staged,   \* generations in guest-ro/snapshots
    polFile, rtFile,  \* policy.json and runtime.json
    owed,     \* "yes": a file was written and no SIGHUP sent since
    hup,      \* SIGHUPs in the broker's channel of size one
    log,      \* the reload events of broker.jsonl
    brPc, brPol, brRt, brErr,   \* the broker's reload loop and what it applied
    request, answer,            \* reload.json and reload-done.json
    gPc, gReq, ca, bound, relays,  \* the guest init and what it applied
    pc, id, want, running, binds, offset,  \* each reload command
    last,     \* how the last finished reload ended
    setting   \* the setting of this behaviour: constant

files == <<config, made, spec, staged>>
broker == <<polFile, rtFile, owed, hup, log, brPc, brPol, brRt, brErr>>
guest == <<request, answer, gPc, gReq, ca, bound, relays>>
command == <<pc, id, want, running, binds, offset, last>>
vars == <<files, broker, guest, command, setting>>

Steps == {"idle", "clear", "stage", "log", "policy", "runtime", "signal", "broker",
          "request", "guest", "spec"}
GuestSteps == {"poll", "ca", "unmount", "bind", "relays", "failed", "applied"}

Binds(g, v) == [i \in 1 .. Count[v] |-> <<g, i>>]
BoundGens(bs) == {bs[i][1] : i \in DOMAIN bs}

\* snapshotGeneration, as a set: the generation the recorded binds come from.
Keep(bs) == IF bs = <<>> THEN {} ELSE {bs[1][1]}

\* A VM that `jailoc up` started with configuration v.
Init ==
    \E v \in Version :
        /\ setting \in Settings /\ config = v /\ made = 0 /\ spec = [ver |-> v, binds |-> Binds(0, v)]
        /\ staged = {0}
        /\ polFile = v /\ rtFile = v /\ owed = "no" /\ hup = 0 /\ log = <<>>
        /\ brPc = "wait" /\ brPol = v /\ brRt = v /\ brErr = "no"
        /\ request = None /\ answer = None
        /\ gPc = "poll" /\ gReq = None /\ ca = v /\ bound = Binds(0, v) /\ relays = v
        /\ pc = [r \in Reloader |-> "idle"] /\ id = [r \in Reloader |-> 0]
        /\ want = [r \in Reloader |-> None] /\ running = [r \in Reloader |-> <<>>]
        /\ binds = [r \in Reloader |-> <<>>] /\ offset = [r \in Reloader |-> 0]
        /\ last = "ok"

\* The user edits the configuration.
Edit ==
    /\ \E v \in Version \ {config} : config' = v
    /\ UNCHANGED <<made, spec, staged, broker, guest, command, setting>>

------------------------------------------------------------------------------
(* The command. *)

Goto(r, s) == pc' = [pc EXCEPT ![r] = s]

Return(r, result) ==
    /\ Goto(r, "idle") /\ last' = result
    /\ id' = [id EXCEPT ![r] = 0] /\ running' = [running EXCEPT ![r] = <<>>]
    /\ binds' = [binds EXCEPT ![r] = <<>>] /\ offset' = [offset EXCEPT ![r] = 0]
    /\ want' = [want EXCEPT ![r] = None]

Step(r, s) == Goto(r, s) /\ UNCHANGED <<id, want, running, binds, offset, last>>

\* reloadVM reads the recorded spec and works out the wanted one.
Begin(r) ==
    /\ pc[r] = "idle" /\ made < setting.reloads /\ made' = made + 1
    /\ "overlap" \notin setting.faults => \A q \in Reloader : pc[q] = "idle"
    /\ Goto(r, "clear") /\ id' = [id EXCEPT ![r] = made + 1]
    /\ want' = [want EXCEPT ![r] = config]
    /\ running' = [running EXCEPT ![r] = spec.binds]
    /\ UNCHANGED <<config, spec, staged, broker, guest, binds, offset, last, setting>>

\* The command is abandoned: Ctrl-C, a closed terminal, an error writing a file.
Abandon(r) ==
    /\ "interrupt" \in setting.faults /\ pc[r] # "idle" /\ Return(r, "failed")
    /\ UNCHANGED <<files, broker, guest, setting>>

\* Mistaken variant: staging clears every earlier generation.
ClearAll(r) ==
    /\ pc[r] = "clear" /\ Step(r, "stage") /\ staged' = {}
    /\ UNCHANGED <<config, made, spec, broker, guest, setting>>

\* stageSnapshots removes every generation but the one it is told to keep ...
Clear(r) ==
    /\ pc[r] = "clear" /\ Step(r, "stage")
    /\ staged' = staged \cap Keep(running[r])
    /\ UNCHANGED <<config, made, spec, broker, guest, setting>>

\* ... and copies the sources into a new one, removing it again on an error.
\* Without snapshots there is no new generation.
Stage(r) ==
    /\ pc[r] = "stage"
    /\ \/ /\ Goto(r, "log")
          /\ binds' = [binds EXCEPT ![r] = Binds(id[r], want[r])]
          /\ staged' = staged \cup Keep(Binds(id[r], want[r]))
          /\ UNCHANGED <<id, want, running, offset, last>>
       \/ /\ "stage" \in setting.faults /\ Return(r, "failed") /\ UNCHANGED staged
    /\ UNCHANGED <<config, made, spec, broker, guest, setting>>

\* reloadBroker notes the end of the broker's log, ...
NoteLog(r) ==
    /\ pc[r] = "log" /\ Goto(r, "policy")
    /\ offset' = [offset EXCEPT ![r] = Len(log)]
    /\ UNCHANGED <<files, broker, guest, id, want, running, binds, last, setting>>

\* ... writes both files, ...
WritePolicy(r) ==
    /\ pc[r] = "policy" /\ Step(r, "runtime") /\ polFile' = want[r] /\ owed' = "yes"
    /\ UNCHANGED <<files, rtFile, hup, log, brPc, brPol, brRt, brErr, guest, setting>>

WriteBrokerRuntime(r) ==
    /\ pc[r] = "runtime" /\ Step(r, "signal") /\ rtFile' = want[r] /\ owed' = "yes"
    /\ UNCHANGED <<files, polFile, hup, log, brPc, brPol, brRt, brErr, guest, setting>>

\* Mistaken variant: every signal is queued.
SignalQueued(r) ==
    /\ pc[r] = "signal" /\ Step(r, "broker") /\ hup' = hup + 1 /\ owed' = "no"
    /\ UNCHANGED <<files, polFile, rtFile, log, brPc, brPol, brRt, brErr, guest, setting>>

\* ... signals the broker, whose channel drops a signal it has no room for, ...
Signal(r) ==
    /\ pc[r] = "signal" /\ Step(r, "broker") /\ hup' = 1 /\ owed' = "no"
    /\ UNCHANGED <<files, polFile, rtFile, log, brPc, brPol, brRt, brErr, guest, setting>>

\* Mistaken variant: any reload event of the log counts as the confirmation.
AwaitBrokerAny(r) ==
    /\ pc[r] = "broker"
    /\ \/ /\ log # <<>> /\ log[1] = "ok" /\ Step(r, "request")
       \/ /\ log # <<>> /\ log[1] = "error" /\ Return(r, "failed")
       \/ /\ "timeout" \in setting.faults /\ Return(r, "failed")
    /\ UNCHANGED <<files, broker, guest, setting>>

\* ... and takes the first reload event after the noted end as its answer.
AwaitBroker(r) ==
    /\ pc[r] = "broker"
    /\ \/ /\ Len(log) > offset[r] /\ log[offset[r] + 1] = "ok" /\ Step(r, "request")
       \/ /\ Len(log) > offset[r] /\ log[offset[r] + 1] = "error" /\ Return(r, "failed")
       \/ /\ "timeout" \in setting.faults /\ Return(r, "failed")
    /\ UNCHANGED <<files, broker, guest, setting>>

\* reloadGuest writes the request ...
AskGuest(r) ==
    /\ pc[r] = "request" /\ Step(r, "guest")
    /\ request' = [seq |-> id[r], ver |-> want[r], binds |-> binds[r]]
    /\ UNCHANGED <<files, broker, answer, gPc, gReq, ca, bound, relays, setting>>

\* Mistaken variant: an answer to another request counts.
AwaitGuestAny(r) ==
    /\ pc[r] = "guest"
    /\ \/ answer # None /\ answer.error = "no" /\ Step(r, "spec")
       \/ answer # None /\ answer.error = "yes" /\ Return(r, "failed")
       \/ "timeout" \in setting.faults /\ Return(r, "failed")
    /\ UNCHANGED <<files, broker, guest, setting>>

\* ... and waits for the answer that carries its Seq.
AwaitGuest(r) ==
    /\ pc[r] = "guest"
    /\ \/ answer = [seq |-> id[r], error |-> "no"] /\ Step(r, "spec")
       \/ answer = [seq |-> id[r], error |-> "yes"] /\ Return(r, "failed")
       \/ "timeout" \in setting.faults /\ Return(r, "failed")
    /\ UNCHANGED <<files, broker, guest, setting>>

\* The new spec is recorded; delivering the secrets changes nothing here.
WriteSpec(r) ==
    /\ pc[r] = "spec" /\ Return(r, "ok")
    /\ spec' = [ver |-> want[r], binds |-> binds[r]]
    /\ UNCHANGED <<config, made, staged, broker, guest, setting>>

------------------------------------------------------------------------------
(* The broker's SIGHUP loop. *)

\* A signal is taken, the policy file read and made the policy of new flows.
BrPolicy ==
    /\ brPc = "wait" /\ hup = 1 /\ hup' = 0
    /\ brPol' = polFile /\ brPc' = "runtime"
    /\ UNCHANGED <<files, polFile, rtFile, owed, log, brRt, brErr, guest, command, setting>>

\* Mistaken variant: signals that arrive during a reload are taken as handled.
BrRuntimeDrain ==
    /\ brPc = "runtime" /\ brPc' = "event" /\ hup' = 0
    /\ \/ brRt' = rtFile /\ brErr' = "no"
       \/ "runtime" \in setting.faults /\ brRt' = None /\ brErr' = "yes"
    /\ UNCHANGED <<files, polFile, rtFile, owed, log, brPol, guest, command, setting>>

\* ApplyRuntime reconciles the listeners; an entry that cannot start is an error
\* and leaves a runtime that is neither.
BrRuntime ==
    /\ brPc = "runtime" /\ brPc' = "event"
    /\ \/ brRt' = rtFile /\ brErr' = "no"
       \/ "runtime" \in setting.faults /\ brRt' = None /\ brErr' = "yes"
    /\ UNCHANGED <<files, polFile, rtFile, owed, hup, log, brPol, guest, command, setting>>

BrEvent ==
    /\ brPc = "event" /\ brPc' = "wait" /\ brErr' = "no"
    /\ log' = Append(log, IF brErr = "yes" THEN "error" ELSE "ok")
    /\ UNCHANGED <<files, polFile, rtFile, owed, hup, brPol, brRt, guest, command, setting>>

------------------------------------------------------------------------------
(* The guest init. *)

\* poll reads a request it has not applied yet.
Poll ==
    /\ gPc = "poll" /\ request # None
    /\ ~(gReq # None /\ gReq.seq = request.seq)
    /\ gReq' = request /\ gPc' = "ca"
    /\ UNCHANGED <<files, broker, command, request, answer, ca, bound, relays, setting>>

Fail(s) == "guest" \in setting.faults /\ gPc = s /\ gPc' = "failed"

\* apply: the CA bundle, then the snapshots when they differ, ...
SetCABundle ==
    /\ \/ /\ gPc = "ca" /\ ca' = gReq.ver
          /\ gPc' = IF gReq.binds = bound THEN "relays" ELSE "unmount"
       \/ Fail("ca") /\ UNCHANGED ca
    /\ UNCHANGED <<files, broker, command, request, answer, gReq, bound, relays, setting>>

\* ... detached from the last to the first, ...
Unmount ==
    /\ \/ /\ gPc = "unmount" /\ bound # <<>>
          /\ bound' = SubSeq(bound, 1, Len(bound) - 1) /\ UNCHANGED gPc
       \/ /\ gPc = "unmount" /\ bound = <<>> /\ gPc' = "bind" /\ UNCHANGED bound
       \/ /\ Fail("unmount") /\ UNCHANGED bound
    /\ UNCHANGED <<files, broker, command, request, answer, gReq, ca, relays, setting>>

\* ... and bound in order from sources that must be there, ...
BindSnapshot ==
    /\ LET n == Len(bound) + 1 IN
       \/ /\ gPc = "bind" /\ n \in DOMAIN gReq.binds /\ gReq.binds[n][1] \in staged
          /\ bound' = Append(bound, gReq.binds[n]) /\ UNCHANGED gPc
       \/ /\ gPc = "bind" /\ n \in DOMAIN gReq.binds /\ gReq.binds[n][1] \notin staged
          /\ gPc' = "failed" /\ UNCHANGED bound
       \/ /\ gPc = "bind" /\ n \notin DOMAIN gReq.binds /\ gPc' = "relays" /\ UNCHANGED bound
       \/ /\ Fail("bind") /\ UNCHANGED bound
    /\ UNCHANGED <<files, broker, command, request, answer, gReq, ca, relays, setting>>

\* ... then the agent relays and the host port mirrors.
SetRelays ==
    /\ \/ gPc = "relays" /\ relays' = gReq.ver /\ gPc' = "applied"
       \/ Fail("relays") /\ UNCHANGED relays
    /\ UNCHANGED <<files, broker, command, request, answer, gReq, ca, bound, setting>>

\* The answer, with or without an error, carries the request's Seq.
Answer ==
    /\ gPc \in {"applied", "failed"} /\ gPc' = "poll"
    /\ answer' = [seq |-> gReq.seq, error |-> IF gPc = "failed" THEN "yes" ELSE "no"]
    /\ UNCHANGED <<files, broker, command, request, gReq, ca, bound, relays, setting>>

Broker == BrPolicy \/ BrRuntime \/ BrEvent
Guest == Poll \/ SetCABundle \/ Unmount \/ BindSnapshot \/ SetRelays \/ Answer

Next ==
    \/ Edit
    \/ \E r \in Reloader :
         \/ Begin(r) \/ Abandon(r) \/ Clear(r) \/ Stage(r) \/ NoteLog(r) \/ WritePolicy(r)
         \/ WriteBrokerRuntime(r) \/ Signal(r) \/ AwaitBroker(r) \/ AskGuest(r)
         \/ AwaitGuest(r) \/ WriteSpec(r)
    \/ Broker \/ Guest

Spec == Init /\ [][Next]_vars

------------------------------------------------------------------------------
(* Properties. *)

TypeOK ==
    /\ config \in Version /\ made \in Nat /\ staged \subseteq Nat
    /\ spec.ver \in Version /\ spec.binds \in Seq(Bind)
    /\ polFile \in Version /\ rtFile \in Version /\ owed \in {"no", "yes"} /\ hup \in 0 .. 1
    /\ log \in Seq({"ok", "error"})
    /\ brPc \in {"wait", "runtime", "event"} /\ brPol \in Version
    /\ brRt \in Version \cup {None} /\ brErr \in {"no", "yes"}
    /\ request # None => request \in Request
    /\ gReq # None => gReq \in Request
    /\ answer # None => answer \in Reply
    /\ gPc \in GuestSteps /\ (gPc # "poll" => gReq # None)
    /\ ca \in Version /\ relays \in Version /\ bound \in Seq(Bind)
    /\ pc \in [Reloader -> Steps] /\ id \in [Reloader -> Nat] /\ want \in [Reloader -> Version \cup {None}]
    /\ running \in [Reloader -> Seq(Bind)] /\ binds \in [Reloader -> Seq(Bind)]
    /\ offset \in [Reloader -> Nat] /\ last \in {"ok", "failed"}

\* The sources of every snapshot the guest binds are in the share (stageSnapshots
\* keeps "the one the running guest binds"), so that a program that opens a
\* snapshot finds it, whatever a reload in progress does.
BoundIsStaged == BoundGens(bound) \subseteq staged

\* The same, as long as no reload is left by its command after it asked the
\* guest: staging and the broker may fail, at any reload, without a harm to the
\* snapshots in use.
SnapshotsKept ==
    setting.faults \subseteq {"stage", "runtime"} => BoundIsStaged

\* No signal is lost by being merged with one already waiting: once the broker's
\* loop is idle and every writer has signalled, the broker runs the files on disk
\* (a runtime with an entry that failed to start is retried by the next reload).
SignalledIsApplied ==
    brPc = "wait" /\ hup = 0 /\ owed = "no" => brPol = polFile /\ brRt \in {rtFile, None}

\* After a successful reload the recorded spec describes the VM: the guest runs
\* its settings and binds its snapshots, and so does the broker, at the latest
\* after the signals it still holds, whatever earlier reloads that failed, were
\* abandoned or timed out left behind.  Reloads that overlap can break it.
SpecFaithful ==
    "overlap" \notin setting.faults /\ (\A r \in Reloader : pc[r] = "idle") /\ last = "ok" =>
        /\ bound = spec.binds /\ ca = spec.ver /\ relays = spec.ver
        /\ polFile = spec.ver /\ rtFile = spec.ver /\ owed = "no"

\* A reload that went past its wait for the broker was confirmed for its own
\* files, not by an event of an earlier reload, unless one was left before its
\* own event came.
BrokerConfirmed ==
    setting.faults \subseteq {"stage", "runtime", "guest"} => \A r \in Reloader :
        pc[r] \in {"request", "guest", "spec"} => brPol = want[r] /\ brRt = want[r]

\* What a reload reports, records and leaves in the share is true of the broker
\* and the guest, whatever the reloads before it left behind.
ReloadFaithful == SpecFaithful /\ BrokerConfirmed /\ SnapshotsKept
==============================================================================
