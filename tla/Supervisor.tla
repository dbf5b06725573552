----------------------------- MODULE Supervisor ------------------------------
(***************************************************************************)
(* One vm-supervise process (internal/vm/vm.go Run, internal/brokerproc):  *)
(* it starts the network broker, boots the VM, waits for the NIC and the   *)
(* guest, announces the VM as ready, and keeps broker and VM together      *)
(* until a SIGTERM or the end of either.                                   *)
(*                                                                         *)
(* The broker, the VM and the guest init are processes of their own: each  *)
(* may end at any moment, between any two steps of the supervisor. Timeouts*)
(* may fire as soon as their wait has begun.                               *)
(***************************************************************************)

VARIABLES
    pc,       \* where Run is
    ctx,      \* "cancelled" once SIGTERM arrived, else "live"
    reason,   \* why Run returns: "none" yet, "shutdown" (no error), "failed"
    broker,   \* the broker process: "none", "up", "exited"
    status,   \* status lines read from the broker: the closed channels of Process
    vm,       \* the VMM process: "none", "up", "gone"
    request,  \* "yes" once the control directory holds the shutdown request
    file      \* state.json: "none", "booting", "ready", "stopped", "failed"

vars == <<pc, ctx, reason, broker, status, vm, request, file>>

Lines == {"ready", "nic connected", "nic disconnected"}

\* Steps of Run that tear the VM and the broker down.
Ending == {"askGuest", "guestWait", "stopVM", "stopBroker", "brokerGrace", "record"}
Steps == {"prepare", "broker", "brokerWait", "boot", "waitNIC", "waitGuest",
          "publish", "supervise"} \cup Ending \cup {"exited", "killed"}

TypeOK ==
    /\ pc \in Steps
    /\ ctx \in {"live", "cancelled"}
    /\ reason \in {"none", "shutdown", "failed"}
    /\ broker \in {"none", "up", "exited"}
    /\ status \subseteq Lines
    /\ vm \in {"none", "up", "gone"}
    /\ request \in {"yes", "no"}
    /\ file \in {"none", "booting", "ready", "stopped", "failed"}

\* startSupervisor removed any earlier state file before it started the process;
\* the control directory may still hold the shutdown request of the last boot.
Init ==
    /\ pc = "prepare" /\ ctx = "live" /\ reason = "none"
    /\ broker = "none" /\ status = {} /\ vm = "none"
    /\ request \in {"yes", "no"} /\ file = "none"

Goto(step) == pc' = step
Fail(step) == pc' = step /\ reason' = "failed"

------------------------------------------------------------------------------
(* Starting up. *)

\* Mistaken variant: the control directory of the last boot is kept.
PrepareKeepControl ==
    /\ pc = "prepare"
    /\ \/ Goto("broker") /\ file' = "booting" /\ UNCHANGED reason
       \/ Fail("record") /\ file' \in {"none", "booting"}
    /\ UNCHANGED <<ctx, broker, status, vm, request>>

\* The state file, the disk, the guest files, the empty control directory, the
\* policy and the runtime file. Each may fail; only the first is before the
\* state file exists.
Prepare ==
    /\ pc = "prepare"
    /\ \/ Goto("broker") /\ file' = "booting" /\ request' = "no" /\ UNCHANGED reason
       \/ Fail("record") /\ file' \in {"none", "booting"} /\ request' \in {request, "no"}
    /\ UNCHANGED <<ctx, broker, status, vm>>

\* Start launches the broker process.
StartBroker ==
    /\ pc = "broker"
    /\ \/ Goto("brokerWait") /\ broker' = "up" /\ UNCHANGED reason
       \/ Fail("record") /\ UNCHANGED broker
    /\ UNCHANGED <<ctx, status, vm, request, file>>

\* Start's select: the ready line, the exit of the broker, or the timer and a
\* cancelled context, which stop the broker. When several hold any may be taken.
BrokerWait ==
    /\ pc = "brokerWait"
    /\ \/ "ready" \in status /\ Goto("boot") /\ UNCHANGED reason
       \/ broker = "exited" /\ Fail("record")
       \/ Fail("stopBroker")
    /\ UNCHANGED <<ctx, broker, status, vm, request, file>>

\* microvm.Run. On failure the VM is not running and the broker is stopped.
Boot ==
    /\ pc = "boot"
    /\ \/ Goto("waitNIC") /\ vm' = "up" /\ UNCHANGED reason
       \/ Fail("stopBroker") /\ UNCHANGED vm
    /\ UNCHANGED <<ctx, broker, status, request, file>>

\* WaitNIC; on the broker's exit, the timeout or a cancelled context both are
\* stopped (stopBoth, which does not ask the guest first).
WaitNIC ==
    /\ pc = "waitNIC"
    /\ \/ "nic connected" \in status /\ Goto("waitGuest") /\ UNCHANGED reason
       \/ Fail("stopVM")
    /\ UNCHANGED <<ctx, broker, status, vm, request, file>>

\* waitSSH or waitDocker: an answer comes through the broker from the guest.
WaitGuest ==
    /\ pc = "waitGuest"
    /\ \/ vm = "up" /\ broker = "up" /\ Goto("publish") /\ UNCHANGED reason
       \/ Fail("stopVM")
    /\ UNCHANGED <<ctx, broker, status, vm, request, file>>

Publish ==
    /\ pc = "publish"
    /\ \/ Goto("supervise") /\ file' = "ready" /\ UNCHANGED reason
       \/ Fail("stopVM") /\ UNCHANGED file
    /\ UNCHANGED <<ctx, broker, status, vm, request>>

------------------------------------------------------------------------------
(* Supervising and stopping. *)

\* Mistaken variant: the end of the broker goes unnoticed.
SuperviseVMOnly ==
    /\ pc = "supervise"
    /\ \/ ctx = "cancelled" /\ reason' = "shutdown" /\ Goto("askGuest")
       \/ vm = "gone" /\ Fail("stopBroker")
    /\ UNCHANGED <<ctx, broker, status, vm, request, file>>

\* Mistaken variant: Supervise does not watch its context.
SuperviseForever ==
    /\ pc = "supervise"
    /\ \/ broker = "exited" /\ Fail("askGuest")
       \/ "nic disconnected" \in status /\ Fail("askGuest")
       \/ vm = "gone" /\ Fail("stopBroker")
    /\ UNCHANGED <<ctx, broker, status, vm, request, file>>

\* Supervise's select. A VM that exited leaves only the broker to stop, a broker
\* that exited leaves only the VM: stopping an exited broker returns at once.
Supervise ==
    /\ pc = "supervise"
    /\ \/ ctx = "cancelled" /\ reason' = "shutdown" /\ Goto("askGuest")
       \/ broker = "exited" /\ Fail("askGuest")
       \/ "nic disconnected" \in status /\ Fail("askGuest")
       \/ vm = "gone" /\ Fail("stopBroker")
    /\ UNCHANGED <<ctx, broker, status, vm, request, file>>

\* Mistaken variant: the announcement is withdrawn before the VM has stopped.
AskGuestWithdraw ==
    /\ pc = "askGuest"
    /\ \/ vm = "up" /\ request' = "yes" /\ Goto("guestWait")
       \/ Goto("stopVM") /\ UNCHANGED request
    /\ file' = "booting"
    /\ UNCHANGED <<ctx, reason, broker, status, vm>>

\* vmHandle.Stop: a living VM is asked to shut down through the control share;
\* when the request cannot be written it is stopped hard.
AskGuest ==
    /\ pc = "askGuest"
    /\ \/ vm = "up" /\ request' = "yes" /\ Goto("guestWait")
       \/ Goto("stopVM") /\ UNCHANGED request
    /\ UNCHANGED <<ctx, reason, broker, status, vm, file>>

\* Up to guestShutdownWait for the guest init.
GuestWait == pc = "guestWait" /\ Goto("stopVM") /\ UNCHANGED <<ctx, reason, broker, status, vm, request, file>>

\* microvm's Stop ends the VMM process.
StopVM ==
    /\ pc = "stopVM" /\ vm' = "gone" /\ Goto("stopBroker")
    /\ UNCHANGED <<ctx, reason, broker, status, request, file>>

\* Mistaken variant: the broker is told to stop and not waited for.
StopBrokerAsync ==
    /\ pc = "stopBroker" /\ Goto("record")
    /\ UNCHANGED <<ctx, reason, broker, status, vm, request, file>>

\* Process.Stop: SIGTERM unless the broker has exited.
StopBroker ==
    /\ pc = "stopBroker"
    /\ Goto(IF broker = "exited" THEN "record" ELSE "brokerGrace")
    /\ UNCHANGED <<ctx, reason, broker, status, vm, request, file>>

\* The broker exits within the grace period or is killed; Stop waits for it.
BrokerGrace ==
    /\ pc = "brokerGrace" /\ broker' = "exited" /\ Goto("record")
    /\ UNCHANGED <<ctx, reason, status, vm, request, file>>

\* Mistaken variant: a value is written that no reader knows.
RecordNull ==
    /\ pc = "record" /\ Goto("exited") /\ file' = "null"
    /\ UNCHANGED <<ctx, reason, broker, status, vm, request>>

\* The deferred write of the final state, whose error is dropped: the file then
\* keeps what it said.
Record ==
    /\ pc = "record" /\ Goto("exited")
    /\ \/ file' = IF reason = "failed" THEN "failed" ELSE "stopped"
       \/ UNCHANGED file
    /\ UNCHANGED <<ctx, reason, broker, status, vm, request>>

Run ==
    \/ Prepare \/ StartBroker \/ BrokerWait \/ Boot \/ WaitNIC \/ WaitGuest \/ Publish
    \/ Supervise \/ AskGuest \/ GuestWait \/ StopVM \/ StopBroker \/ BrokerGrace \/ Record

------------------------------------------------------------------------------
(* The other processes. *)

Alive == pc \notin {"exited", "killed"}

Terminate == Alive /\ ctx = "live" /\ ctx' = "cancelled"
             /\ UNCHANGED <<pc, reason, broker, status, vm, request, file>>

\* SIGKILL, from stopSupervisor after its timeout or from the host.
Killed == Alive /\ Goto("killed") /\ UNCHANGED <<ctx, reason, broker, status, vm, request, file>>

\* The broker reports that it serves the NIC socket, that the VMM connected, and
\* that the connection ended.
BrokerReports(line) ==
    /\ broker = "up" /\ line \notin status
    /\ line = "nic connected" => vm = "up" /\ "ready" \in status
    /\ line = "nic disconnected" => "nic connected" \in status
    /\ status' = status \cup {line}
    /\ UNCHANGED <<pc, ctx, reason, broker, vm, request, file>>

BrokerExits == broker = "up" /\ broker' = "exited"
               /\ UNCHANGED <<pc, ctx, reason, status, vm, request, file>>

\* The VM ends: the guest init obeys the request, the guest powers off, or the
\* VMM crashes.
VMEnds == vm = "up" /\ vm' = "gone" /\ UNCHANGED <<pc, ctx, reason, broker, status, request, file>>

Next ==
    \/ Run \/ Terminate \/ Killed \/ BrokerExits \/ VMEnds
    \/ \E line \in Lines : BrokerReports(line)

Spec == Init /\ [][Next]_vars

\* Every wait of Run ends by a timer of its own, so the process keeps taking steps.
Fairness == WF_vars(Run)

------------------------------------------------------------------------------
(* Properties. *)

\* A supervisor that ends by itself leaves neither a VM nor a broker behind,
\* whichever step failed (Run, brokerproc.Start, stopBoth, Supervise).
NothingLeftBehind == pc = "exited" => vm # "up" /\ broker # "up"

\* Until it is being stopped, a VM finds no shutdown request in its control
\* directory, not even one that an earlier boot left behind (resetControl).
NoStaleRequest ==
    pc \in {"waitNIC", "waitGuest", "publish", "supervise"} => request = "no"

\* A boot starts clean and leaves nothing running: both of the above.
CleanBoot == NothingLeftBehind /\ NoStaleRequest

\* When the broker ends, the VM is stopped, unless the supervisor itself is
\* killed (architecture: "A workspace never runs without its broker").
VMFollowsBroker == broker = "exited" ~> vm # "up" \/ pc = "killed"

\* SIGTERM ends the supervisor, with its VM and its broker.
TermEnds == ctx = "cancelled" ~> ~Alive

\* The supervisor ends when its broker or a signal says so: both of the above.
SupervisorEnds == VMFollowsBroker /\ TermEnds

\* The lifecycle the jailoc commands rely on. The announcement ends with the
\* process even when the last write of the state file fails.
Lifecycle == INSTANCE VMLifecycle WITH
    sup <- IF Alive THEN "running" ELSE pc,
    ready <- IF file = "ready" /\ Alive THEN "yes" ELSE "no"

\* The supervisor implements VMLifecycle.
ImplementsLifecycle == Lifecycle!Spec
==============================================================================
