----------------------------- MODULE VMLifecycle -----------------------------
(***************************************************************************)
(* What a vm-supervise process promises the jailoc commands that read its  *)
(* state file: it boots one VM, announces it only while the VM it booted   *)
(* is its responsibility, and does not exit before the VM is gone. Only    *)
(* SIGKILL breaks the last promise. Supervisor implements this             *)
(* specification in full detail and Workspaces uses one supervisor of this *)
(* kind per process ID.                                                    *)
(***************************************************************************)

VARIABLES
    sup,    \* the process: "running", "exited" or "killed"
    vm,     \* its VM: "none", "up" or "gone"
    ready   \* "yes" while the supervisor announces the VM as ready, else "no"

vars == <<sup, vm, ready>>

Init == sup = "running" /\ vm = "none" /\ ready = "no"

\* The supervisor boots its VM.
Boot == sup = "running" /\ vm = "none" /\ vm' = "up" /\ UNCHANGED <<sup, ready>>

\* The VM has booted and the guest answered.
Announce ==
    sup = "running" /\ vm # "none" /\ ready = "no" /\ ready' = "yes" /\ UNCHANGED <<sup, vm>>

\* The VM ends, by itself or because it is stopped.
Halt == vm = "up" /\ vm' = "gone" /\ UNCHANGED <<sup, ready>>

\* The supervisor withdraws the announcement and ends.
Exit ==
    /\ sup = "running" /\ vm # "up"
    /\ sup' = "exited" /\ ready' = "no" /\ UNCHANGED vm

\* SIGKILL: the VM may stay behind. An announcement counts only while the
\* process that made it lives.
Kill == sup = "running" /\ sup' = "killed" /\ ready' = "no" /\ UNCHANGED vm

Next == Boot \/ Announce \/ Halt \/ Exit \/ Kill

Spec == Init /\ [][Next]_vars
==============================================================================
