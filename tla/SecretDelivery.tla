--------------------------- MODULE SecretDelivery ----------------------------
(***************************************************************************)
(* How the environment and the secrets of a workspace get into its running *)
(* VM: secretsPayload, deliverSecrets and ensureSecrets on the host        *)
(* (cmd/vmflow_unix.go), WriteSecrets and writeAtomic in the guest         *)
(* (guest/init_linux.go).  A session and a reload may deliver at the same  *)
(* time; a delivery may lose its connection, and its guest process then    *)
(* runs on.                                                                *)
(***************************************************************************)
EXTENDS Integers, FiniteSets

CONSTANTS
    Delivery,   \* deliveries, one per host command
    Name,       \* names of file secrets
    MaxEdits,   \* bound on the changes of the configuration
    None

VARIABLES
    config,    \* the configured secrets: see Payload
    edits,     \* changes so far
    load,      \* payload of each delivery
    names,     \* file names its guest process still has to write, or to remove
    dpc,       \* guest process of each delivery
    client,    \* host command of each delivery: "idle", "waits", "lost", "done"
    files,     \* SecretsDir: name to the version of the value
    env,       \* the version in EnvFile
    marker,    \* secretsMarker
    alone,     \* history: deliveries no other overlapped
    settled    \* history: the payload of the latest such delivery, while nothing was delivered after it

vars == <<config, edits, load, names, dpc, client, files, env, marker, alone, settled>>

\* A configuration: which file secrets there are, and the version of the values.
Payload == [version : 0 .. MaxEdits, keep : SUBSET Name]

Init ==
    /\ config \in [version : {0}, keep : SUBSET Name] /\ edits = 0
    /\ load = [d \in Delivery |-> None] /\ names = [d \in Delivery |-> {}]
    /\ dpc = [d \in Delivery |-> "off"] /\ client = [d \in Delivery |-> "idle"]
    /\ files = [n \in Name |-> None] /\ env = None /\ marker = "no"
    /\ alone = {} /\ settled = None

Edit ==
    /\ edits < MaxEdits /\ edits' = edits + 1
    /\ \E keep \in SUBSET Name : config' = [version |-> edits + 1, keep |-> keep]
    /\ UNCHANGED <<load, names, dpc, client, files, env, marker, alone, settled>>

Active == {d \in Delivery : dpc[d] # "off"}

\* secretsPayload; ensureSecrets delivers only while there is no marker.
Read(d, ensure) ==
    /\ client[d] = "idle" /\ load[d] = None
    /\ ensure => marker = "no"
    /\ load' = [load EXCEPT ![d] = config]
    /\ UNCHANGED <<config, edits, names, dpc, client, files, env, marker, alone, settled>>

\* The guest's `secrets` command starts.
Run(d) ==
    /\ client[d] = "idle" /\ load[d] # None
    /\ client' = [client EXCEPT ![d] = "waits"] /\ dpc' = [dpc EXCEPT ![d] = "files"]
    /\ names' = [names EXCEPT ![d] = load[d].keep]
    /\ alone' = {e \in {d} : Active = {}} /\ settled' = None
    /\ UNCHANGED <<config, edits, load, files, env, marker>>

\* The command fails in the host's eyes; the guest process goes on.
Lose(d) ==
    /\ client[d] = "waits" /\ client' = [client EXCEPT ![d] = "lost"]
    /\ UNCHANGED <<config, edits, load, names, dpc, files, env, marker, alone, settled>>

\* writeAtomic of one file, in any order.
WriteFile(d, n) ==
    /\ dpc[d] = "files" /\ n \in names[d]
    /\ names' = [names EXCEPT ![d] = @ \ {n}] /\ files' = [files EXCEPT ![n] = load[d].version]
    /\ UNCHANGED <<config, edits, load, dpc, client, env, marker, alone, settled>>

\* Mistaken variant: secrets that are no longer configured stay.
ListKept(d) ==
    /\ dpc[d] = "files" /\ names[d] = {}
    /\ dpc' = [dpc EXCEPT ![d] = "remove"] /\ names' = names
    /\ UNCHANGED <<config, edits, load, client, files, env, marker, alone, settled>>

\* ReadDir, and the files that are not in the payload.
List(d) ==
    /\ dpc[d] = "files" /\ names[d] = {}
    /\ dpc' = [dpc EXCEPT ![d] = "remove"]
    /\ names' = [names EXCEPT ![d] = {n \in Name : files[n] # None} \ load[d].keep]
    /\ UNCHANGED <<config, edits, load, client, files, env, marker, alone, settled>>

Remove(d, n) ==
    /\ dpc[d] = "remove" /\ n \in names[d]
    /\ names' = [names EXCEPT ![d] = @ \ {n}] /\ files' = [files EXCEPT ![n] = None]
    /\ UNCHANGED <<config, edits, load, dpc, client, env, marker, alone, settled>>

\* EnvFile, last.
WriteEnv(d) ==
    /\ dpc[d] = "remove" /\ names[d] = {}
    /\ env' = load[d].version /\ dpc' = [dpc EXCEPT ![d] = "written"]
    /\ UNCHANGED <<config, edits, load, names, client, files, marker, alone, settled>>

End(d) ==
    /\ load' = [load EXCEPT ![d] = None] /\ dpc' = [dpc EXCEPT ![d] = "off"] /\ names' = [names EXCEPT ![d] = {}]
    /\ alone' = alone \ {d}

\* The guest process is done; a host command that still waits records the delivery.
Done(d) ==
    /\ dpc[d] = "written" /\ End(d)
    /\ settled' = IF d \in alone THEN load[d] ELSE settled
    /\ \/ client[d] = "waits" /\ client' = [client EXCEPT ![d] = "done"] /\ marker' = "yes"
       \/ client[d] = "lost" /\ UNCHANGED <<client, marker>>
    /\ UNCHANGED <<config, edits, files, env>>

\* A write fails: WriteSecrets returns where it is.
Fail(d) ==
    /\ dpc[d] \in {"files", "remove"} /\ End(d)
    /\ client' = [client EXCEPT ![d] = "lost"]
    /\ UNCHANGED <<config, edits, files, env, marker, settled>>

Next ==
    \/ Edit
    \/ \E d \in Delivery :
        \/ Read(d, TRUE) \/ Read(d, FALSE) \/ Run(d) \/ Lose(d) \/ List(d) \/ WriteEnv(d) \/ Done(d) \/ Fail(d)
        \/ \E n \in Name : WriteFile(d, n) \/ Remove(d, n)

Spec == Init /\ [][Next]_vars

------------------------------------------------------------------------------
(* Properties. *)

\* Every variable has its type.
TypeOK ==
    /\ config \in Payload /\ \A d \in Delivery : load[d] \in Payload \cup {None} /\ names[d] \subseteq Name
    /\ \A d \in Delivery : dpc[d] \in {"off", "files", "remove", "written"} /\ client[d] \in {"idle", "waits", "lost", "done"}
    /\ marker \in {"yes", "no"}

\* A delivery that no other overlapped leaves exactly its payload in the guest,
\* whatever earlier deliveries, complete or cut off, left there: every configured
\* file with its value, no other file, and the environment of the same payload.
DeliveredWhole ==
    settled # None =>
        /\ env = settled.version
        /\ \A n \in Name : files[n] = IF n \in settled.keep THEN settled.version ELSE None
==============================================================================
