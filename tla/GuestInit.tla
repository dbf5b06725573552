------------------------------ MODULE GuestInit ------------------------------
(***************************************************************************)
(* jailoc-guest as PID 1 of the VM: Init (guest/init_linux.go), the root   *)
(* file system it switches to (guest/rootfs_linux.go, idmap_linux.go) and  *)
(* the agent's account.  Every step may fail; Init gives up on some, and   *)
(* goes on with a warning, or with other user IDs, on the rest.            *)
(***************************************************************************)
EXTENDS Integers, Sequences, SequencesExt, FiniteSets

CONSTANTS AgentID, HostID, OtherID   \* user IDs: the configured agent's, the host user's, another
CONSTANT None

\* The steps of Init in order.
Steps == <<
    "loadConfig", "Essential", "root", "remountAfterPivot", "hostname", "netcfg", "mtu",
    "configureIPv6", "ip_forward", "ensureAccount", "ownedDir", "mountPrivate", "shares",
    "setSnapshots", "protectPaths", "secretsDirs", "apply", "setupZram", "startExecLog",
    "startOOMGuard", "startDocker", "disablePrivilegeEscalation", "newSSHServer", "Listen">>

\* The ones whose failure is only logged.
Warned == {"hostname", "mtu", "ip_forward", "setupZram", "startExecLog", "startOOMGuard"}

VARIABLES
    guest,     \* guest.Config and the image: see Configs
    at,        \* the step Init is at; one past the last while it serves
    uid,       \* cfg.UID
    mapper,    \* the idmapper of the shares: "none" or "maps"
    shown,     \* the owner under which the agent's home shows the host user's files, or None
    pivot,     \* the root file system: "boot", "new", or "half" when the switch failed late
    account,   \* the account sessions run as: a user ID, or None
    passwd,    \* /etc/passwd: name to user ID
    mounted,   \* steps done that Init does not go on without
    running,   \* what Init started and has to stop
    sessions,  \* whether a session may start
    shutdown,  \* the shutdown file
    result     \* "none", "error" or "shutdown"

vars == <<guest, at, uid, mapper, shown, pivot, account, passwd, mounted, running, sessions, shutdown, result>>

\* root: "share" when the image is shared read-only (RootShare), "copy" otherwise.
\* idmap: whether IDMap is set.  image: who the image's /etc/passwd gives an entry:
\* the configured name, another name with the configured ID, both or neither.
Configs == [
    root : {"share", "copy"}, idmap : {"yes", "no"}, docker : {"yes", "no"}, sealed : {"yes", "no"},
    image : SUBSET {"agent", "other"}]

\* IDMap is set on Linux hosts, whose virtio-fs shows real owners; on macOS files
\* belong to whoever looks (hostIDMap), and shown is None.
Init ==
    /\ guest \in Configs
    /\ at = 1 /\ mapper = "none" /\ pivot = "boot" /\ account = None /\ uid = AgentID
    /\ shown = IF guest.idmap = "yes" THEN HostID ELSE None
    /\ passwd = [n \in guest.image |-> IF n = "agent" THEN OtherID ELSE uid]
    /\ mounted = {} /\ running = {} /\ sessions = "no" /\ shutdown = "no" /\ result = "none"

Serving == at = Len(Steps) + 1 /\ result = "none"

------------------------------------------------------------------------------
(* Leaving Init: the deferred calls stop what was started.  dockerd is stopped *)
(* only on a shutdown.                                                         *)

Leave(r) ==
    /\ result' = r /\ sessions' = "no" /\ mapper' = "none"
    /\ running' = IF r = "shutdown" THEN {} ELSE running \cap {"dockerd"}

Give(why) ==
    /\ Leave(why)
    /\ UNCHANGED <<guest, at, uid, shown, pivot, account, passwd, mounted, shutdown>>

Go(services) ==
    /\ at' = at + 1 /\ mounted' = mounted \cup ({Steps[at]} \ Warned) /\ running' = running \cup services
    /\ UNCHANGED <<guest, shutdown, result>>

\* A step that does not matter to the others.
Plain(services) == Go(services) /\ UNCHANGED <<uid, mapper, shown, pivot, account, passwd, sessions>>

Skip == at' = at + 1 /\ UNCHANGED <<guest, uid, mapper, shown, pivot, account, passwd, mounted, running, sessions, shutdown, result>>

Step(name) == result = "none" /\ at <= Len(Steps) /\ Steps[at] = name

------------------------------------------------------------------------------
(* The root file system. *)

\* Mistaken variant: a kernel that cannot idmap leaves the agent its own ID.
IdmapFailedKept(late) ==
    /\ pivot' = IF late THEN "half" ELSE IF guest.root = "share" THEN "new" ELSE "boot"
    /\ shown' = IF late THEN AgentID ELSE HostID
    /\ UNCHANGED <<uid, mapper>>

\* The fallback of Init and of overlayRoot: the agent takes the host user's ID.
\* idmapRoot may fail after the switch to the idmapped root ("late").
IdmapFailed(late) ==
    /\ uid' = HostID /\ UNCHANGED mapper
    /\ pivot' = IF late THEN "half" ELSE IF guest.root = "share" THEN "new" ELSE "boot"
    /\ shown' = IF late THEN AgentID ELSE HostID

\* idmapRoot, or overlayRoot with idmappedLayers.
Idmapped == mapper' = "maps" /\ shown' = AgentID /\ pivot' = "new" /\ UNCHANGED uid

Root ==
    /\ Step("root")
    /\ \/ /\ guest.idmap = "no"
          /\ pivot' = IF guest.root = "share" THEN "new" ELSE pivot
          /\ UNCHANGED <<uid, mapper, shown>>
       \/ guest.idmap = "yes" /\ Idmapped
       \/ guest.idmap = "yes" /\ IdmapFailed(FALSE)
       \/ guest.idmap = "yes" /\ guest.root = "copy" /\ IdmapFailed(TRUE)
    /\ Go({}) /\ UNCHANGED <<account, passwd, sessions>>

\* overlayRoot fails when the overlay cannot be mounted or switched to.
RootFails == Step("root") /\ guest.root = "share" /\ Give("error")

\* remountAfterPivot, only on a new root.
Remount == Step("remountAfterPivot") /\ pivot = "new" /\ (Plain({}) \/ Give("error"))
NoRemount == Step("remountAfterPivot") /\ pivot # "new" /\ Skip

------------------------------------------------------------------------------
(* The account. *)

\* ensureAccount: an entry with the ID, or the entry of that name renumbered
\* (renumberAccount), or a new one.
EnsureAccount ==
    IF \E n \in DOMAIN passwd : passwd[n] = uid
    THEN account' = uid /\ UNCHANGED passwd
    ELSE /\ passwd' = [n \in DOMAIN passwd \cup {"agent"} |-> IF n = "agent" THEN uid ELSE passwd[n]]
         /\ account' = uid

Account ==
    /\ Step("ensureAccount")
    /\ \/ EnsureAccount /\ Go({}) /\ UNCHANGED <<uid, mapper, shown, pivot, sessions>>
       \/ Give("error")

------------------------------------------------------------------------------
(* The other steps. *)

\* The clock is synchronised from here on; memory is given back from setupZram on.
Services(name) ==
    CASE name = "ip_forward" -> {"startClockSync"}
      [] name = "setupZram" -> {"startReclaim"}
      [] name \in {"startExecLog", "startOOMGuard"} -> {name}
      [] name = "startDocker" -> {"dockerd"}
      [] name = "Listen" -> {"reaper"}
      [] OTHER -> {}

Wanted(name) ==
    /\ name = "startDocker" => guest.docker = "yes"
    /\ name = "disablePrivilegeEscalation" => guest.sealed = "yes"
    /\ name = "protectPaths" => guest.sealed = "yes"

Special == {"root", "remountAfterPivot", "ensureAccount", "Listen"}

Run(name) == name \notin Special /\ Step(name) /\ Wanted(name) /\ Plain(Services(name))
Unwanted(name) == Step(name) /\ ~Wanted(name) /\ Skip

Fails(name) ==
    /\ name \notin {"root", "remountAfterPivot", "ensureAccount"} /\ Step(name) /\ Wanted(name)
    /\ IF name \in Warned
       THEN /\ at' = at + 1 /\ running' = running \cup (Services(name) \ {"startExecLog", "startOOMGuard"})
            /\ UNCHANGED <<guest, uid, mapper, shown, pivot, account, passwd, mounted, sessions, shutdown, result>>
       ELSE Give("error")

\* Listen and Serve.
Serve ==
    /\ Step("Listen") /\ Go(Services("Listen")) /\ sessions' = "yes"
    /\ UNCHANGED <<uid, mapper, shown, pivot, account, passwd>>

\* The host writes the shutdown file.
AskShutdown ==
    /\ shutdown = "no" /\ result = "none" /\ shutdown' = "yes"
    /\ UNCHANGED <<guest, at, uid, mapper, shown, pivot, account, passwd, mounted, running, sessions, result>>

\* The poll loop sees it: the server is closed, dockerd stopped, the disks synced.
Shutdown ==
    /\ Serving /\ shutdown = "yes" /\ Give("shutdown")

Next ==
    \/ Root \/ RootFails \/ Remount \/ NoRemount \/ Account \/ Serve \/ AskShutdown \/ Shutdown
    \/ \E n \in ToSet(Steps) : Run(n) \/ Unwanted(n) \/ Fails(n)

Spec == Init /\ [][Next]_vars

------------------------------------------------------------------------------
(* Properties. *)

\* Every variable has its type.
TypeOK ==
    /\ guest \in Configs /\ at \in 1 .. Len(Steps) + 1 /\ uid \in {AgentID, HostID}
    /\ mapper \in {"none", "maps"} /\ pivot \in {"boot", "new", "half"} /\ result \in {"none", "error", "shutdown"}

\* While sessions can start, the account they run as owns the agent's files, both
\* in its home and on the shares, whether or not the kernel can idmap; there is one
\* entry of that ID to name it; and what the configuration asks for to protect
\* the shares is in place.  idmapRoot failing after the switch is left out.
SessionsOwnTheirFiles ==
    sessions = "yes" /\ pivot # "half" =>
        /\ shown # None => account = shown
        /\ guest.idmap = "yes" => account = (IF mapper = "maps" THEN AgentID ELSE HostID)
        /\ Cardinality({n \in DOMAIN passwd : passwd[n] = account}) = 1
        /\ guest.sealed = "yes" => {"protectPaths", "disablePrivilegeEscalation"} \subseteq mounted
        /\ {"shares", "mountPrivate", "secretsDirs"} \subseteq mounted
==============================================================================
