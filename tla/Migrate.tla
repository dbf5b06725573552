------------------------------ MODULE Migrate ------------------------------
(***************************************************************************)
(* `jailoc migrate`: a jailoc v1 configuration becomes one for the VM      *)
(* backend.  The Docker volumes of its workspaces are copied into the      *)
(* guest data directories first; then the configuration is backed up and   *)
(* rewritten.  A run may be cut short, or fail, at any step, and can be    *)
(* repeated.  Meanwhile `jailoc up` may start a workspace whose            *)
(* configuration is already valid, and between runs jailoc v1 may run a    *)
(* workspace in Docker.                                                    *)
(*                                                                         *)
(* A configuration is the backend of the defaults and of each workspace,   *)
(* whether v1 settings (mode, password_mode, expose_port) are left in it,  *)
(* and the volumes whose path in the guest a mount covers.                 *)
(***************************************************************************)
EXTENDS Integers

CONSTANTS
    Workspace,
    Volume,     \* Docker volumes of v1 workspaces
    Owner,      \* Owner[v]: the workspace of volume v
    None,
    MaxRuns     \* bound on the runs of a behaviour

VARIABLES
    orig,       \* the configuration before the first run
    cfg,        \* config.toml
    backup,     \* backup[r]: the backup file of run r: what it holds
    volumes,    \* volumes that exist in Docker
    running,    \* workspaces with running containers
    home,       \* home[v]: the guest data directory of v
    tmp,        \* tmp[v]: the .migrating directory beside it
    runs,       \* runs started
    mpc,        \* where the run is
    plan,       \* the rewritten configuration of this run
    names,      \* workspaces this run migrates
    reached,    \* whether this run reached the Docker daemon
    left,       \* volumes this run has yet to copy
    cur         \* the volume being copied

files == <<orig, cfg, backup, home, tmp>>
docker == <<volumes, running>>
run == <<runs, plan, names, reached, left, cur>>
vars == <<files, docker, mpc, run>>

Backends == {"", "vm", "docker"}
Config == [defaults : Backends, ws : [Workspace -> Backends], v1 : {"yes", "no"}, covered : SUBSET Volume]
Steps == {"idle", "ping", "check", "stop", "copy", "export", "install", "stat", "backup", "write", "done"}

\* Mistaken variant: an unset backend counts as the VM backend.
IsDockerExplicit(c, w) == "docker" \in {c.defaults, c.ws[w]}

\* An unset backend meant Docker in v1.
IsDocker(c, w) == (IF c.ws[w] # "" THEN c.ws[w] ELSE c.defaults) # "vm"

\* planMigration: the configuration without backends and v1 settings, and with
\* the mounts the user keeps.
Rewritten(c, covered) ==
    [defaults |-> "vm", ws |-> [w \in Workspace |-> ""], v1 |-> "no", covered |-> covered]

\* Validation of the backends and v1 settings when jailoc loads the file.
Valid(c) == c.v1 = "no" /\ c.defaults # "docker" /\ \A w \in Workspace : c.ws[w] # "docker"

\* migrationVolumes.
Targets(c, ws) == {v \in Volume : Owner[v] \in ws /\ v \notin c.covered}

Init ==
    /\ orig \in Config /\ cfg = orig
    /\ backup = [r \in 1 .. MaxRuns |-> "none"]
    /\ volumes \in SUBSET Volume /\ running \in SUBSET Workspace
    /\ home = [v \in Volume |-> "none"] /\ tmp = [v \in Volume |-> "none"]
    /\ runs = 0 /\ mpc = "idle" /\ plan = orig /\ names = {} /\ reached = "no" /\ left = {} /\ cur = None

------------------------------------------------------------------------------
(* runMigrate. *)

\* The plan is made and confirmed.  Without changes there is nothing to do; a
\* declined question ends the run like Cut.
Begin ==
    /\ mpc \in {"idle", "done"} /\ runs < MaxRuns
    /\ runs' = runs + 1
    /\ names' = {w \in Workspace : IsDocker(cfg, w)}
    /\ \E kept \in SUBSET cfg.covered :
        /\ plan' = Rewritten(cfg, kept)
        /\ mpc' = IF plan' = cfg THEN "idle" ELSE IF names' = {} THEN "stat" ELSE "ping"
    /\ reached' = "no"
    /\ UNCHANGED <<files, docker, left, cur>>

\* The user may go on without Docker.
Ping ==
    /\ mpc = "ping"
    /\ \/ reached' = "yes" /\ mpc' = "check"
       \/ reached' = "no" /\ mpc' = "stat"
    /\ UNCHANGED <<files, docker, runs, plan, names, left, cur>>

CheckRunning ==
    /\ mpc = "check"
    /\ mpc' = IF running \cap names = {} THEN "copy" ELSE "stop"
    /\ left' = Targets(plan, names)
    /\ UNCHANGED <<files, docker, runs, plan, names, reached, cur>>

StopContainers ==
    /\ mpc = "stop"
    /\ \E w \in running \cap names :
        /\ running' = running \ {w}
        /\ mpc' = IF running' \cap names = {} THEN "copy" ELSE "stop"
    /\ UNCHANGED <<files, volumes, run>>

\* migrateVolume: existing VM data stays.
KeepData ==
    /\ mpc = "copy"
    /\ \E v \in left : home[v] # "none" /\ left' = left \ {v}
    /\ UNCHANGED <<files, docker, mpc, runs, plan, names, reached, cur>>

\* A copy left behind by an earlier run is removed.  A volume that does not
\* exist is passed over.
CopyVolume ==
    /\ mpc = "copy"
    /\ \E v \in left :
        /\ home[v] = "none" /\ left' = left \ {v}
        /\ tmp' = [tmp EXCEPT ![v] = IF v \in volumes THEN "part" ELSE "none"]
        /\ \/ v \in volumes /\ cur' = v /\ mpc' = "export"
           \/ v \notin volumes /\ UNCHANGED <<cur, mpc>>
    /\ UNCHANGED <<orig, cfg, backup, home, docker, runs, plan, names, reached>>

\* Mistaken variant: the archive is unpacked where the VM will look for it.
ExportVolumeInPlace ==
    /\ mpc = "export"
    /\ home' = [home EXCEPT ![cur] = "part"] /\ tmp' = [tmp EXCEPT ![cur] = "copy"]
    /\ mpc' = "install"
    /\ UNCHANGED <<orig, cfg, backup, docker, run>>

\* extractTar has unpacked the whole archive, which is a part of the data only
\* if a container of the workspace wrote to the volume meanwhile.
ExportVolume ==
    /\ mpc = "export"
    /\ tmp' = [tmp EXCEPT ![cur] = IF Owner[cur] \in running THEN "part" ELSE "copy"]
    /\ mpc' = "install"
    /\ UNCHANGED <<orig, cfg, backup, home, docker, run>>

\* The rename fails when `jailoc up` has filled the directory meanwhile; the
\* run then ends as in Cut.
InstallVolume ==
    /\ mpc = "install"
    /\ home' = [home EXCEPT ![cur] = tmp[cur]] /\ tmp' = [tmp EXCEPT ![cur] = "none"]
    /\ cur' = None /\ mpc' = "copy"
    /\ UNCHANGED <<orig, cfg, backup, docker, runs, plan, names, reached, left>>

Copied ==
    /\ mpc = "copy" /\ left = {}
    /\ mpc' = "stat"
    /\ UNCHANGED <<files, docker, run>>

\* Mistaken variant: the configuration is replaced before it is backed up.
OpenBackupLate ==
    /\ mpc = "stat"
    /\ cfg' = plan /\ backup' = [backup EXCEPT ![runs] = "part"]
    /\ mpc' = "backup"
    /\ UNCHANGED <<orig, home, tmp, docker, run>>

\* The backup gets a name of its own and is being written.
OpenBackup ==
    /\ mpc = "stat"
    /\ backup' = [backup EXCEPT ![runs] = "part"]
    /\ mpc' = "backup"
    /\ UNCHANGED <<orig, cfg, home, tmp, docker, run>>

\* Mistaken variant: the backup holds the rewritten configuration.
WriteBackupPlan ==
    /\ mpc = "backup"
    /\ backup' = [backup EXCEPT ![runs] = "rewritten"]
    /\ mpc' = "write"
    /\ UNCHANGED <<orig, cfg, home, tmp, docker, run>>

\* The file holds what config.toml held.
WriteBackup ==
    /\ mpc = "backup"
    /\ backup' = [backup EXCEPT ![runs] = IF cfg = orig THEN "original" ELSE "later"]
    /\ mpc' = "write"
    /\ UNCHANGED <<orig, cfg, home, tmp, docker, run>>

\* WriteRaw replaces the file in one step.
WriteConfig ==
    /\ mpc = "write"
    /\ cfg' = plan
    /\ mpc' = "done"
    /\ UNCHANGED <<orig, backup, home, tmp, docker, run>>

\* An error, a declined question or an interrupt ends the run.
Cut ==
    /\ mpc \notin {"idle", "done"}
    /\ mpc' = "idle" /\ reached' = "no" /\ left' = {} /\ cur' = None /\ plan' = cfg /\ names' = {}
    /\ UNCHANGED <<files, docker, runs>>

------------------------------------------------------------------------------
(* The rest of the world. *)

\* `jailoc up` accepts a valid configuration, migrated or not, and makes the
\* persistent directories its agent uses.
Up ==
    /\ Valid(cfg)
    /\ \E v \in Volume \ cfg.covered :
        home[v] = "none" /\ home' = [home EXCEPT ![v] = "fresh"]
    /\ UNCHANGED <<orig, cfg, backup, tmp, docker, mpc, run>>

\* jailoc v1 runs a workspace; nobody uses it while migrate runs.
UpV1 ==
    /\ mpc = "idle"
    /\ \E w \in Workspace \ running :
        running' = running \cup {w} /\ volumes' = volumes \cup {v \in Volume : Owner[v] = w}
    /\ UNCHANGED <<files, mpc, run>>

Next ==
    \/ Begin \/ Ping \/ CheckRunning \/ StopContainers \/ KeepData \/ CopyVolume \/ ExportVolume
    \/ InstallVolume \/ Copied \/ OpenBackup \/ WriteBackup \/ WriteConfig \/ Cut
    \/ Up \/ UpV1

Spec == Init /\ [][Next]_vars

------------------------------------------------------------------------------
(* Properties. *)

\* Every variable has its type.
TypeOK ==
    /\ {orig, cfg, plan} \subseteq Config
    /\ backup \in [1 .. MaxRuns -> {"none", "part", "original", "later"}]
    /\ volumes \subseteq Volume /\ left \subseteq Volume
    /\ running \subseteq Workspace /\ names \subseteq Workspace
    /\ tmp \in [Volume -> {"none", "part", "copy"}]
    /\ home \in [Volume -> {"none", "part", "fresh", "copy"}]
    /\ cur \in Volume \cup {None} /\ runs \in 0 .. MaxRuns /\ mpc \in Steps /\ reached \in {"yes", "no"}

\* The directory a VM will share never holds a part of a volume, wherever a
\* run is cut short: the archive is unpacked beside it and renamed, and no
\* container of its workspace runs while it is made.
WholeData == \A v \in Volume : home[v] # "part"

\* The configuration changes last: a run that reached Docker and rewrote it
\* has brought every existing volume of a workspace whose backend was not
\* "vm", unless a mount covers its path or VM data was there.
VolumesCarried ==
    mpc = "done" /\ reached = "yes" =>
        \A v \in volumes \ cfg.covered :
            home[v] # "none" \/ orig.ws[Owner[v]] = "vm"
            \/ (orig.ws[Owner[v]] = "" /\ orig.defaults = "vm")

\* The configuration the user wrote can be restored from a backup once the
\* file has changed, however many runs were cut short before.
OriginalKept == cfg # orig => \E r \in 1 .. MaxRuns : backup[r] = "original"

\* Wherever a run of migrate is cut short, and whatever the next one finds, no
\* data of the v1 installation is lost or taken for whole when it is not.
MigrationSafe == WholeData /\ VolumesCarried /\ OriginalKept
==============================================================================
