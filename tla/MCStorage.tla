------------------------------ MODULE MCStorage ------------------------------
(***************************************************************************)
(* What jailoc keeps, one store at a time: `part` chooses the secret cache *)
(* (SecretCache), the migration of a v1 installation (Migrate), the images *)
(* (ImageCache), the files of the workspaces as the commands use them      *)
(* (Workspaces) or the secrets in a VM (SecretDelivery); the others rest.  *)
(***************************************************************************)
EXTENDS SecretCache, TLC

CONSTANTS
    Workspace, Volume, Owner, MaxRuns, Image, w1, w2, data1, data2, p1, p2, i1, i2,
    Profile, Command, MaxPID, Interrupts,
    Delivery, Name, MaxEdits

\* Names are apart from None; a volume belongs to a workspace.
ASSUME StorageAssumption ==
    /\ None \notin Workspace \cup Image \cup Volume
    /\ Owner \in [Volume -> Workspace] /\ MaxRuns \in Nat

VARIABLES part,
    orig, cfg, backup, volumes, running, home, tmp, runs, mpc, plan, names, reached, left, cur,
    daemon, recorded, cache, spec, vm, shared, exclusive, up, img, unpacked, keep,
    cpc, op, ws, prof, saw, after, file, vmSpec, marker, sock, owner, claims, life, vms, of, uses, got,
    config, edits, load, unwritten, dpc, client, files, env, delivered, alone, settled

V1 == INSTANCE Migrate
Images == INSTANCE ImageCache
Cmds == INSTANCE Workspaces WITH pc <- cpc, spec <- vmSpec, lock <- claims, vm <- vms
Secrets == INSTANCE SecretDelivery WITH names <- unwritten, marker <- delivered

secretVars == <<now, gen, keyring, index, indexDies, lock, pc, acct, snap, since, expires, pending, err, evicted>>
migrateVars == <<orig, cfg, backup, volumes, running, home, tmp, runs, mpc, plan, names, reached, left, cur>>
imageVars == <<daemon, recorded, cache, spec, vm, shared, exclusive, up, img, unpacked, keep>>
commandVars == <<cpc, op, ws, prof, saw, after, file, vmSpec, marker, sock, owner, claims, life, vms, of, uses, got>>
deliveryVars == <<config, edits, load, unwritten, dpc, client, files, env, delivered, alone, settled>>

TwoOwners == data1 :> w1 @@ data2 :> w2

\* Two processes change places, two workspaces with their volumes and two
\* images: all at once, since only one store changes.
Swapped == [x \in {p1, p2} |-> IF x = p1 THEN p2 ELSE p1] @@ [x \in {w1, w2} |-> IF x = w1 THEN w2 ELSE w1]
           @@ [x \in {data1, data2} |-> IF x = data1 THEN data2 ELSE data1]
           @@ [x \in {i1, i2} |-> IF x = i1 THEN i2 ELSE i1]
Symmetry == Permutations(Account) \cup {Swapped}

\* A store that has several initial states has none while another changes.
NoMigrate ==
    /\ orig = None /\ cfg = None /\ backup = None /\ volumes = None /\ running = None /\ home = None /\ tmp = None
    /\ runs = None /\ mpc = None /\ plan = None /\ names = None /\ reached = None /\ left = None /\ cur = None
NoImages ==
    /\ daemon = None /\ recorded = None /\ cache = None /\ spec = None /\ vm = None /\ shared = None
    /\ exclusive = None /\ up = None /\ img = None /\ unpacked = None /\ keep = None
NoDelivery ==
    /\ config = None /\ edits = None /\ load = None /\ unwritten = None /\ dpc = None /\ client = None
    /\ files = None /\ env = None /\ delivered = None /\ alone = None /\ settled = None

MCInit ==
    /\ part \in {"secrets", "migrate", "images", "workspaces", "delivery"}
    /\ Init /\ Cmds!Init
    /\ IF part = "migrate" THEN V1!Init ELSE NoMigrate
    /\ IF part = "images" THEN Images!Init ELSE NoImages
    /\ IF part = "delivery" THEN Secrets!Init ELSE NoDelivery

MCNext ==
    /\ UNCHANGED part
    /\ \/ part = "secrets" /\ Next /\ UNCHANGED <<migrateVars, imageVars, commandVars, deliveryVars>>
       \/ part = "migrate" /\ V1!Next /\ UNCHANGED <<secretVars, imageVars, commandVars, deliveryVars>>
       \/ part = "images" /\ Images!Next /\ UNCHANGED <<secretVars, migrateVars, commandVars, deliveryVars>>
       \/ part = "workspaces" /\ Cmds!Next /\ UNCHANGED <<secretVars, migrateVars, imageVars, deliveryVars>>
       \/ part = "delivery" /\ Secrets!Next /\ UNCHANGED <<secretVars, migrateVars, imageVars, commandVars>>

MCSpec == MCInit /\ [][MCNext]_<<part, secretVars, migrateVars, imageVars, commandVars, deliveryVars>>

\* Every variable of the part that moves has its type.
MCTypeOK ==
    /\ part = "secrets" => TypeOK
    /\ part = "migrate" => V1!TypeOK
    /\ part = "images" => Images!TypeOK
    /\ part = "delivery" => Secrets!TypeOK
    /\ part = "workspaces" => Cmds!TypeOK

\* Migrate: no run loses data of a v1 installation or leaves a part of it where
\* a VM would take it for the whole.
MigrationSafe == part = "migrate" => V1!MigrationSafe

\* ImageCache: the images an up resolved or unpacked outlast its need of them.
ImagesStay == part = "images" => Images!ImagesStay

\* claimProfile: two VMs never run on one named profile.
ProfileExclusive == part = "workspaces" => Cmds!ProfileExclusive

\* What jailoc recorded about a workspace is true of its running VM.
FilesFaithful == part = "workspaces" => Cmds!FilesFaithful

\* The supervisors the commands start and stop go through the lifecycle.
SupervisorsImplementLifecycle == Cmds!SupervisorsImplementLifecycle

\* deliverSecrets: a delivery leaves exactly the secrets of its payload.
DeliveredWhole == part = "delivery" => Secrets!DeliveredWhole
==============================================================================
