----------------------------- MODULE ImageCache -----------------------------
(***************************************************************************)
(* The images of workspaces: `jailoc up` builds one with Docker, unpacks   *)
(* it into the VM image cache, prunes both stores, writes the spec that    *)
(* names it and starts the VM, whose root file system is the unpacked      *)
(* image (cmd/vmflow_unix.go, vm/image.go, vm/prune.go, docker/prune.go).  *)
(* One up per workspace, any number at once.  They meet at the lock on     *)
(* Docker's images, which every up holds shared, and exclusively to prune, *)
(* and at the one on the image cache: what is done under the latter is one *)
(* step here.                                                              *)
(*                                                                         *)
(* An entry is young for an hour.  An up does not take that long from      *)
(* importing its image to writing its spec (Hour).                         *)
(***************************************************************************)
EXTENDS Integers, FiniteSets

CONSTANTS Workspace, Image, None

VARIABLES
    daemon,     \* daemon[i]: image i in the Docker daemon: "none", "young" or "old"
    recorded,   \* docker-images.json of each workspace: image IDs
    cache,      \* cache[i]: image i in the VM image cache: "none", "young" or "old"
    spec,       \* spec.json of each workspace: the image it names, or None
    vm,         \* the image each workspace's VM runs from, or None
    shared,     \* holders of the shared lock on Docker's images
    exclusive,  \* its exclusive holder
    up,         \* where the up of each workspace is
    img,        \* the image it uses
    unpacked,   \* whether it, or the up that started the VM, unpacked the image
                \* ("yes") or found it in the cache ("no")
    keep        \* the images pruning will keep

stores == <<daemon, recorded, cache, spec, vm>>
locks == <<shared, exclusive>>
locals == <<img, unpacked, keep>>
vars == <<stores, locks, up, locals>>

Init ==
    /\ daemon = [i \in Image |-> "none"] /\ recorded = [w \in Workspace |-> {}]
    /\ cache = [i \in Image |-> "none"] /\ spec = [w \in Workspace |-> None]
    /\ vm = [w \in Workspace |-> None]
    /\ shared = {} /\ exclusive = None
    /\ up = [w \in Workspace |-> "idle"] /\ img = [w \in Workspace |-> None]
    /\ unpacked = [w \in Workspace |-> "no"] /\ keep = [w \in Workspace |-> {}]

Goto(w, s) == up' = [up EXCEPT ![w] = s]
Free(holder, w) == IF holder = w THEN None ELSE holder

------------------------------------------------------------------------------
(* buildWorkspaceImage and importWorkspaceImage. *)

\* Mistaken variant: the images are locked once one is built.
LockImagesLate(w) ==
    /\ up[w] = "idle" /\ vm[w] = None /\ Goto(w, "build")
    /\ UNCHANGED <<stores, locks, locals>>

\* lockDockerImages.
LockImages(w) ==
    /\ up[w] = "idle" /\ vm[w] = None /\ exclusive = None
    /\ shared' = shared \cup {w} /\ Goto(w, "build")
    /\ UNCHANGED <<stores, exclusive, locals>>

\* ResolveAndLayerImage: an unchanged image is found, another is built.
Build(w) ==
    /\ up[w] = "build" /\ Goto(w, "import")
    /\ \E i \in Image :
        /\ img' = [img EXCEPT ![w] = i]
        /\ daemon' = [daemon EXCEPT ![i] = IF @ = "none" THEN "young" ELSE @]
    /\ UNCHANGED <<recorded, cache, spec, vm, locks, unpacked, keep>>

\* ImportImage under the lock: an image that is in the cache stays as it is.
Import(w) ==
    /\ up[w] = "import" /\ daemon[img[w]] # "none" /\ Goto(w, "specs")
    /\ unpacked' = [unpacked EXCEPT ![w] = IF cache[img[w]] = "none" THEN "yes" ELSE "no"]
    /\ cache' = [cache EXCEPT ![img[w]] = IF @ = "none" THEN "young" ELSE @]
    /\ UNCHANGED <<daemon, recorded, spec, vm, locks, img, keep>>

\* pruneImageCache reads the specs before it has the lock.
ReadSpecs(w) ==
    /\ up[w] = "specs" /\ Goto(w, "prune")
    /\ keep' = [keep EXCEPT ![w] = ({img[w]} \cup {spec[v] : v \in Workspace}) \ {None}]
    /\ UNCHANGED <<stores, locks, img, unpacked>>

\* Mistaken variant: entries are removed whatever their age.
PruneCacheYoung(w) ==
    /\ up[w] = "prune" /\ Goto(w, "record")
    /\ cache' = [i \in Image |-> IF i \in keep[w] THEN cache[i] ELSE "none"]
    /\ keep' = [keep EXCEPT ![w] = {}]
    /\ UNCHANGED <<daemon, recorded, spec, vm, locks, img, unpacked>>

\* vm.PruneImages under the lock: old entries no spec names go.
PruneCache(w) ==
    /\ up[w] = "prune" /\ Goto(w, "record")
    /\ cache' = [i \in Image |-> IF cache[i] = "old" /\ i \notin keep[w] THEN "none" ELSE cache[i]]
    /\ keep' = [keep EXCEPT ![w] = {}]
    /\ UNCHANGED <<daemon, recorded, spec, vm, locks, img, unpacked>>

\* pruneDockerImages records the image before it asks for the exclusive lock.
Record(w) ==
    /\ up[w] = "record" /\ Goto(w, "upgrade")
    /\ recorded' = [recorded EXCEPT ![w] = {img[w]}]
    /\ UNCHANGED <<daemon, cache, spec, vm, locks, locals>>

\* The shared lock is turned into the exclusive one if no other up holds it.
\* Failing to, some systems drop the shared lock at once; it ends with Unlock.
Upgrade(w) ==
    /\ up[w] = "upgrade"
    /\ \/ /\ shared \subseteq {w} /\ exclusive = None
          /\ shared' = {} /\ exclusive' = w /\ Goto(w, "keep")
       \/ /\ ~(shared \subseteq {w} /\ exclusive = None)
          /\ shared' \in {shared, shared \ {w}} /\ Goto(w, "unlock") /\ UNCHANGED exclusive
    /\ UNCHANGED <<stores, locals>>

\* Under the exclusive lock, the images no workspace recorded are removed once
\* they are old.
PruneDocker(w) ==
    /\ up[w] = "keep" /\ Goto(w, "unlock")
    /\ daemon' = [i \in Image |-> IF daemon[i] = "old" /\ \A v \in Workspace : i \notin recorded[v]
                                  THEN "none" ELSE daemon[i]]
    /\ UNCHANGED <<recorded, cache, spec, vm, locks, locals>>

\* The deferred Close of the lock.
Unlock(w) ==
    /\ up[w] = "unlock" /\ Goto(w, "spec")
    /\ shared' = shared \ {w} /\ exclusive' = Free(exclusive, w)
    /\ UNCHANGED <<stores, locals>>

\* startSupervisor writes the spec ...
WriteSpec(w) ==
    /\ up[w] = "spec" /\ Goto(w, "start") /\ spec' = [spec EXCEPT ![w] = img[w]]
    /\ UNCHANGED <<daemon, recorded, cache, vm, locks, locals>>

End(w) ==
    /\ Goto(w, "idle") /\ img' = [img EXCEPT ![w] = None] /\ keep' = [keep EXCEPT ![w] = {}]
    /\ unpacked' = [unpacked EXCEPT ![w] = IF vm'[w] = None THEN "no" ELSE @]

\* ... and the supervisor boots the image if it finds it in the cache.
Start(w) ==
    /\ up[w] = "start"
    /\ vm' = [vm EXCEPT ![w] = IF cache[img[w]] = "none" THEN None ELSE img[w]]
    /\ End(w)
    /\ UNCHANGED <<daemon, recorded, cache, spec, locks>>

\* An error ends the up, or it is killed: its locks are free.
Fail(w) ==
    /\ up[w] # "idle"
    /\ shared' = shared \ {w} /\ exclusive' = Free(exclusive, w)
    /\ UNCHANGED stores /\ End(w)

Up(w) ==
    \/ LockImages(w) \/ Build(w) \/ Import(w) \/ ReadSpecs(w) \/ PruneCache(w) \/ Record(w)
    \/ Upgrade(w) \/ PruneDocker(w) \/ Unlock(w) \/ WriteSpec(w) \/ Start(w) \/ Fail(w)

------------------------------------------------------------------------------
(* The rest of the world. *)

Down(w) ==
    /\ vm[w] # None /\ vm' = [vm EXCEPT ![w] = None] /\ unpacked' = [unpacked EXCEPT ![w] = "no"]
    /\ UNCHANGED <<daemon, recorded, cache, spec, locks, up, img, keep>>

\* purge removes what the state directory records, once the VM is down.
Purge(w) ==
    /\ up[w] = "idle" /\ vm[w] = None /\ spec[w] # None
    /\ spec' = [spec EXCEPT ![w] = None] /\ recorded' = [recorded EXCEPT ![w] = {}]
    /\ UNCHANGED <<daemon, cache, vm, locks, up, locals>>

\* Where an up has imported its image and not yet named it in its spec.
Unrecorded == {"specs", "prune", "record", "upgrade", "keep", "unlock", "spec"}

\* An hour passes; no up takes so long from importing its image to its spec.
Hour ==
    /\ \A w \in Workspace : up[w] \notin Unrecorded
    /\ \E i \in Image : "young" \in {cache[i], daemon[i]}
    /\ cache' = [i \in Image |-> IF cache[i] = "young" THEN "old" ELSE cache[i]]
    /\ daemon' = [i \in Image |-> IF daemon[i] = "young" THEN "old" ELSE daemon[i]]
    /\ UNCHANGED <<recorded, spec, vm, locks, up, locals>>

Next == Hour \/ \E w \in Workspace : Up(w) \/ Down(w) \/ Purge(w)

Spec == Init /\ [][Next]_vars

------------------------------------------------------------------------------
(* Properties. *)

Age == {"none", "young", "old"}

\* Every variable has its type.
TypeOK ==
    /\ daemon \in [Image -> Age] /\ cache \in [Image -> Age]
    /\ recorded \in [Workspace -> SUBSET Image] /\ keep \in [Workspace -> SUBSET Image]
    /\ {spec[w] : w \in Workspace} \cup {vm[w] : w \in Workspace} \cup {img[w] : w \in Workspace}
          \subseteq Image \cup {None}
    /\ exclusive \in Workspace \cup {None} /\ shared \subseteq Workspace

Root(w) == IF vm[w] = None THEN img[w] ELSE vm[w]

\* The image an up has unpacked is pruned neither before its spec names it nor
\* from under its VM: another up may have read the specs before, and prune after
\* ("another jailoc process may have unpacked an image it has not recorded in a
\* spec yet").
RootStays == \A w \in Workspace : unpacked[w] = "yes" => cache[Root(w)] # "none"

\* An up keeps the Docker image it resolved until it has recorded it, although
\* the image may be old and recorded by nobody: pruning is exclusive with it.
BuiltImageStays ==
    \A w \in Workspace :
        up[w] \in {"import", "specs", "prune", "record"} => daemon[img[w]] # "none"

\* No image is removed between the step of an up that obtains it and the last
\* that needs it, whatever other ups prune meanwhile.
ImagesStay == RootStays /\ BuiltImageStays
==============================================================================
