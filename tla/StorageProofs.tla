---------------------------- MODULE StorageProofs ----------------------------
(***************************************************************************)
(* What jailoc keeps, for any number of workspaces, volumes, images and    *)
(* secrets: MigrationSafe of Migrate, ImagesStay of ImageCache,            *)
(* DeliveredWhole of SecretDelivery and, from CommandsProofs, what the     *)
(* commands promise in Workspaces.                                         *)
(***************************************************************************)
EXTENDS MCStorage, TLAPS

------------------------------------------------------------------------------
(* Images. *)

ImageHolding == {"build", "import", "specs", "prune", "record", "upgrade"}
UpSteps == {"idle"} \cup ImageHolding \cup Images!Unrecorded \cup {"start"}

\* What the steps of an up rest on: its image once it has one, no VM beside it.
ImageShape ==
    /\ daemon \in [Image -> Images!Age] /\ cache \in [Image -> Images!Age]
    /\ up \in [Workspace -> UpSteps] /\ img \in [Workspace -> Image \cup {None}]
    /\ vm \in [Workspace -> Image \cup {None}] /\ spec \in [Workspace -> Image \cup {None}]
    /\ unpacked \in [Workspace -> {"yes", "no"}] /\ keep \in [Workspace -> SUBSET Image]
    /\ shared \subseteq Workspace /\ exclusive \in Workspace \cup {None}
    /\ \A w \in Workspace :
        /\ up[w] \notin {"idle", "build"} => img[w] \in Image
        /\ up[w] # "idle" => vm[w] = None

\* The lock on Docker's images: whoever uses an image it has not recorded holds
\* it shared, and whoever prunes holds it alone.
ImagesLocked ==
    /\ exclusive # None => shared = {}
    /\ \A w \in Workspace :
        /\ up[w] \in ImageHolding => w \in shared
        /\ up[w] = "keep" => exclusive = w

\* A root that was unpacked is young until a spec names it; from then on whoever
\* is about to prune keeps it, or read the specs within this hour.
RootsKept ==
    \A w \in Workspace : unpacked[w] = "yes" =>
        /\ up[w] \in Images!Unrecorded \cup {"start"} \/ vm[w] # None
        /\ up[w] \in Images!Unrecorded => cache[img[w]] = "young"
        /\ up[w] \notin Images!Unrecorded =>
            /\ spec[w] = Images!Root(w) /\ cache[Images!Root(w)] # "none"
            /\ \A v \in Workspace :
                up[v] = "prune" => Images!Root(w) \in keep[v] \/ cache[Images!Root(w)] = "young"

ImageInv == ImageShape /\ ImagesLocked /\ Images!BuiltImageStays /\ RootsKept

LEMMA ImageInit == Images!Init => ImageInv
BY StorageAssumption DEF Images!Init, ImageInv, ImageShape, ImagesLocked, Images!BuiltImageStays, RootsKept, UpSteps, ImageHolding, Images!Unrecorded, Images!Age

LEMMA ImageShapeStep ==
    ASSUME ImageShape, [Images!Next]_(Images!vars)
    PROVE  ImageShape'
<1> USE StorageAssumption DEF ImageShape, Images!Goto, Images!stores, Images!locks, Images!locals, Images!Age
<1>1. ASSUME NEW w \in Workspace, Images!LockImages(w) PROVE ImageShape'
    BY Zenon, <1>1 DEF Images!LockImages, UpSteps, ImageHolding
<1>2. ASSUME NEW w \in Workspace, Images!Build(w) PROVE ImageShape'
    BY <1>2 DEF Images!Build, UpSteps, ImageHolding
<1>3. ASSUME NEW w \in Workspace, Images!Import(w) PROVE ImageShape'
    BY Zenon, <1>3 DEF Images!Import, UpSteps, ImageHolding
<1>4. ASSUME NEW w \in Workspace, Images!ReadSpecs(w) PROVE ImageShape'
    BY <1>4 DEF Images!ReadSpecs, UpSteps, ImageHolding
<1>5. ASSUME NEW w \in Workspace, Images!PruneCache(w) PROVE ImageShape'
    BY Zenon, <1>5 DEF Images!PruneCache, UpSteps, ImageHolding
<1>6. ASSUME NEW w \in Workspace, Images!Record(w) PROVE ImageShape'
    BY Zenon, <1>6 DEF Images!Record, UpSteps, ImageHolding
<1>7. ASSUME NEW w \in Workspace, Images!Upgrade(w) PROVE ImageShape'
    BY <1>7 DEF Images!Upgrade, UpSteps, ImageHolding, Images!Unrecorded
<1>8. ASSUME NEW w \in Workspace, Images!PruneDocker(w) PROVE ImageShape'
    BY Zenon, <1>8 DEF Images!PruneDocker, UpSteps, Images!Unrecorded
<1>9. ASSUME NEW w \in Workspace, Images!Unlock(w) PROVE ImageShape'
    BY Zenon, <1>9 DEF Images!Unlock, UpSteps, Images!Unrecorded, Images!Free
<1>10. ASSUME NEW w \in Workspace, Images!WriteSpec(w) PROVE ImageShape'
    BY Zenon, <1>10 DEF Images!WriteSpec, UpSteps
<1>11. ASSUME NEW w \in Workspace, Images!Start(w) PROVE ImageShape'
    BY Zenon, <1>11 DEF Images!Start, Images!End, UpSteps
<1>12. ASSUME NEW w \in Workspace, Images!Fail(w) PROVE ImageShape'
    BY Zenon, <1>12 DEF Images!Fail, Images!End, UpSteps, Images!Free
<1>13. ASSUME NEW w \in Workspace, Images!Down(w) PROVE ImageShape'
    BY Zenon, <1>13 DEF Images!Down
<1>14. ASSUME NEW w \in Workspace, Images!Purge(w) PROVE ImageShape'
    BY Zenon, <1>14 DEF Images!Purge
<1>15. CASE Images!Hour
    BY Zenon, <1>15 DEF Images!Hour
<1>16. CASE UNCHANGED Images!vars
    BY Zenon, <1>16 DEF Images!vars
<1> QED
    BY Zenon, <1>1, <1>2, <1>3, <1>4, <1>5, <1>6, <1>7, <1>8, <1>9, <1>10, <1>11, <1>12,
       <1>13, <1>14, <1>15, <1>16 DEF Images!Next, Images!Up
LEMMA ImagesLockedStep ==
    ASSUME ImageShape, ImagesLocked, [Images!Next]_(Images!vars)
    PROVE  ImagesLocked'
<1> USE StorageAssumption DEF ImageShape, ImagesLocked, Images!Goto, Images!stores, Images!locks, Images!locals
<1>1. ASSUME NEW w \in Workspace, Images!LockImages(w) PROVE ImagesLocked'
    BY Zenon, <1>1 DEF Images!LockImages, ImageHolding, Images!Unrecorded
<1>2. ASSUME NEW w \in Workspace, Images!Build(w) PROVE ImagesLocked'
    BY Zenon, <1>2 DEF Images!Build, ImageHolding, Images!Unrecorded
<1>3. ASSUME NEW w \in Workspace, Images!Import(w) PROVE ImagesLocked'
    BY Zenon, <1>3 DEF Images!Import, ImageHolding, Images!Unrecorded
<1>4. ASSUME NEW w \in Workspace, Images!ReadSpecs(w) PROVE ImagesLocked'
    BY Zenon, <1>4 DEF Images!ReadSpecs, ImageHolding, Images!Unrecorded
<1>5. ASSUME NEW w \in Workspace, Images!PruneCache(w) PROVE ImagesLocked'
    BY Zenon, <1>5 DEF Images!PruneCache, ImageHolding, Images!Unrecorded
<1>6. ASSUME NEW w \in Workspace, Images!Record(w) PROVE ImagesLocked'
    BY Zenon, <1>6 DEF Images!Record, ImageHolding, Images!Unrecorded
<1>7. ASSUME NEW w \in Workspace, Images!Upgrade(w) PROVE ImagesLocked'
    BY <1>7 DEF Images!Upgrade, ImageHolding, Images!Unrecorded
<1>8. ASSUME NEW w \in Workspace, Images!PruneDocker(w) PROVE ImagesLocked'
    BY Zenon, <1>8 DEF Images!PruneDocker, ImageHolding, Images!Unrecorded
<1>9. ASSUME NEW w \in Workspace, Images!Unlock(w) PROVE ImagesLocked'
    BY Zenon, <1>9 DEF Images!Unlock, Images!Free, ImageHolding, Images!Unrecorded
<1>10. ASSUME NEW w \in Workspace, Images!WriteSpec(w) PROVE ImagesLocked'
    BY Zenon, <1>10 DEF Images!WriteSpec, ImageHolding, Images!Unrecorded
<1>11. ASSUME NEW w \in Workspace, Images!Start(w) PROVE ImagesLocked'
    BY Zenon, <1>11 DEF Images!Start, Images!End, ImageHolding, Images!Unrecorded
<1>12. ASSUME NEW w \in Workspace, Images!Fail(w) PROVE ImagesLocked'
    BY Zenon, <1>12 DEF Images!Fail, Images!End, Images!Free, ImageHolding, Images!Unrecorded
<1>13. ASSUME NEW w \in Workspace, Images!Down(w) PROVE ImagesLocked'
    BY Zenon, <1>13 DEF Images!Down, ImageHolding, Images!Unrecorded
<1>14. ASSUME NEW w \in Workspace, Images!Purge(w) PROVE ImagesLocked'
    BY Zenon, <1>14 DEF Images!Purge, ImageHolding, Images!Unrecorded
<1>15. CASE Images!Hour
    BY Zenon, <1>15 DEF Images!Hour, ImageHolding, Images!Unrecorded
<1>16. CASE UNCHANGED Images!vars
    BY Zenon, <1>16 DEF Images!vars, ImageHolding, Images!Unrecorded
<1> QED
    BY Zenon, <1>1, <1>2, <1>3, <1>4, <1>5, <1>6, <1>7, <1>8, <1>9, <1>10, <1>11, <1>12,
       <1>13, <1>14, <1>15, <1>16 DEF Images!Next, Images!Up

LEMMA BuiltStep ==
    ASSUME ImageShape, ImagesLocked, Images!BuiltImageStays, [Images!Next]_(Images!vars)
    PROVE  Images!BuiltImageStays'
<1> USE StorageAssumption DEF ImageShape, Images!BuiltImageStays, Images!Goto, Images!stores, Images!locks, Images!locals, Images!Age
<1>1. ASSUME NEW w \in Workspace, Images!LockImages(w) PROVE Images!BuiltImageStays'
    BY Zenon, <1>1 DEF Images!LockImages
<1>2. ASSUME NEW w \in Workspace, Images!Build(w) PROVE Images!BuiltImageStays'
    BY <1>2 DEF Images!Build
<1>3. ASSUME NEW w \in Workspace, Images!Import(w) PROVE Images!BuiltImageStays'
    BY Zenon, <1>3 DEF Images!Import
<1>4. ASSUME NEW w \in Workspace, Images!ReadSpecs(w) PROVE Images!BuiltImageStays'
    BY Zenon, <1>4 DEF Images!ReadSpecs
<1>5. ASSUME NEW w \in Workspace, Images!PruneCache(w) PROVE Images!BuiltImageStays'
    BY Zenon, <1>5 DEF Images!PruneCache
<1>6. ASSUME NEW w \in Workspace, Images!Record(w) PROVE Images!BuiltImageStays'
    BY Zenon, <1>6 DEF Images!Record
<1>7. ASSUME NEW w \in Workspace, Images!Upgrade(w) PROVE Images!BuiltImageStays'
    BY <1>7 DEF Images!Upgrade
<1>8. ASSUME NEW w \in Workspace, Images!PruneDocker(w) PROVE Images!BuiltImageStays'
    BY <1>8 DEF Images!PruneDocker, ImagesLocked, ImageHolding
<1>9. ASSUME NEW w \in Workspace, Images!Unlock(w) PROVE Images!BuiltImageStays'
    BY Zenon, <1>9 DEF Images!Unlock, Images!Free
<1>10. ASSUME NEW w \in Workspace, Images!WriteSpec(w) PROVE Images!BuiltImageStays'
    BY Zenon, <1>10 DEF Images!WriteSpec
<1>11. ASSUME NEW w \in Workspace, Images!Start(w) PROVE Images!BuiltImageStays'
    BY Zenon, <1>11 DEF Images!Start, Images!End
<1>12. ASSUME NEW w \in Workspace, Images!Fail(w) PROVE Images!BuiltImageStays'
    BY Zenon, <1>12 DEF Images!Fail, Images!End, Images!Free
<1>13. ASSUME NEW w \in Workspace, Images!Down(w) PROVE Images!BuiltImageStays'
    BY Zenon, <1>13 DEF Images!Down
<1>14. ASSUME NEW w \in Workspace, Images!Purge(w) PROVE Images!BuiltImageStays'
    BY Zenon, <1>14 DEF Images!Purge
<1>15. CASE Images!Hour
    BY Zenon, <1>15 DEF Images!Hour
<1>16. CASE UNCHANGED Images!vars
    BY Zenon, <1>16 DEF Images!vars
<1> QED
    BY Zenon, <1>1, <1>2, <1>3, <1>4, <1>5, <1>6, <1>7, <1>8, <1>9, <1>10, <1>11, <1>12,
       <1>13, <1>14, <1>15, <1>16 DEF Images!Next, Images!Up

LEMMA RootsKeptStep ==
    ASSUME ImageShape, RootsKept, [Images!Next]_(Images!vars)
    PROVE  RootsKept'
<1> USE StorageAssumption DEF ImageShape, RootsKept, Images!Root, Images!Goto, Images!stores, Images!locks, Images!locals, Images!Age
<1>1. ASSUME NEW w \in Workspace, Images!LockImages(w) PROVE RootsKept'
    BY <1>1 DEF Images!LockImages, Images!Unrecorded
<1>2. ASSUME NEW w \in Workspace, Images!Build(w) PROVE RootsKept'
    BY <1>2 DEF Images!Build, Images!Unrecorded
<1>3. ASSUME NEW w \in Workspace, Images!Import(w) PROVE RootsKept'
    BY <1>3 DEF Images!Import, Images!Unrecorded
<1>4. ASSUME NEW w \in Workspace, Images!ReadSpecs(w) PROVE RootsKept'
    BY <1>4 DEF Images!ReadSpecs, Images!Unrecorded
<1>5. ASSUME NEW w \in Workspace, Images!PruneCache(w) PROVE RootsKept'
    BY <1>5 DEF Images!PruneCache, Images!Unrecorded
<1>6. ASSUME NEW w \in Workspace, Images!Record(w) PROVE RootsKept'
    BY <1>6 DEF Images!Record, Images!Unrecorded
<1>7. ASSUME NEW w \in Workspace, Images!Upgrade(w) PROVE RootsKept'
    BY <1>7 DEF Images!Upgrade, Images!Unrecorded
<1>8. ASSUME NEW w \in Workspace, Images!PruneDocker(w) PROVE RootsKept'
    BY <1>8 DEF Images!PruneDocker, Images!Unrecorded
<1>9. ASSUME NEW w \in Workspace, Images!Unlock(w) PROVE RootsKept'
    BY <1>9 DEF Images!Unlock, Images!Free, Images!Unrecorded
<1>10. ASSUME NEW w \in Workspace, Images!WriteSpec(w) PROVE RootsKept'
    BY <1>10 DEF Images!WriteSpec, Images!Unrecorded
<1>11. ASSUME NEW w \in Workspace, Images!Start(w) PROVE RootsKept'
    <2>1. /\ up[w] = "start" /\ UNCHANGED <<cache, spec>>
          /\ vm' = [vm EXCEPT ![w] = IF cache[img[w]] = "none" THEN None ELSE img[w]]
          /\ up' = [up EXCEPT ![w] = "idle"] /\ img' = [img EXCEPT ![w] = None]
          /\ keep' = [keep EXCEPT ![w] = {}]
          /\ unpacked' = [unpacked EXCEPT ![w] = IF vm'[w] = None THEN "no" ELSE @]
        BY Zenon, <1>11 DEF Images!Start, Images!End
    <2>2. \A v \in Workspace : v # w => UNCHANGED <<vm[v], up[v], img[v], keep[v], unpacked[v]>>
        BY <2>1
    <2>3. up'[w] = "idle" /\ (unpacked'[w] = "yes" => vm'[w] = img[w] /\ vm'[w] # None /\ unpacked[w] = "yes")
        BY <2>1
    <2> QED
        BY <2>1, <2>2, <2>3 DEF Images!Unrecorded
<1>12. ASSUME NEW w \in Workspace, Images!Fail(w) PROVE RootsKept'
    BY <1>12 DEF Images!Fail, Images!End, Images!Free, Images!Unrecorded
<1>13. ASSUME NEW w \in Workspace, Images!Down(w) PROVE RootsKept'
    BY <1>13 DEF Images!Down, Images!Unrecorded
<1>14. ASSUME NEW w \in Workspace, Images!Purge(w) PROVE RootsKept'
    BY <1>14 DEF Images!Purge, Images!Unrecorded
<1>15. CASE Images!Hour
    BY <1>15 DEF Images!Hour, Images!Unrecorded
<1>16. CASE UNCHANGED Images!vars
    BY <1>16 DEF Images!vars, Images!Unrecorded
<1> QED
    BY Zenon, <1>1, <1>2, <1>3, <1>4, <1>5, <1>6, <1>7, <1>8, <1>9, <1>10, <1>11, <1>12,
       <1>13, <1>14, <1>15, <1>16 DEF Images!Next, Images!Up

\* Whatever ups, downs and purges of any number of workspaces interleave, pruning
\* takes no image an up has still to record or its VM runs from.
THEOREM ImagesAlwaysStay == Images!Spec => []ImagesStay
<1>1. Images!Init => ImageInv
    BY Zenon, ImageInit
<1>2. ImageInv /\ [Images!Next]_(Images!vars) => ImageInv'
    BY Zenon, ImageShapeStep, ImagesLockedStep, BuiltStep, RootsKeptStep DEF ImageInv
<1>3. ImageInv => ImagesStay
    BY Zenon DEF ImageInv, ImagesStay, Images!ImagesStay, ImageShape, RootsKept, Images!RootStays, Images!Root, Images!Unrecorded
<1> QED
    BY <1>1, <1>2, <1>3, PTL DEF Images!Spec

------------------------------------------------------------------------------
(* Secrets in a VM. *)

\* What the steps of a delivery rest on.
DeliveryShape ==
    /\ unwritten \in [Delivery -> SUBSET Name] /\ DOMAIN files = Name
    /\ DOMAIN load = Delivery /\ dpc \in [Delivery -> {"off", "files", "remove", "written"}]
    /\ config.keep \subseteq Name
    /\ \A d \in Delivery : load[d] # None => load[d].keep \subseteq Name
    /\ \A d \in Delivery : dpc[d] # "off" => load[d] # None
    /\ alone \subseteq Delivery

\* A delivery counts as alone only while it is the one that runs, and none runs
\* while the guest is settled.
Apart ==
    /\ \A d \in alone : dpc[d] # "off" /\ \A e \in Delivery : dpc[e] # "off" => e = d
    /\ settled # None => \A e \in Delivery : dpc[e] = "off"

\* How far a delivery that is alone has come.
Come(d) ==
    /\ dpc[d] = "files" => \A n \in load[d].keep \ unwritten[d] : files[n] = load[d].version
    /\ dpc[d] = "remove" =>
        \A n \in Name : IF n \in load[d].keep THEN files[n] = load[d].version /\ n \notin unwritten[d]
                        ELSE files[n] = None \/ n \in unwritten[d]
    /\ dpc[d] = "written" =>
        /\ env = load[d].version
        /\ \A n \in Name : files[n] = IF n \in load[d].keep THEN load[d].version ELSE None
Progress == \A d \in alone : Come(d)

Delivered == Apart /\ Progress /\ Secrets!DeliveredWhole
DeliveryInv == DeliveryShape /\ Delivered

LEMMA DeliveryInit == ASSUME Secrets!Init PROVE DeliveryInv
BY Zenon DEF Secrets!Init, DeliveryInv, DeliveryShape, Delivered, Apart, Progress, Secrets!DeliveredWhole

\* Each step leaves every delivery with what it rests on.
LEMMA DeliveryShapeStep == ASSUME DeliveryShape, [Secrets!Next]_(Secrets!vars) PROVE DeliveryShape'
<1> USE DEF DeliveryShape
<1>1. CASE Secrets!Edit
    BY <1>1 DEF Secrets!Edit
<1>2. ASSUME NEW d \in Delivery, NEW b \in BOOLEAN, Secrets!Read(d, b) PROVE DeliveryShape'
    BY Zenon, <1>2 DEF Secrets!Read
<1>3. ASSUME NEW d \in Delivery, Secrets!Run(d) PROVE DeliveryShape'
    BY Zenon, <1>3 DEF Secrets!Run
<1>4. ASSUME NEW d \in Delivery, Secrets!Lose(d) PROVE DeliveryShape'
    BY Zenon, <1>4 DEF Secrets!Lose
<1>5. ASSUME NEW d \in Delivery, NEW n \in Name, Secrets!WriteFile(d, n) PROVE DeliveryShape'
    BY Zenon, <1>5 DEF Secrets!WriteFile
<1>6. ASSUME NEW d \in Delivery, Secrets!List(d) PROVE DeliveryShape'
    BY Zenon, <1>6 DEF Secrets!List
<1>7. ASSUME NEW d \in Delivery, NEW n \in Name, Secrets!Remove(d, n) PROVE DeliveryShape'
    BY Zenon, <1>7 DEF Secrets!Remove
<1>8. ASSUME NEW d \in Delivery, Secrets!WriteEnv(d) PROVE DeliveryShape'
    BY Zenon, <1>8 DEF Secrets!WriteEnv
<1>9. ASSUME NEW d \in Delivery, Secrets!Done(d) PROVE DeliveryShape'
    BY Zenon, <1>9 DEF Secrets!Done, Secrets!End
<1>10. ASSUME NEW d \in Delivery, Secrets!Fail(d) PROVE DeliveryShape'
    BY Zenon, <1>10 DEF Secrets!Fail, Secrets!End
<1>11. CASE UNCHANGED Secrets!vars
    BY Zenon, <1>11 DEF Secrets!vars
<1> QED BY Zenon, <1>1, <1>2, <1>3, <1>4, <1>5, <1>6, <1>7, <1>8, <1>9, <1>10, <1>11 DEF Secrets!Next

\* While a delivery runs the guest is not settled, and no other counts as alone.
LEMMA OneRuns ==
    ASSUME DeliveryInv, NEW d \in Delivery, dpc[d] # "off"
    PROVE  settled = None /\ \A e \in alone : e = d
BY Zenon DEF DeliveryInv, DeliveryShape, Delivered, Apart

LEMMA DeliveryRests ==
    ASSUME DeliveryInv, UNCHANGED <<load, unwritten, dpc, files, env, alone, settled>> PROVE Delivered'
<1>1. Apart'
    BY Zenon DEF DeliveryInv, Delivered, Apart
<1>2. \A d \in alone : Come(d) => Come(d)'
    BY Zenon DEF Come
<1>3. Progress'
    BY Zenon, <1>2 DEF DeliveryInv, Delivered, Progress
<1>4. Secrets!DeliveredWhole'
    BY Zenon DEF DeliveryInv, Delivered, Secrets!DeliveredWhole
<1> QED
    BY Zenon, <1>1, <1>3, <1>4 DEF Delivered

\* A delivery goes on by itself.
LEMMA DeliveryGoesOn ==
    ASSUME DeliveryInv, NEW d \in Delivery, dpc[d] # "off", UNCHANGED <<alone, settled>>,
           d \in alone => Come(d)',
           \A e \in Delivery : dpc'[e] = "off" <=> dpc[e] = "off"
    PROVE  Delivered'
<1>1. settled = None /\ \A e \in alone : e = d
    BY Zenon, OneRuns
<1>2. Apart'
    BY Zenon, <1>1 DEF DeliveryInv, DeliveryShape, Delivered, Apart
<1>3. Progress'
    BY Zenon, <1>1 DEF Progress
<1>4. Secrets!DeliveredWhole'
    BY Zenon, <1>1 DEF Secrets!DeliveredWhole
<1> QED
    BY Zenon, <1>2, <1>3, <1>4 DEF Delivered

\* A delivery that ends: it is settled if it was alone and complete.
LEMMA DeliveryEnds ==
    ASSUME DeliveryInv, NEW d \in Delivery, dpc[d] # "off", Secrets!End(d), UNCHANGED <<files, env>>,
           settled' = settled \/ (settled' = load[d] /\ d \in alone /\ dpc[d] = "written")
    PROVE  Delivered'
<1>1. settled = None /\ (\A e \in alone : e = d) /\ alone' = {}
    BY Zenon, OneRuns DEF Secrets!End
<1>2. settled' # None => settled' = load[d] /\ Come(d) /\ dpc[d] = "written"
    BY Zenon, <1>1 DEF DeliveryInv, Delivered, Progress
<1>3. Apart'
    <2>1. ASSUME settled' # None, NEW e \in Delivery PROVE dpc'[e] = "off"
        <3>1. \A x \in Delivery : dpc[x] # "off" => x = d
            BY Zenon, <1>1, <2>1 DEF DeliveryInv, Delivered, Apart
        <3> QED
            BY Zenon, <3>1 DEF Secrets!End, DeliveryInv, DeliveryShape
    <2> QED
        BY Zenon, <1>1, <2>1 DEF Apart
<1>4. Progress'
    BY Zenon, <1>1 DEF Progress
<1>5. Secrets!DeliveredWhole'
    BY Zenon, <1>2 DEF Secrets!DeliveredWhole, Come
<1> QED
    BY Zenon, <1>3, <1>4, <1>5 DEF Delivered

\* A delivery that starts beside another takes its place as the one alone; the
\* rest go on by themselves.
LEMMA DeliveryStep == ASSUME DeliveryInv, [Secrets!Next]_(Secrets!vars) PROVE Delivered'
<1>0. DeliveryShape /\ Apart /\ Progress /\ Secrets!DeliveredWhole
    BY Zenon DEF DeliveryInv, Delivered
<1>1. CASE Secrets!Edit
    BY Zenon, <1>1, DeliveryRests DEF Secrets!Edit
<1>2. ASSUME NEW d \in Delivery, NEW b \in BOOLEAN, Secrets!Read(d, b) PROVE Delivered'
    <2>1. dpc[d] = "off" /\ load[d] = None /\ UNCHANGED <<unwritten, dpc, files, env, alone, settled>>
        BY Zenon, <1>0, <1>2 DEF Secrets!Read, DeliveryShape
    <2>2. \A e \in alone : e # d /\ load'[e] = load[e]
        BY Zenon, <1>0, <1>2, <2>1 DEF Secrets!Read, Apart, DeliveryShape
    <2>3. Apart'
        BY Zenon, <1>0, <2>1 DEF Apart
    <2>4. Progress'
        <3>1. \A e \in alone : Come(e) => Come(e)'
            BY Zenon, <2>1, <2>2 DEF Come
        <3> QED
            BY Zenon, <1>0, <2>1, <3>1 DEF Progress
    <2>5. Secrets!DeliveredWhole'
        BY Zenon, <1>0, <2>1 DEF Secrets!DeliveredWhole
    <2> QED
        BY Zenon, <2>3, <2>4, <2>5 DEF Delivered
<1>3. ASSUME NEW d \in Delivery, Secrets!Run(d) PROVE Delivered'
    <2>1. /\ settled' = None /\ load[d] # None /\ load' = load /\ alone' \subseteq {d}
          /\ d \in alone' => \A e \in Delivery : dpc[e] = "off"
        BY Zenon, <1>3 DEF Secrets!Run, Secrets!Active
    <2>2. /\ \A e \in Delivery : dpc'[e] = IF e = d THEN "files" ELSE dpc[e]
          /\ unwritten'[d] = load[d].keep
        BY Zenon, <1>0, <1>3 DEF Secrets!Run, DeliveryShape
    <2>3. Apart'
        BY Zenon, <2>1, <2>2 DEF Apart
    <2>4. Come(d)'
        BY Zenon, <2>1, <2>2 DEF Come
    <2>5. Progress'
        BY Zenon, <2>1, <2>4 DEF Progress
    <2>6. Secrets!DeliveredWhole'
        BY Zenon, <2>1 DEF Secrets!DeliveredWhole
    <2> QED
        BY Zenon, <2>3, <2>5, <2>6 DEF Delivered
<1>4. ASSUME NEW d \in Delivery, Secrets!Lose(d) PROVE Delivered'
    BY Zenon, <1>4, DeliveryRests DEF Secrets!Lose
<1>5. ASSUME NEW d \in Delivery, NEW n \in Name, Secrets!WriteFile(d, n) PROVE Delivered'
    <2>1. /\ dpc[d] = "files" /\ UNCHANGED <<load, dpc, env, alone, settled>>
          /\ load[d].keep \subseteq Name
        BY Zenon, <1>0, <1>5 DEF Secrets!WriteFile, DeliveryShape
    <2>2. /\ \A m \in Name : files'[m] = IF m = n THEN load[d].version ELSE files[m]
          /\ unwritten'[d] = unwritten[d] \ {n} /\ n \in unwritten[d]
        BY Zenon, <1>0, <1>5 DEF Secrets!WriteFile, DeliveryShape
    <2>3. Come(d) => Come(d)'
        BY Zenon, <2>1, <2>2 DEF Come
    <2> QED
        BY Zenon, <1>0, <2>1, <2>3, DeliveryGoesOn DEF Progress
<1>6. ASSUME NEW d \in Delivery, NEW n \in Name, Secrets!Remove(d, n) PROVE Delivered'
    <2>1. /\ dpc[d] = "remove" /\ UNCHANGED <<load, dpc, env, alone, settled>>
          /\ load[d].keep \subseteq Name
        BY Zenon, <1>0, <1>6 DEF Secrets!Remove, DeliveryShape
    <2>2. /\ \A m \in Name : files'[m] = IF m = n THEN None ELSE files[m]
          /\ unwritten'[d] = unwritten[d] \ {n} /\ n \in unwritten[d]
        BY Zenon, <1>0, <1>6 DEF Secrets!Remove, DeliveryShape
    <2>3. Come(d) => Come(d)'
        BY Zenon, <2>1, <2>2 DEF Come
    <2> QED
        BY Zenon, <1>0, <2>1, <2>3, DeliveryGoesOn DEF Progress
<1>7. ASSUME NEW d \in Delivery, Secrets!List(d) PROVE Delivered'
    <2>1. /\ dpc[d] = "files" /\ unwritten[d] = {} /\ UNCHANGED <<load, files, alone, settled>>
          /\ load[d].keep \subseteq Name /\ unwritten'[d] = {n \in Name : files[n] # None} \ load[d].keep
        BY Zenon, <1>0, <1>7 DEF Secrets!List, DeliveryShape
    <2>2. \A e \in Delivery : dpc'[e] = IF e = d THEN "remove" ELSE dpc[e]
        BY Zenon, <1>0, <1>7 DEF Secrets!List, DeliveryShape
    <2>3. Come(d) => Come(d)'
        BY Zenon, <2>1, <2>2 DEF Come
    <2> QED
        BY Zenon, <1>0, <2>1, <2>2, <2>3, DeliveryGoesOn DEF Progress
<1>8. ASSUME NEW d \in Delivery, Secrets!WriteEnv(d) PROVE Delivered'
    <2>1. /\ dpc[d] = "remove" /\ unwritten[d] = {} /\ UNCHANGED <<load, files, alone, settled>>
          /\ load[d].keep \subseteq Name /\ env' = load[d].version
        BY Zenon, <1>0, <1>8 DEF Secrets!WriteEnv, DeliveryShape
    <2>2. \A e \in Delivery : dpc'[e] = IF e = d THEN "written" ELSE dpc[e]
        BY Zenon, <1>0, <1>8 DEF Secrets!WriteEnv, DeliveryShape
    <2>3. Come(d) => Come(d)'
        BY Zenon, <2>1, <2>2 DEF Come
    <2> QED
        BY Zenon, <1>0, <2>1, <2>2, <2>3, DeliveryGoesOn DEF Progress
<1>9. ASSUME NEW d \in Delivery, Secrets!Done(d) PROVE Delivered'
    BY Zenon, <1>9, DeliveryEnds DEF Secrets!Done
<1>10. ASSUME NEW d \in Delivery, Secrets!Fail(d) PROVE Delivered'
    BY Zenon, <1>10, DeliveryEnds DEF Secrets!Fail
<1>11. CASE UNCHANGED Secrets!vars
    BY Zenon, <1>11, DeliveryRests DEF Secrets!vars
<1> QED
    BY Zenon, <1>1, <1>2, <1>3, <1>4, <1>5, <1>6, <1>7, <1>8, <1>9, <1>10, <1>11 DEF Secrets!Next

\* A delivery that no other overlapped leaves exactly its payload in the guest,
\* whatever earlier ones left: writing each file, removing the rest and writing
\* the environment last (WriteSecrets) is enough.
THEOREM DeliveriesAreWhole == Secrets!Spec => []DeliveredWhole
<1>1. Secrets!Init => DeliveryInv
    BY Zenon, DeliveryInit
<1>2. DeliveryInv /\ [Secrets!Next]_(Secrets!vars) => DeliveryInv'
    BY Zenon, DeliveryShapeStep, DeliveryStep DEF DeliveryInv
<1>3. DeliveryInv => DeliveredWhole
    BY Zenon DEF DeliveryInv, Delivered, DeliveredWhole
<1> QED BY <1>1, <1>2, <1>3, PTL DEF Secrets!Spec

------------------------------------------------------------------------------
(* Migration of a v1 installation. *)

\* The backup of a run: its name is unused until it is opened, and once it is
\* written it holds the original if the configuration still is the original.
Unopened == {"ping", "check", "stop", "copy", "export", "install", "stat"}
Backups ==
    /\ mpc # "idle" => runs \in 1 .. MaxRuns
    /\ \A r \in 1 .. MaxRuns : runs < r => backup[r] = "none"
    /\ mpc \in Unopened => backup[runs] = "none"
    /\ mpc = "backup" => backup[runs] = "part"
    /\ mpc = "write" /\ cfg = orig => backup[runs] = "original"

\* A configuration that was rewritten names no backend but the VM, so a run that
\* goes to Docker is about the original.
Migrated(c) == c.defaults = "vm" /\ \A w \in Workspace : c.ws[w] = ""
WasVM(v) == ~V1!IsDocker(orig, Owner[v])
Planned ==
    /\ cfg = orig \/ Migrated(cfg)
    /\ mpc \notin {"idle", "done"} => Migrated(plan)
    /\ mpc \in Unopened \ {"stat"} => names = {w \in Workspace : V1!IsDocker(orig, w)}

\* While volumes are copied no container of their workspaces runs.
Copying ==
    /\ mpc \in {"copy", "export", "install"} => running \cap names = {}
    /\ mpc \in {"stop", "copy", "export", "install"} => \A v \in left : Owner[v] \in names
    /\ mpc \in {"export", "install"} => cur \in Volume /\ Owner[cur] \in names
    /\ mpc = "install" => tmp[cur] = "copy"

\* The volumes that are not there yet are still to be copied.
Awaited(v) == mpc \in {"stop", "copy", "export", "install"} /\ (v \in left \/ (mpc \in {"export", "install"} /\ v = cur))
Brought ==
    mpc \in {"stop", "copy", "export", "install", "stat", "backup", "write"} /\ reached = "yes" =>
        \A v \in volumes \ plan.covered : home[v] # "none" \/ WasVM(v) \/ Awaited(v)

MigrateInv ==
    V1!TypeOK /\ Backups /\ Planned /\ Copying /\ Brought
    /\ V1!WholeData /\ V1!VolumesCarried /\ V1!OriginalKept

LEMMA MigrateInit == V1!Init => MigrateInv
<1> SUFFICES ASSUME V1!Init PROVE MigrateInv
    BY Zenon
<1> USE StorageAssumption DEF V1!Init
<1>1. V1!TypeOK
    BY DEF V1!TypeOK, V1!Steps
<1>2. Backups /\ Planned /\ Copying /\ Brought
    BY Zenon DEF Backups, Planned, Copying, Brought, Unopened
<1>3. V1!WholeData /\ V1!VolumesCarried /\ V1!OriginalKept
    BY Zenon DEF V1!WholeData, V1!VolumesCarried, V1!OriginalKept
<1> QED
    BY Zenon, <1>1, <1>2, <1>3 DEF MigrateInv

LEMMA RunCounted == ASSUME NEW m \in Nat, NEW r \in 0 .. m, r < m PROVE r + 1 \in 1 .. m /\ r + 1 \in 0 .. m
OBVIOUS

LEMMA MigrateTypes == ASSUME MigrateInv, [V1!Next]_(V1!vars) PROVE V1!TypeOK'
<1>0. V1!TypeOK /\ Backups /\ Copying
    BY Zenon DEF MigrateInv
<1> USE StorageAssumption, <1>0 DEF V1!TypeOK, V1!files, V1!docker, V1!run, V1!vars
<1>1. CASE V1!Begin
    <2>1. PICK kept \in SUBSET cfg.covered : plan' = V1!Rewritten(cfg, kept)
        BY Zenon, <1>1 DEF V1!Begin
    <2>2. V1!Rewritten(cfg, kept) \in V1!Config
        BY Zenon DEF V1!Rewritten, V1!Config, V1!Backends
    <2>3. names' \subseteq Workspace /\ reached' = "no" /\ runs' \in 0 .. MaxRuns
        <3>1. names' \subseteq Workspace /\ reached' = "no"
            BY Zenon, <1>1 DEF V1!Begin
        <3>2. runs < MaxRuns /\ runs' = runs + 1 /\ runs \in 0 .. MaxRuns /\ MaxRuns \in Nat
            BY Zenon, <1>1 DEF V1!Begin, StorageAssumption
        <3>3. runs' \in 0 .. MaxRuns
            BY Zenon, <3>2, RunCounted
        <3> QED
            BY Zenon, <3>1, <3>3
    <2>4. mpc' \in V1!Steps
        BY Zenon, <1>1 DEF V1!Begin, V1!Steps
    <2> QED
        BY Zenon, <1>1, <2>1, <2>2, <2>3, <2>4 DEF V1!Begin
<1>2. CASE V1!Ping
    BY Zenon, <1>2 DEF V1!Ping, V1!Steps
<1>3. CASE V1!CheckRunning
    BY Zenon, <1>3 DEF V1!CheckRunning, V1!Steps, V1!Targets
<1>4. CASE V1!StopContainers
    BY Zenon, <1>4 DEF V1!StopContainers, V1!Steps
<1>5. CASE V1!KeepData
    BY Zenon, <1>5 DEF V1!KeepData
<1>6. CASE V1!CopyVolume
    BY Zenon, <1>6 DEF V1!CopyVolume, V1!Steps
<1>7. CASE V1!ExportVolume
    BY Zenon, <1>7 DEF V1!ExportVolume, V1!Steps
<1>8. CASE V1!InstallVolume
    BY Zenon, <1>8 DEF V1!InstallVolume, V1!Steps, Copying
<1>9. CASE V1!Copied
    BY Zenon, <1>9 DEF V1!Copied, V1!Steps
<1>10. CASE V1!OpenBackup
    BY Zenon, <1>10 DEF V1!OpenBackup, V1!Steps
<1>11. CASE V1!WriteBackup
    BY Zenon, <1>11 DEF V1!WriteBackup, V1!Steps
<1>12. CASE V1!WriteConfig
    BY Zenon, <1>12 DEF V1!WriteConfig, V1!Steps
<1>13. CASE V1!Cut
    BY Zenon, <1>13 DEF V1!Cut, V1!Steps
<1>14. CASE V1!Up
    BY Zenon, <1>14 DEF V1!Up
<1>15. CASE V1!UpV1
    BY Zenon, <1>15 DEF V1!UpV1
<1>16. CASE UNCHANGED V1!vars
    BY Zenon, <1>16 DEF V1!vars
<1> QED
    BY Zenon, <1>1, <1>2, <1>3, <1>4, <1>5, <1>6, <1>7, <1>8,
       <1>9, <1>10, <1>11, <1>12, <1>13, <1>14, <1>15, <1>16 DEF V1!Next

LEMMA BackupsStep == ASSUME MigrateInv, [V1!Next]_(V1!vars) PROVE Backups'
<1>0. V1!TypeOK /\ Backups
    BY Zenon DEF MigrateInv
<1> USE StorageAssumption, <1>0 DEF V1!TypeOK, Backups, Unopened, V1!files, V1!docker, V1!run, V1!vars
<1>1. CASE V1!Begin
    <2>1. /\ mpc' \in {"idle", "stat", "ping"} /\ runs' = runs + 1 /\ runs < MaxRuns
          /\ backup' = backup /\ runs \in 0 .. MaxRuns
        BY Zenon, <1>1 DEF V1!Begin
    <2>2. runs' \in 1 .. MaxRuns /\ backup[runs'] = "none"
        BY <2>1
    <2> QED
        BY <2>1, <2>2
<1>2. CASE V1!Ping
    BY Zenon, <1>2 DEF V1!Ping
<1>3. CASE V1!CheckRunning
    BY Zenon, <1>3 DEF V1!CheckRunning
<1>4. CASE V1!StopContainers
    BY Zenon, <1>4 DEF V1!StopContainers
<1>5. CASE V1!KeepData
    BY Zenon, <1>5 DEF V1!KeepData
<1>6. CASE V1!CopyVolume
    BY Zenon, <1>6 DEF V1!CopyVolume
<1>7. CASE V1!ExportVolume
    BY Zenon, <1>7 DEF V1!ExportVolume
<1>8. CASE V1!InstallVolume
    BY Zenon, <1>8 DEF V1!InstallVolume
<1>9. CASE V1!Copied
    BY Zenon, <1>9 DEF V1!Copied
<1>10. CASE V1!OpenBackup
    <2>1. /\ runs \in 1 .. MaxRuns /\ runs' = runs /\ mpc' = "backup"
          /\ backup' = [backup EXCEPT ![runs] = "part"]
        BY Zenon, <1>10 DEF V1!OpenBackup
    <2>2. backup'[runs] = "part" /\ \A r \in 1 .. MaxRuns : r # runs => backup'[r] = backup[r]
        BY Zenon, <2>1
    <2>3. \A r \in 1 .. MaxRuns : runs < r => backup'[r] = "none"
        BY <2>1, <2>2
    <2> QED
        BY Zenon, <2>1, <2>2, <2>3
<1>11. CASE V1!WriteBackup
    BY Zenon, <1>11 DEF V1!WriteBackup
<1>12. CASE V1!WriteConfig
    BY Zenon, <1>12 DEF V1!WriteConfig
<1>13. CASE V1!Cut
    BY Zenon, <1>13 DEF V1!Cut
<1>14. CASE V1!Up
    BY Zenon, <1>14 DEF V1!Up
<1>15. CASE V1!UpV1
    BY Zenon, <1>15 DEF V1!UpV1
<1>16. CASE UNCHANGED V1!vars
    BY Zenon, <1>16 DEF V1!vars
<1> QED
    BY Zenon, <1>1, <1>2, <1>3, <1>4, <1>5, <1>6, <1>7, <1>8,
       <1>9, <1>10, <1>11, <1>12, <1>13, <1>14, <1>15, <1>16 DEF V1!Next

LEMMA PlannedStep == ASSUME MigrateInv, [V1!Next]_(V1!vars) PROVE Planned'
<1>0. V1!TypeOK /\ Planned
    BY Zenon DEF MigrateInv
<1> USE StorageAssumption, <1>0 DEF V1!TypeOK, Planned, Migrated, Unopened, V1!files, V1!docker, V1!run, V1!vars
<1>1. CASE V1!Begin
    <2>1. PICK kept \in SUBSET cfg.covered :
              /\ plan' = V1!Rewritten(cfg, kept)
              /\ mpc' = IF plan' = cfg THEN "idle" ELSE IF names' = {} THEN "stat" ELSE "ping"
        BY Zenon, <1>1 DEF V1!Begin
    <2>2. Migrated(plan')
        BY Zenon, <2>1 DEF V1!Rewritten
    <2>3. names' = {w \in Workspace : V1!IsDocker(cfg, w)} /\ cfg' = cfg /\ orig' = orig
        BY Zenon, <1>1 DEF V1!Begin
    <2>4. cfg # orig => names' = {}
        BY Zenon, <2>3 DEF V1!IsDocker
    <2>5. mpc' \in {"idle", "stat", "ping"} /\ (mpc' = "ping" => names' # {})
        BY Zenon, <2>1
    <2> QED
        BY Zenon, <2>2, <2>3, <2>4, <2>5
<1>2. CASE V1!Ping
    BY Zenon, <1>2 DEF V1!Ping
<1>3. CASE V1!CheckRunning
    BY Zenon, <1>3 DEF V1!CheckRunning
<1>4. CASE V1!StopContainers
    BY Zenon, <1>4 DEF V1!StopContainers
<1>5. CASE V1!KeepData
    BY Zenon, <1>5 DEF V1!KeepData
<1>6. CASE V1!CopyVolume
    BY Zenon, <1>6 DEF V1!CopyVolume
<1>7. CASE V1!ExportVolume
    BY Zenon, <1>7 DEF V1!ExportVolume
<1>8. CASE V1!InstallVolume
    BY Zenon, <1>8 DEF V1!InstallVolume
<1>9. CASE V1!Copied
    BY Zenon, <1>9 DEF V1!Copied
<1>10. CASE V1!OpenBackup
    BY Zenon, <1>10 DEF V1!OpenBackup
<1>11. CASE V1!WriteBackup
    BY Zenon, <1>11 DEF V1!WriteBackup
<1>12. CASE V1!WriteConfig
    BY Zenon, <1>12 DEF V1!WriteConfig
<1>13. CASE V1!Cut
    BY Zenon, <1>13 DEF V1!Cut
<1>14. CASE V1!Up
    BY Zenon, <1>14 DEF V1!Up
<1>15. CASE V1!UpV1
    BY Zenon, <1>15 DEF V1!UpV1
<1>16. CASE UNCHANGED V1!vars
    BY Zenon, <1>16 DEF V1!vars
<1> QED
    BY Zenon, <1>1, <1>2, <1>3, <1>4, <1>5, <1>6, <1>7, <1>8,
       <1>9, <1>10, <1>11, <1>12, <1>13, <1>14, <1>15, <1>16 DEF V1!Next

LEMMA CopyingStep == ASSUME MigrateInv, [V1!Next]_(V1!vars) PROVE Copying'
<1>0. V1!TypeOK /\ Copying
    BY Zenon DEF MigrateInv
<1> USE StorageAssumption, <1>0 DEF V1!TypeOK, Copying, V1!files, V1!docker, V1!run, V1!vars
<1>1. CASE V1!Begin
    BY Zenon, <1>1 DEF V1!Begin
<1>2. CASE V1!Ping
    BY Zenon, <1>2 DEF V1!Ping
<1>3. CASE V1!CheckRunning
    BY Zenon, <1>3 DEF V1!CheckRunning, V1!Targets
<1>4. CASE V1!StopContainers
    BY Zenon, <1>4 DEF V1!StopContainers
<1>5. CASE V1!KeepData
    BY Zenon, <1>5 DEF V1!KeepData
<1>6. CASE V1!CopyVolume
    BY Zenon, <1>6 DEF V1!CopyVolume
<1>7. CASE V1!ExportVolume
    BY Zenon, <1>7 DEF V1!ExportVolume
<1>8. CASE V1!InstallVolume
    BY Zenon, <1>8 DEF V1!InstallVolume
<1>9. CASE V1!Copied
    BY Zenon, <1>9 DEF V1!Copied
<1>10. CASE V1!OpenBackup
    BY Zenon, <1>10 DEF V1!OpenBackup
<1>11. CASE V1!WriteBackup
    BY Zenon, <1>11 DEF V1!WriteBackup
<1>12. CASE V1!WriteConfig
    BY Zenon, <1>12 DEF V1!WriteConfig
<1>13. CASE V1!Cut
    BY Zenon, <1>13 DEF V1!Cut
<1>14. CASE V1!Up
    BY Zenon, <1>14 DEF V1!Up
<1>15. CASE V1!UpV1
    BY Zenon, <1>15 DEF V1!UpV1
<1>16. CASE UNCHANGED V1!vars
    BY Zenon, <1>16 DEF V1!vars
<1> QED
    BY Zenon, <1>1, <1>2, <1>3, <1>4, <1>5, <1>6, <1>7, <1>8,
       <1>9, <1>10, <1>11, <1>12, <1>13, <1>14, <1>15, <1>16 DEF V1!Next

LEMMA BroughtStep == ASSUME MigrateInv, [V1!Next]_(V1!vars) PROVE Brought'
<1>0. V1!TypeOK /\ Brought /\ Planned /\ Copying
    BY Zenon DEF MigrateInv
<1> USE StorageAssumption, <1>0 DEF V1!TypeOK, Brought, Awaited, WasVM, V1!files, V1!docker, V1!run, V1!vars
<1>1. CASE V1!Begin
    BY Zenon, <1>1 DEF V1!Begin
<1>2. CASE V1!Ping
    BY Zenon, <1>2 DEF V1!Ping
<1>3. CASE V1!CheckRunning
    BY Zenon, <1>3 DEF V1!CheckRunning, V1!Targets, Planned, Unopened
<1>4. CASE V1!StopContainers
    BY Zenon, <1>4 DEF V1!StopContainers
<1>5. CASE V1!KeepData
    BY Zenon, <1>5 DEF V1!KeepData
<1>6. CASE V1!CopyVolume
    BY Zenon, <1>6 DEF V1!CopyVolume
<1>7. CASE V1!ExportVolume
    BY Zenon, <1>7 DEF V1!ExportVolume
<1>8. CASE V1!InstallVolume
    BY Zenon, <1>8 DEF V1!InstallVolume, Copying
<1>9. CASE V1!Copied
    BY Zenon, <1>9 DEF V1!Copied
<1>10. CASE V1!OpenBackup
    BY Zenon, <1>10 DEF V1!OpenBackup
<1>11. CASE V1!WriteBackup
    BY Zenon, <1>11 DEF V1!WriteBackup
<1>12. CASE V1!WriteConfig
    BY Zenon, <1>12 DEF V1!WriteConfig
<1>13. CASE V1!Cut
    BY Zenon, <1>13 DEF V1!Cut
<1>14. CASE V1!Up
    BY Zenon, <1>14 DEF V1!Up
<1>15. CASE V1!UpV1
    BY Zenon, <1>15 DEF V1!UpV1
<1>16. CASE UNCHANGED V1!vars
    BY Zenon, <1>16 DEF V1!vars
<1> QED
    BY Zenon, <1>1, <1>2, <1>3, <1>4, <1>5, <1>6, <1>7, <1>8,
       <1>9, <1>10, <1>11, <1>12, <1>13, <1>14, <1>15, <1>16 DEF V1!Next

LEMMA SafeStep ==
    ASSUME MigrateInv, [V1!Next]_(V1!vars)
    PROVE  (V1!WholeData /\ V1!VolumesCarried /\ V1!OriginalKept)'
<1>0. /\ V1!TypeOK /\ Brought /\ Copying /\ Backups
      /\ V1!WholeData /\ V1!VolumesCarried /\ V1!OriginalKept
    BY Zenon DEF MigrateInv
<1> USE StorageAssumption, <1>0 DEF V1!TypeOK, V1!WholeData, V1!VolumesCarried, V1!OriginalKept,
        V1!files, V1!docker, V1!run, V1!vars
<1>1. CASE V1!Begin
    BY Zenon, <1>1 DEF V1!Begin
<1>2. CASE V1!Ping
    BY Zenon, <1>2 DEF V1!Ping
<1>3. CASE V1!CheckRunning
    BY Zenon, <1>3 DEF V1!CheckRunning
<1>4. CASE V1!StopContainers
    BY Zenon, <1>4 DEF V1!StopContainers
<1>5. CASE V1!KeepData
    BY Zenon, <1>5 DEF V1!KeepData
<1>6. CASE V1!CopyVolume
    BY Zenon, <1>6 DEF V1!CopyVolume
<1>7. CASE V1!ExportVolume
    BY Zenon, <1>7 DEF V1!ExportVolume
<1>8. CASE V1!InstallVolume
    BY Zenon, <1>8 DEF V1!InstallVolume, Copying
<1>9. CASE V1!Copied
    BY Zenon, <1>9 DEF V1!Copied
<1>10. CASE V1!OpenBackup
    BY Zenon, <1>10 DEF V1!OpenBackup, Backups, Unopened
<1>11. CASE V1!WriteBackup
    BY Zenon, <1>11 DEF V1!WriteBackup, Backups
<1>12. CASE V1!WriteConfig
    BY Zenon, <1>12 DEF V1!WriteConfig, Backups, Brought, Awaited, WasVM, V1!IsDocker
<1>13. CASE V1!Cut
    BY Zenon, <1>13 DEF V1!Cut
<1>14. CASE V1!Up
    <2>1. PICK v \in Volume : home' = [home EXCEPT ![v] = "fresh"]
        BY Zenon, <1>14 DEF V1!Up
    <2>2. UNCHANGED <<orig, cfg, backup, volumes, mpc, reached>>
        BY Zenon, <1>14 DEF V1!Up
    <2>3. \A x \in Volume : home'[x] = home[x] \/ home'[x] = "fresh"
        BY Zenon, <2>1
    <2>4. (V1!WholeData /\ V1!OriginalKept)'
        BY Zenon, <2>2, <2>3
    <2>5. V1!VolumesCarried'
        BY Zenon, <2>2, <2>3
    <2> QED
        BY Zenon, <2>4, <2>5
<1>15. CASE V1!UpV1
    BY Zenon, <1>15 DEF V1!UpV1
<1>16. CASE UNCHANGED V1!vars
    BY Zenon, <1>16 DEF V1!vars
<1> QED
    BY Zenon, <1>1, <1>2, <1>3, <1>4, <1>5, <1>6, <1>7, <1>8,
       <1>9, <1>10, <1>11, <1>12, <1>13, <1>14, <1>15, <1>16 DEF V1!Next

\* runMigrate: wherever runs are cut short or fail, and whatever up and v1 do
\* between them, no part of a volume is taken for the whole, a run that reached
\* Docker left no volume behind, and the original configuration stays in a backup.
THEOREM MigrationAlwaysSafe == V1!Spec => []MigrationSafe
<1>1. MigrateInv /\ [V1!Next]_(V1!vars) => MigrateInv'
    BY Zenon, MigrateTypes, BackupsStep, PlannedStep, CopyingStep, BroughtStep, SafeStep DEF MigrateInv
<1>2. MigrateInv => MigrationSafe
    BY Zenon DEF MigrateInv, MigrationSafe, V1!MigrationSafe
<1> QED
    BY MigrateInit, <1>1, <1>2, PTL DEF V1!Spec

------------------------------------------------------------------------------
(* The commands: what CommandsProofs shows of Workspaces, for the store of    *)
(* workspaces here.                                                           *)

Of == INSTANCE CommandsProofs WITH pc <- cpc, spec <- vmSpec, lock <- claims, vm <- vms

LEMMA SameCommands ==
    /\ Cmds!Init <=> Of!Init
    /\ [Cmds!Next]_(Cmds!vars) => [Of!Next]_(Of!vars)
<1>1. Cmds!Init <=> Of!Init
    BY DEF Cmds!Init, Of!Init, Cmds!PID, Of!PID, Cmds!Profiles, Of!Profiles
<1>2. Cmds!Next <=> Of!Next
    BY DEF Cmds!Next, Of!Next, Cmds!Begin, Of!Begin, Cmds!Interrupt, Of!Interrupt, Cmds!UpCheck, Of!UpCheck, Cmds!Claim,
           Of!Claim, Cmds!Record, Of!Record, Cmds!Build, Of!Build, Cmds!Start, Of!Start,
           Cmds!WriteSpec, Of!WriteSpec, Cmds!Fork, Of!Fork, Cmds!Wait, Of!Wait, Cmds!Deliver,
           Of!Deliver, Cmds!Mark, Of!Mark, Cmds!Reload, Of!Reload, Cmds!Respec, Of!Respec,
           Cmds!DownCheck, Of!DownCheck, Cmds!Stop, Of!Stop, Cmds!StopWait, Of!StopWait,
           Cmds!Release, Of!Release, Cmds!Purge, Of!Purge, Cmds!Sup, Of!Sup, Cmds!SupRead,
           Of!SupRead, Cmds!SupBoot, Of!SupBoot, Cmds!SupReady, Of!SupReady, Cmds!SupEnd, Of!SupEnd,
           Cmds!VMHalt, Of!VMHalt, Cmds!SupExit, Of!SupExit, Cmds!PID, Of!PID, Cmds!Alive, Of!Alive,
           Cmds!Stopping, Of!Stopping, Cmds!Running, Of!Running, Cmds!Held, Of!Held, Cmds!InUse,
           Of!InUse, Cmds!Goto, Of!Goto, Cmds!Return, Of!Return, Cmds!Step, Of!Step, Cmds!CallStop,
           Of!CallStop, Cmds!Resume, Of!Resume, Cmds!files, Of!files, Cmds!profiles, Of!profiles,
           Cmds!sups, Of!sups, Cmds!command, Of!command, Cmds!vars, Of!vars, Cmds!Profiles,
           Of!Profiles, Cmds!Ops, Of!Ops, Cmds!Steps, Of!Steps
<1>3. Cmds!vars = Of!vars /\ Cmds!vars' = Of!vars'
    BY DEF Cmds!vars, Of!vars, Cmds!files, Of!files, Cmds!profiles, Of!profiles, Cmds!sups, Of!sups,
           Cmds!command, Of!command
<1>4. [Cmds!Next]_(Cmds!vars) => [Of!Next]_(Of!vars)
    BY Zenon, <1>2, <1>3
<1> QED
    BY Zenon, <1>1, <1>4

\* claimProfile, profileHeld: with one command at a time, cut short anywhere but in
\* the wait for its supervisor, two VMs never run on one named profile.
THEOREM ProfileAlwaysExclusive ==
    ASSUME NEW c, Command = {c}, "wait" \notin Interrupts, Of!NamesApart
    PROVE  Cmds!Spec => []ProfileExclusive
<1>1. Of!Spec => []Of!ProfileExclusive
    BY Of!OneVMPerProfile
<1>2. Of!ProfileExclusive => ProfileExclusive
    BY DEF Of!ProfileExclusive, Cmds!ProfileExclusive, ProfileExclusive, Of!PID, Cmds!PID
<1> QED
    BY <1>1, <1>2, SameCommands, PTL DEF Cmds!Spec, Of!Spec

\* Under the same conditions what jailoc recorded about a workspace, file by file
\* and in steps a command may stop between, is true of its running VM.
THEOREM RecordsAlwaysFaithful ==
    ASSUME NEW c, Command = {c}, "wait" \notin Interrupts, Of!NamesApart
    PROVE  Cmds!Spec => []FilesFaithful
<1>1. Of!Spec => []Of!FilesFaithful
    BY Of!FilesAlwaysFaithful
<1>2. Of!FilesFaithful => FilesFaithful
    BY DEF FilesFaithful, Cmds!FilesFaithful, Of!FilesFaithful, Cmds!RunningIsKnown, Of!RunningIsKnown,
           Cmds!ClaimCoversVM, Of!ClaimCoversVM, Cmds!MarkerFaithful, Of!MarkerFaithful,
           Cmds!Running, Of!Running, Cmds!Alive, Of!Alive, Cmds!PID, Of!PID
<1> QED
    BY <1>1, <1>2, SameCommands, PTL DEF Cmds!Spec, Of!Spec

\* superviseVM as the commands see it: however many of them start, stop and kill
\* supervisors at once, each of these keeps to the lifecycle.
THEOREM SupervisorsAlwaysKeepLifecycle == Cmds!Spec => SupervisorsImplementLifecycle
<1>1. Of!Spec => Of!SupervisorsImplementLifecycle
    BY Of!SupervisorsKeepLifecycle
<1>2. Of!PID = Cmds!PID /\ Of!vars = Cmds!vars /\ Of!vars' = Cmds!vars'
    BY DEF Cmds!PID, Of!PID, Cmds!vars, Of!vars, Cmds!files, Of!files, Cmds!profiles, Of!profiles,
           Cmds!sups, Of!sups, Cmds!command, Of!command
<1>3. (\A s \in Of!PID : Of!Lifecycle(s)!Init) => \A s \in Cmds!PID : Cmds!Lifecycle(s)!Init
    BY <1>2 DEF Of!Lifecycle!Init, Cmds!Lifecycle!Init
<1>4. ASSUME NEW s
      PROVE  /\ Of!Lifecycle(s)!Next <=> Cmds!Lifecycle(s)!Next
             /\ UNCHANGED Of!Lifecycle(s)!vars <=> UNCHANGED Cmds!Lifecycle(s)!vars
    BY DEF Of!Lifecycle!Next, Cmds!Lifecycle!Next, Of!Lifecycle!vars, Cmds!Lifecycle!vars,
           Of!Lifecycle!Boot, Cmds!Lifecycle!Boot, Of!Lifecycle!Announce, Cmds!Lifecycle!Announce,
           Of!Lifecycle!Halt, Cmds!Lifecycle!Halt, Of!Lifecycle!Exit, Cmds!Lifecycle!Exit,
           Of!Lifecycle!Kill, Cmds!Lifecycle!Kill
<1>5. [\A s \in Of!PID : UNCHANGED Of!Lifecycle(s)!vars \/ Of!Lifecycle(s)!Next]_(Of!vars)
      => [\A s \in Cmds!PID : UNCHANGED Cmds!Lifecycle(s)!vars \/ Cmds!Lifecycle(s)!Next]_(Cmds!vars)
    BY Zenon, <1>2, <1>4
<1> QED
    BY <1>1, <1>3, <1>5, SameCommands, PTL
       DEF Cmds!Spec, Of!Spec, SupervisorsImplementLifecycle, Cmds!SupervisorsImplementLifecycle,
           Of!SupervisorsImplementLifecycle
==============================================================================
