---------------------------- MODULE ReloadProofs ----------------------------
(***************************************************************************)
(* That merging SIGHUPs loses no configuration, for every number of        *)
(* concurrent reloads, configurations and faults; and that what a reload   *)
(* reports, records and leaves in the share is true (ReloadFaithful), for  *)
(* every number of reloads, configurations and snapshots.                  *)
(***************************************************************************)
EXTENDS Reload, TLAPS

\* What makes SignalledIsApplied inductive: with no signal waiting and none owed,
\* the loop has already read the current policy file at every step, and once
\* past ApplyRuntime the current runtime file.
ReadSince ==
    /\ hup \in 0 .. 1 /\ owed \in {"no", "yes"} /\ brPc \in {"wait", "runtime", "event"}
    /\ hup = 0 /\ owed = "no" =>
          brPol = polFile /\ (brPc # "runtime" => brRt \in {rtFile, None})

LEMMA ReadSinceInit == Init => ReadSince
BY DEF Init, ReadSince

\* Steps of the command and the guest that touch none of the broker's state.
LEMMA BrokerUntouched == ReadSince /\ UNCHANGED broker => ReadSince'
BY Zenon DEF ReadSince, broker

LEMMA ReadSinceStep == ReadSince /\ [Next]_vars => ReadSince'
<1> SUFFICES ASSUME ReadSince, [Next]_vars PROVE ReadSince'
    BY Zenon
<1>1. CASE Edit
    BY Zenon, <1>1, BrokerUntouched DEF Edit
<1>2. ASSUME NEW r \in Reloader,
             Begin(r) \/ Abandon(r) \/ Clear(r) \/ Stage(r) \/ NoteLog(r)
      PROVE ReadSince'
    BY Zenon, <1>2, BrokerUntouched DEF Begin, Abandon, Clear, Stage, NoteLog
<1>3. ASSUME NEW r \in Reloader,
             AwaitBroker(r) \/ AskGuest(r) \/ AwaitGuest(r) \/ WriteSpec(r)
      PROVE ReadSince'
    BY Zenon, <1>3, BrokerUntouched DEF AwaitBroker, AskGuest, AwaitGuest, WriteSpec
<1>4. ASSUME NEW r \in Reloader, WritePolicy(r) \/ WriteBrokerRuntime(r) \/ Signal(r)
      PROVE ReadSince'
    BY <1>4 DEF ReadSince, WritePolicy, WriteBrokerRuntime, Signal
<1>5. CASE BrPolicy
    BY <1>5 DEF ReadSince, BrPolicy
<1>6. CASE BrRuntime
    BY Zenon, <1>6 DEF ReadSince, BrRuntime
<1>7. CASE BrEvent
    BY Zenon, <1>7 DEF ReadSince, BrEvent
<1>8. CASE Guest
    BY Zenon, <1>8, BrokerUntouched
       DEF Guest, Poll, SetCABundle, Unmount, BindSnapshot, SetRelays, Answer
<1>9. CASE UNCHANGED vars
    BY Zenon, <1>9, BrokerUntouched DEF vars
<1> QED
    BY Zenon, <1>1, <1>2, <1>3, <1>4, <1>5, <1>6, <1>7, <1>8, <1>9 DEF Next, Broker

\* The broker's reload loop with its channel of size one: once it is idle and
\* every writer has signalled, it runs the files on disk, however many reloads
\* wrote and signalled at once and wherever they were abandoned.
THEOREM MergedSignalsLoseNothing == Spec => []SignalledIsApplied
<1>1. ReadSince => SignalledIsApplied
    BY Zenon DEF ReadSince, SignalledIsApplied
<1> QED
    BY <1>1, ReadSinceInit, ReadSinceStep, PTL DEF Spec

------------------------------------------------------------------------------
(* The invariant behind ReloadFaithful. *)

Confirmed == {"request", "guest", "spec"}
Signalled == {"broker"} \cup Confirmed
Written == {"signal"} \cup Signalled
Asking == {"clear", "stage", "log", "policy", "runtime", "signal", "broker", "request"}
Staged == Steps \ {"idle", "clear", "stage"}

InTurn == "overlap" \notin setting.faults
NoneActive == \A r \in Reloader : pc[r] = "idle"
GuestIdle == gPc = "poll" /\ (request # None => gReq = request)

\* Reloads that do not overlap take turns, and number their requests upwards.
Turns ==
    \A r \in Reloader : pc[r] # "idle" =>
        /\ id[r] = made
        /\ \A q \in Reloader : pc[q] # "idle" => q = r
        /\ pc[r] \in Asking /\ request # None => request.seq < made
        /\ pc[r] \in {"guest", "spec"} => request = [seq |-> id[r], ver |-> want[r], binds |-> binds[r]]
        /\ pc[r] = "spec" => answer = [seq |-> id[r], error |-> "no"]

\* The guest takes up a later request and answers each when it is through with it.
Answers ==
    /\ request # None => request.seq <= made
    /\ gReq # None => request # None /\ gReq.seq <= request.seq /\ (gReq.seq = request.seq => gReq = request)
    /\ answer # None => gReq # None /\ answer.seq <= gReq.seq /\ (answer.seq = gReq.seq => gPc = "poll")
    /\ gPc = "poll" /\ gReq # None => answer # None /\ answer.seq = gReq.seq

\* How far it got with the request it applies.
Applies ==
    /\ gPc \in {"unmount", "bind", "relays", "applied"} => ca = gReq.ver
    /\ gPc = "bind" => Len(bound) <= Len(gReq.binds) /\ \A i \in 1 .. Len(bound) : bound[i] = gReq.binds[i]
    /\ gPc \in {"relays", "applied"} => bound = gReq.binds
    /\ gPc = "applied" => relays = gReq.ver
    /\ gPc = "poll" /\ answer # None /\ answer.error = "no" =>
        ca = gReq.ver /\ relays = gReq.ver /\ bound = gReq.binds

\* The files of the active reload, and what the last one that succeeded left.
Records ==
    /\ \A r \in Reloader :
        /\ pc[r] \in {"runtime"} \cup Written => polFile = want[r]
        /\ pc[r] \in Written => rtFile = want[r]
        /\ pc[r] \in Signalled => owed = "no"
    /\ NoneActive /\ last = "ok" =>
        /\ GuestIdle
        /\ bound = spec.binds /\ ca = spec.ver /\ relays = spec.ver
        /\ polFile = spec.ver /\ rtFile = spec.ver /\ owed = "no"

\* When every reload waits for its event, the broker works for the one that waits.
Works(r) ==
    \/ hup = 1 /\ brPc = "wait" /\ Len(log) = offset[r]
    \/ hup = 0 /\ brPc = "runtime" /\ brPol = want[r] /\ Len(log) = offset[r]
    \/ /\ hup = 0 /\ brPc = "event" /\ brPol = want[r] /\ (brErr = "no" => brRt = want[r])
       /\ Len(log) = offset[r]
    \/ /\ hup = 0 /\ brPc = "wait" /\ Len(log) = offset[r] + 1
       /\ log[offset[r] + 1] = "ok" => brPol = want[r] /\ brRt = want[r]

Confirms ==
    /\ (\A r \in Reloader : pc[r] # "broker") => hup = 0 /\ brPc = "wait"
    /\ \A r \in Reloader :
        /\ pc[r] \in {"policy", "runtime", "signal"} => offset[r] = Len(log)
        /\ pc[r] = "broker" => Works(r)
        /\ pc[r] \in Confirmed => brPol = want[r] /\ brRt = want[r]

\* When the guest does not fail either, it binds what the spec records, or the
\* request of the reload that waits for it, and all of that is staged.
OneGen(bs) == \A i \in DOMAIN bs : bs[i][1] = bs[1][1]

Keeps ==
    /\ OneGen(spec.binds) /\ gPc # "failed" /\ (answer # None => answer.error = "no")
    /\ BoundGens(bound) \subseteq staged
    /\ (\A r \in Reloader : pc[r] \notin {"guest", "spec"}) => GuestIdle /\ bound = spec.binds
    /\ gPc # "poll" => gReq = request
    /\ \A r \in Reloader :
        /\ pc[r] # "idle" => running[r] = spec.binds
        /\ pc[r] \in Staged => OneGen(binds[r]) /\ BoundGens(binds[r]) \subseteq staged

------------------------------------------------------------------------------
(* Types, by the part of the state. *)

FilesOK ==
    /\ config \in Version /\ made \in Nat /\ staged \subseteq Nat
    /\ spec.ver \in Version /\ spec.binds \in Seq(Bind)

BrokerOK ==
    /\ polFile \in Version /\ rtFile \in Version /\ owed \in {"no", "yes"} /\ hup \in 0 .. 1
    /\ log \in Seq({"ok", "error"})
    /\ brPc \in {"wait", "runtime", "event"} /\ brPol \in Version
    /\ brRt \in Version \cup {None} /\ brErr \in {"no", "yes"}

GuestOK ==
    /\ request # None => request \in Request
    /\ gReq # None => gReq \in Request
    /\ answer # None => answer \in Reply
    /\ gPc \in GuestSteps /\ (gPc # "poll" => gReq # None)
    /\ ca \in Version /\ relays \in Version /\ bound \in Seq(Bind)

CommandOK ==
    /\ pc \in [Reloader -> Steps] /\ id \in [Reloader -> Nat] /\ want \in [Reloader -> Version \cup {None}]
    /\ running \in [Reloader -> Seq(Bind)] /\ binds \in [Reloader -> Seq(Bind)]
    /\ offset \in [Reloader -> Nat] /\ last \in {"ok", "failed"}
    /\ \A r \in Reloader : pc[r] # "idle" => want[r] \in Version

Types == FilesOK /\ BrokerOK /\ GuestOK /\ CommandOK /\ setting \in Settings

LEMMA TypesSay == Types => TypeOK
BY Zenon DEF Types, FilesOK, BrokerOK, GuestOK, CommandOK, TypeOK

\* A configuration's binds: all of one generation, the one stageSnapshots keeps.
LEMMA BindsOf ==
    ASSUME NEW g \in Nat, NEW v \in Version
    PROVE  /\ Binds(g, v) \in Seq(Bind) /\ OneGen(Binds(g, v))
           /\ Keep(Binds(g, v)) \subseteq Nat
<1>1. Count[v] \in Nat
    BY Zenon, ReloadAssumption
<1>2. Binds(g, v) \in Seq(Bind)
    <2>1. Binds(g, v) \in [1 .. Count[v] -> Bind]
        BY <1>1 DEF Binds, Bind
    <2> QED
        BY <1>1, <2>1
<1>3. DOMAIN Binds(g, v) = 1 .. Count[v] /\ \A i \in 1 .. Count[v] : Binds(g, v)[i] = <<g, i>>
    BY Zenon DEF Binds
<1>4. Binds(g, v) # <<>> => 1 \in 1 .. Count[v]
    BY <1>1, <1>2, <1>3
<1>5. OneGen(Binds(g, v))
    BY <1>1, <1>3 DEF OneGen
<1> QED
    BY <1>2, <1>3, <1>4, <1>5 DEF Keep

\* The one generation kept is every generation bound.
LEMMA KeepsBound ==
    ASSUME NEW bs \in Seq(Bind), OneGen(bs)
    PROVE  BoundGens(bs) = Keep(bs)
<1>1. CASE bs = <<>>
    BY <1>1 DEF BoundGens, Keep
<1>2. CASE bs # <<>>
    <2>1. 1 \in DOMAIN bs
        BY <1>2
    <2> QED
        BY Zenon, <1>2, <2>1 DEF BoundGens, Keep, OneGen
<1> QED
    BY Zenon, <1>1, <1>2

LEMMA TypesInit == Init => Types
<1> SUFFICES ASSUME Init PROVE Types
    BY Zenon
<1> PICK v \in Version :
        /\ setting \in Settings /\ config = v /\ made = 0 /\ spec = [ver |-> v, binds |-> Binds(0, v)]
        /\ staged = {0}
        /\ polFile = v /\ rtFile = v /\ owed = "no" /\ hup = 0 /\ log = <<>>
        /\ brPc = "wait" /\ brPol = v /\ brRt = v /\ brErr = "no"
        /\ request = None /\ answer = None
        /\ gPc = "poll" /\ gReq = None /\ ca = v /\ bound = Binds(0, v) /\ relays = v
        /\ pc = [r \in Reloader |-> "idle"] /\ id = [r \in Reloader |-> 0]
        /\ want = [r \in Reloader |-> None] /\ running = [r \in Reloader |-> <<>>]
        /\ binds = [r \in Reloader |-> <<>>] /\ offset = [r \in Reloader |-> 0]
        /\ last = "ok"
    BY Zenon DEF Init
<1>1. Binds(0, v) \in Seq(Bind)
    BY Zenon, BindsOf
<1>2. FilesOK
    BY <1>1 DEF FilesOK
<1>3. BrokerOK
    BY DEF BrokerOK
<1>4. GuestOK
    BY Zenon, <1>1 DEF GuestOK, GuestSteps
<1>5. CommandOK
    BY DEF CommandOK, Steps
<1> QED
    BY Zenon, <1>2, <1>3, <1>4, <1>5 DEF Types

LEMMA FilesRest == FilesOK /\ UNCHANGED files => FilesOK'
BY Zenon DEF FilesOK, files

LEMMA BrokerRests == BrokerOK /\ UNCHANGED broker => BrokerOK'
BY Zenon DEF BrokerOK, broker

LEMMA GuestRests == GuestOK /\ UNCHANGED guest => GuestOK'
BY Zenon DEF GuestOK, guest

LEMMA CommandRests == CommandOK /\ UNCHANGED command => CommandOK'
BY Zenon DEF CommandOK, command

\* Where the command goes on to its next step, or returns.
LEMMA CommandSteps ==
    ASSUME CommandOK, NEW r \in Reloader, pc[r] # "idle",
           (\E s \in Steps : Step(r, s)) \/ (\E e \in {"ok", "failed"} : Return(r, e))
    PROVE  CommandOK'
<1>1. ASSUME NEW s \in Steps, Step(r, s) PROVE CommandOK'
    BY Zenon, <1>1 DEF CommandOK, Step, Goto
<1>2. ASSUME NEW e \in {"ok", "failed"}, Return(r, e) PROVE CommandOK'
    BY <1>2 DEF CommandOK, Return, Goto, Steps
<1> QED
    BY Zenon, <1>1, <1>2

LEMMA TypesStep == Types /\ [Next]_vars => Types'
<1> SUFFICES ASSUME Types, [Next]_vars PROVE Types'
    BY Zenon
<1> USE DEF Types
<1>0. setting' = setting
    BY Zenon DEF Next, vars, Edit, Begin, Abandon, Clear, Stage, NoteLog, WritePolicy, WriteBrokerRuntime,
           Signal, AwaitBroker, AskGuest, AwaitGuest, WriteSpec, Broker, BrPolicy, BrRuntime, BrEvent,
           Guest, Poll, SetCABundle, Unmount, BindSnapshot, SetRelays, Answer
<1>1. CASE Edit
    <2>1. FilesOK'
        BY Zenon, <1>1 DEF Edit, FilesOK
    <2> QED
        BY Zenon, <1>0, <1>1, <2>1, BrokerRests, GuestRests, CommandRests DEF Edit
<1>2. ASSUME NEW r \in Reloader, Begin(r) PROVE Types'
    <2>1. FilesOK'
        BY <1>2 DEF Begin, FilesOK
    <2>2. CommandOK'
        BY <1>2 DEF Begin, Goto, CommandOK, FilesOK, Steps
    <2> QED
        BY Zenon, <1>0, <1>2, <2>1, <2>2, BrokerRests, GuestRests DEF Begin
<1>3. ASSUME NEW r \in Reloader, Abandon(r) \/ AwaitBroker(r) \/ AwaitGuest(r) PROVE Types'
    <2>1. CommandOK'
        BY Zenon, <1>3, CommandSteps DEF Abandon, AwaitBroker, AwaitGuest, Steps
    <2> QED
        BY Zenon, <1>0, <1>3, <2>1, FilesRest, BrokerRests, GuestRests DEF Abandon, AwaitBroker, AwaitGuest
<1>4. ASSUME NEW r \in Reloader, Clear(r) PROVE Types'
    <2>1. FilesOK'
        BY Zenon, <1>4 DEF Clear, FilesOK
    <2>2. CommandOK'
        BY Zenon, <1>4, CommandSteps DEF Clear, Steps
    <2> QED
        BY Zenon, <1>0, <1>4, <2>1, <2>2, BrokerRests, GuestRests DEF Clear
<1>5. ASSUME NEW r \in Reloader, Stage(r) PROVE Types'
    <2>1. /\ want[r] \in Version /\ id[r] \in Nat
          /\ Binds(id[r], want[r]) \in Seq(Bind) /\ Keep(Binds(id[r], want[r])) \subseteq Nat
        BY Zenon, <1>5, BindsOf DEF Stage, CommandOK
    <2>2. FilesOK'
        BY Zenon, <1>5, <2>1 DEF Stage, FilesOK
    <2>3. ASSUME Return(r, "failed") PROVE CommandOK'
        BY Zenon, <1>5, <2>3, CommandSteps DEF Stage
    <2>4. ASSUME Goto(r, "log"), binds' = [binds EXCEPT ![r] = Binds(id[r], want[r])],
                 UNCHANGED <<id, want, running, offset, last>>
          PROVE CommandOK'
        BY Zenon, <1>5, <2>1, <2>4 DEF Stage, CommandOK, Goto, Steps
    <2>5. CommandOK'
        BY Zenon, <1>5, <2>3, <2>4 DEF Stage
    <2> QED
        BY Zenon, <1>0, <1>5, <2>2, <2>5, BrokerRests, GuestRests DEF Stage
<1>6. ASSUME NEW r \in Reloader, NoteLog(r) PROVE Types'
    <2>1. Len(log) \in Nat
        BY DEF BrokerOK
    <2>2. CommandOK'
        BY Zenon, <1>6, <2>1 DEF NoteLog, Goto, CommandOK, Steps
    <2> QED
        BY Zenon, <1>0, <1>6, <2>2, FilesRest, BrokerRests, GuestRests DEF NoteLog
<1>7. ASSUME NEW r \in Reloader, WritePolicy(r) \/ WriteBrokerRuntime(r) \/ Signal(r) PROVE Types'
    <2>1. want[r] \in Version
        BY Zenon, <1>7 DEF WritePolicy, WriteBrokerRuntime, Signal, CommandOK
    <2>2. BrokerOK'
        BY <1>7, <2>1 DEF WritePolicy, WriteBrokerRuntime, Signal, BrokerOK
    <2>3. CommandOK'
        BY Zenon, <1>7, CommandSteps DEF WritePolicy, WriteBrokerRuntime, Signal, Steps
    <2> QED
        BY Zenon, <1>0, <1>7, <2>2, <2>3, FilesRest, GuestRests DEF WritePolicy, WriteBrokerRuntime, Signal
<1>8. ASSUME NEW r \in Reloader, AskGuest(r) PROVE Types'
    <2>1. request' \in Request
        BY Zenon, <1>8 DEF AskGuest, CommandOK, Request
    <2>2. GuestOK'
        BY Zenon, <1>8, <2>1 DEF AskGuest, GuestOK
    <2>3. CommandOK'
        BY Zenon, <1>8, CommandSteps DEF AskGuest, Steps
    <2> QED
        BY Zenon, <1>0, <1>8, <2>2, <2>3, FilesRest, BrokerRests DEF AskGuest
<1>9. ASSUME NEW r \in Reloader, WriteSpec(r) PROVE Types'
    <2>1. FilesOK'
        BY Zenon, <1>9 DEF WriteSpec, FilesOK, CommandOK
    <2>2. CommandOK'
        BY Zenon, <1>9, CommandSteps DEF WriteSpec
    <2> QED
        BY Zenon, <1>0, <1>9, <2>1, <2>2, BrokerRests, GuestRests DEF WriteSpec
<1>10. CASE Broker
    <2>1. ASSUME BrPolicy PROVE BrokerOK'
        BY <2>1 DEF BrPolicy, BrokerOK
    <2>2. ASSUME BrRuntime PROVE BrokerOK'
        BY Zenon, <2>2 DEF BrRuntime, BrokerOK
    <2>3. ASSUME BrEvent PROVE BrokerOK'
        BY <2>3 DEF BrEvent, BrokerOK
    <2>4. BrokerOK'
        BY Zenon, <1>10, <2>1, <2>2, <2>3 DEF Broker
    <2> QED
        BY Zenon, <1>0, <1>10, <2>4, FilesRest, GuestRests, CommandRests DEF Broker, BrPolicy, BrRuntime, BrEvent
<1>11. CASE Guest
    <2> USE DEF GuestOK, GuestSteps
    <2>1. ASSUME Poll PROVE GuestOK'
        BY Zenon, <2>1 DEF Poll
    <2>2. ASSUME SetCABundle PROVE GuestOK'
        BY Zenon, <2>2 DEF SetCABundle, Fail, Request
    <2>3. ASSUME Unmount PROVE GuestOK'
        <3>1. bound # <<>> => SubSeq(bound, 1, Len(bound) - 1) \in Seq(Bind)
            OBVIOUS
        <3> QED
            BY Zenon, <2>3, <3>1 DEF Unmount, Fail
    <2>4. ASSUME BindSnapshot PROVE GuestOK'
        <3>1. gPc = "bind" => gReq.binds \in Seq(Bind)
            BY Zenon DEF Request
        <3> QED
            BY <2>4, <3>1 DEF BindSnapshot, Fail
    <2>5. ASSUME SetRelays PROVE GuestOK'
        BY Zenon, <2>5 DEF SetRelays, Fail, Request
    <2>6. ASSUME Answer PROVE GuestOK'
        BY Zenon, <2>6 DEF Answer, Request, Reply
    <2>7. GuestOK'
        BY Zenon, <1>11, <2>1, <2>2, <2>3, <2>4, <2>5, <2>6 DEF Guest
    <2> QED
        BY Zenon, <1>0, <1>11, <2>7, FilesRest, BrokerRests, CommandRests
           DEF Guest, Poll, SetCABundle, Unmount, BindSnapshot, SetRelays, Answer
<1>12. CASE UNCHANGED vars
    BY Zenon, <1>0, <1>12, FilesRest, BrokerRests, GuestRests, CommandRests DEF vars
<1> QED
    BY Zenon, <1>1, <1>2, <1>3, <1>4, <1>5, <1>6, <1>7, <1>8, <1>9, <1>10, <1>11, <1>12 DEF Next

------------------------------------------------------------------------------
(* The guest applies the whole of the request it took up. *)

LEMMA GuestUntouched ==
    [Next]_vars => Guest \/ UNCHANGED guest \/ \E r \in Reloader : AskGuest(r)
BY Zenon DEF Next, vars, Edit, Begin, Abandon, Clear, Stage, NoteLog, WritePolicy, WriteBrokerRuntime,
       Signal, AwaitBroker, AwaitGuest, WriteSpec, Broker, BrPolicy, BrRuntime, BrEvent

LEMMA AppliesStep == Types /\ Applies /\ [Next]_vars => Applies'
<1> SUFFICES ASSUME Types, Applies, [Next]_vars PROVE Applies'
    BY Zenon
<1>1. ASSUME UNCHANGED <<answer, gPc, gReq, ca, bound, relays>> PROVE Applies'
    BY Zenon, <1>1 DEF Applies
<1>2. CASE Poll
    BY Zenon, <1>2 DEF Poll, Applies
<1>3. CASE SetCABundle
    BY Zenon, <1>3 DEF SetCABundle, Fail, Applies
<1>4. CASE Unmount
    <2>1. bound \in Seq(Bind) /\ (gPc = "unmount" => gReq.binds \in Seq(Bind))
        BY Zenon DEF Types, GuestOK, Request
    <2> QED
        BY <1>4, <2>1 DEF Unmount, Fail, Applies
<1>5. CASE BindSnapshot
    <2>1. bound \in Seq(Bind) /\ (gPc = "bind" => gReq.binds \in Seq(Bind))
        BY Zenon DEF Types, GuestOK, Request
    <2>2. CASE /\ gPc = "bind" /\ Len(bound) + 1 \in DOMAIN gReq.binds
               /\ bound' = Append(bound, gReq.binds[Len(bound) + 1]) /\ UNCHANGED gPc
        <3>1. Len(bound) + 1 <= Len(gReq.binds)
            BY <2>1, <2>2
        <3>2. Len(bound') = Len(bound) + 1
            BY <2>1, <2>2
        <3>3. \A i \in 1 .. Len(bound') : bound'[i] = gReq.binds[i]
            BY <2>1, <2>2, <3>1 DEF Applies
        <3> QED
            BY Zenon, <1>5, <2>2, <3>1, <3>2, <3>3 DEF BindSnapshot, Applies
    <2>3. CASE gPc = "bind" /\ Len(bound) + 1 \notin DOMAIN gReq.binds /\ gPc' = "relays" /\ UNCHANGED bound
        <3>1. Len(bound) = Len(gReq.binds)
            BY <2>1, <2>3 DEF Applies
        <3>2. bound = gReq.binds
            BY <2>1, <2>3, <3>1 DEF Applies
        <3> QED
            BY Zenon, <1>5, <2>3, <3>2 DEF BindSnapshot, Applies
    <2>4. CASE gPc' = "failed"
        BY Zenon, <1>5, <2>4 DEF Applies
    <2> QED
        BY Zenon, <1>5, <2>2, <2>3, <2>4 DEF BindSnapshot, Fail
<1>6. CASE SetRelays
    BY Zenon, <1>6 DEF SetRelays, Fail, Applies
<1>7. CASE Answer
    BY Zenon, <1>7 DEF Answer, Applies
<1> QED
    BY Zenon, <1>1, <1>2, <1>3, <1>4, <1>5, <1>6, <1>7, GuestUntouched DEF Guest, guest, AskGuest

------------------------------------------------------------------------------
(* Reloads that take turns: an answer belongs to the request it names. *)

Ordered == Turns /\ Answers

\* A reload that has its answer knows the guest is through with its request.
LEMMA AnsweredIsOver ==
    ASSUME Types, Ordered, NEW r \in Reloader, pc[r] = "spec"
    PROVE  /\ gPc = "poll" /\ gReq = request /\ answer # None /\ answer.error = "no"
           /\ request = [seq |-> id[r], ver |-> want[r], binds |-> binds[r]]
<1>0. /\ id[r] \in Nat
      /\ request # None => request.seq \in Nat
      /\ gReq # None => gReq.seq \in Nat
    BY Zenon DEF Types, CommandOK, GuestOK, Request
<1>1. /\ answer = [seq |-> id[r], error |-> "no"]
      /\ request = [seq |-> id[r], ver |-> want[r], binds |-> binds[r]]
    BY Zenon DEF Ordered, Turns
<1>2. answer # None
    BY <1>0, <1>1, ReloadAssumption DEF Reply
<1>3. gReq # None /\ request # None /\ answer.seq <= gReq.seq /\ gReq.seq <= request.seq
    BY Zenon, <1>2 DEF Ordered, Answers
<1>4. gReq.seq = request.seq /\ answer.seq = gReq.seq
    BY <1>0, <1>1, <1>3
<1> QED
    BY Zenon, <1>1, <1>2, <1>3, <1>4 DEF Ordered, Answers

LEMMA AnsweredIsApplied ==
    ASSUME Types, Applies, Ordered, NEW r \in Reloader, pc[r] = "spec"
    PROVE  /\ gPc = "poll" /\ gReq = request
           /\ ca = want[r] /\ relays = want[r] /\ bound = binds[r]
<1>1. /\ gPc = "poll" /\ gReq = request /\ answer # None /\ answer.error = "no"
      /\ request = [seq |-> id[r], ver |-> want[r], binds |-> binds[r]]
    BY Zenon, AnsweredIsOver
<1>2. gReq.ver = want[r] /\ gReq.binds = binds[r]
    BY Zenon, <1>1
<1> QED
    BY Zenon, <1>1, <1>2 DEF Applies

LEMMA OrderedStep == InTurn /\ Types /\ Ordered /\ [Next]_vars => Ordered'
<1> SUFFICES ASSUME InTurn, Types, Ordered, [Next]_vars PROVE Ordered'
    BY Zenon
<1>0. /\ made \in Nat /\ pc \in [Reloader -> Steps] /\ id \in [Reloader -> Nat]
      /\ want \in [Reloader -> Version \cup {None}] /\ binds \in [Reloader -> Seq(Bind)]
      /\ request # None => request.seq \in Nat
      /\ gReq # None => gReq.seq \in Nat
      /\ answer # None => answer.seq \in Nat
    BY Zenon DEF Types, FilesOK, CommandOK, GuestOK, Request, Reply
<1>1. ASSUME NEW r \in Reloader, Begin(r) PROVE Ordered'
    <2>1. Turns'
        BY <1>0, <1>1 DEF Ordered, Turns, Answers, Begin, Goto, InTurn, guest, Asking, Steps
    <2>2. made' = made + 1 /\ UNCHANGED <<request, answer, gPc, gReq>>
        BY Zenon, <1>1 DEF Begin, guest
    <2>3. Answers'
        BY <1>0, <2>2 DEF Ordered, Answers
    <2> QED
        BY Zenon, <2>1, <2>3 DEF Ordered
<1>2. ASSUME NEW r \in Reloader, pc[r] # "idle", UNCHANGED <<made, guest>>,
             \E e \in {"ok", "failed"} : Return(r, e)
      PROVE Ordered'
    BY Zenon, <1>0, <1>2 DEF Ordered, Turns, Answers, Return, Goto, guest
<1>3. ASSUME NEW r \in Reloader, pc[r] # "idle", UNCHANGED <<made, guest, id, want>>,
             pc[r] # "spec", NEW s \in Asking, Goto(r, s), pc[r] \in Asking,
             \A q \in Reloader : q # r => binds'[q] = binds[q]
      PROVE Ordered'
    BY <1>0, <1>3 DEF Ordered, Turns, Answers, Goto, guest, Asking
<1>4. ASSUME NEW r \in Reloader, AskGuest(r) PROVE Ordered'
    <2>1. request # None => request.seq < made
        BY Zenon, <1>4 DEF AskGuest, Ordered, Turns, Asking
    <2>2. id[r] = made /\ \A q \in Reloader : pc[q] # "idle" => q = r
        BY Zenon, <1>4 DEF AskGuest, Ordered, Turns
    <2>3. request' = [seq |-> id[r], ver |-> want[r], binds |-> binds[r]] /\ request'.seq = made
        BY Zenon, <1>4, <2>2 DEF AskGuest
    <2>4. request' # None
        <3>1. want[r] \in Version /\ id[r] \in Nat /\ binds[r] \in Seq(Bind)
            BY Zenon, <1>0, <1>4 DEF AskGuest, Types, CommandOK
        <3>2. request' \in Request
            BY Zenon, <2>3, <3>1 DEF Request
        <3> QED
            BY Zenon, <3>2, ReloadAssumption
    <2>5. Turns'
        BY Zenon, <1>0, <1>4, <2>2, <2>3 DEF Ordered, Turns, AskGuest, Step, Goto, files, Asking
    <2>6. Answers'
        <3>1. UNCHANGED <<made, answer, gPc, gReq>>
            BY Zenon, <1>4 DEF AskGuest, files
        <3>2. gReq # None => gReq.seq < request'.seq
            BY <1>0, <2>1, <2>3 DEF Ordered, Answers
        <3>3. gReq # None => gReq.seq <= request'.seq /\ gReq.seq # request'.seq
            BY <1>0, <2>3, <3>2
        <3>4. request'.seq <= made
            BY <1>0, <2>3
        <3> QED
            BY Zenon, <2>4, <3>1, <3>3, <3>4 DEF Ordered, Answers
    <2> QED
        BY Zenon, <2>5, <2>6 DEF Ordered
<1>5. ASSUME NEW r \in Reloader, pc[r] = "guest", answer = [seq |-> id[r], error |-> "no"],
             Step(r, "spec"), UNCHANGED <<made, guest>>
      PROVE Ordered'
    BY Zenon, <1>0, <1>5 DEF Ordered, Turns, Answers, Step, Goto, guest, Asking
<1>6. ASSUME UNCHANGED <<made, guest, command>> PROVE Ordered'
    BY Zenon, <1>6 DEF Ordered, Turns, Answers, guest, command
<1>7. CASE Guest
    <2>1. UNCHANGED <<made, request, command>>
        BY Zenon, <1>7 DEF Guest, Poll, SetCABundle, Unmount, BindSnapshot, SetRelays, Answer, files
    <2>2. ASSUME NEW r \in Reloader, pc[r] = "spec" PROVE gPc = "poll" /\ gReq = request
        BY Zenon, <2>2, AnsweredIsOver
    <2>3. ASSUME NEW r \in Reloader, pc[r] = "spec" PROVE UNCHANGED answer
        BY Zenon, <1>7, <2>2, <2>3 DEF Guest, Poll, SetCABundle, Unmount, BindSnapshot, SetRelays, Answer
    <2>4. Turns'
        BY Zenon, <2>1, <2>3 DEF Ordered, Turns, command
    <2>5. ASSUME Poll PROVE Answers'
        <3>1. gReq # None => gReq.seq < request.seq
            BY <1>0, <2>5 DEF Poll, Ordered, Answers
        <3>2. answer # None => answer.seq < request.seq
            BY Zenon, <1>0, <2>5, <3>1 DEF Poll, Ordered, Answers
        <3> QED
            BY <1>0, <2>1, <2>5, <3>1, <3>2 DEF Poll, Ordered, Answers
    <2>6. ASSUME SetCABundle \/ Unmount \/ BindSnapshot \/ SetRelays PROVE Answers'
        <3>1. gPc # "poll" /\ gPc' # "poll" /\ UNCHANGED <<gReq, answer>>
            BY Zenon, <2>6 DEF SetCABundle, Unmount, BindSnapshot, SetRelays, Fail
        <3> QED
            BY Zenon, <2>1, <3>1 DEF Ordered, Answers
    <2>7. ASSUME Answer PROVE Answers'
        <3>1. gReq # None /\ UNCHANGED gReq /\ gPc' = "poll" /\ answer'.seq = gReq.seq
            BY Zenon, <2>7 DEF Answer, Types, GuestOK
        <3>2. answer' # None
            BY <1>0, <2>7, <3>1, ReloadAssumption DEF Answer, Reply
        <3> QED
            BY <1>0, <2>1, <3>1, <3>2 DEF Ordered, Answers
    <2> QED
        BY Zenon, <1>7, <2>4, <2>5, <2>6, <2>7 DEF Guest, Ordered
<1>8. ASSUME NEW r \in Reloader,
             Abandon(r) \/ Clear(r) \/ Stage(r) \/ NoteLog(r) \/ WritePolicy(r)
             \/ WriteBrokerRuntime(r) \/ Signal(r)
      PROVE Ordered'
    BY Zenon, <1>0, <1>2, <1>3, <1>8
       DEF Abandon, Clear, Stage, NoteLog, WritePolicy, WriteBrokerRuntime, Signal, Step, files, Asking
<1>9. ASSUME NEW r \in Reloader, AwaitBroker(r) PROVE Ordered'
    BY Zenon, <1>2, <1>3, <1>9 DEF AwaitBroker, Step, files, Asking
<1>10. ASSUME NEW r \in Reloader, AwaitGuest(r) \/ WriteSpec(r) PROVE Ordered'
    BY Zenon, <1>2, <1>5, <1>10 DEF AwaitGuest, WriteSpec, files
<1>11. ASSUME Edit \/ Broker \/ UNCHANGED vars PROVE Ordered'
    BY Zenon, <1>6, <1>11 DEF Edit, Broker, BrPolicy, BrRuntime, BrEvent, files, vars
<1> QED
    BY Zenon, <1>1, <1>4, <1>7, <1>8, <1>9, <1>10, <1>11 DEF Next

------------------------------------------------------------------------------
(* What the last reload that succeeded recorded is true. *)

LEMMA RecordsStep ==
    InTurn /\ Types /\ Applies /\ Ordered /\ Records /\ [Next]_vars => Records'
<1> SUFFICES ASSUME InTurn, Types, Applies, Ordered, Records, [Next]_vars PROVE Records'
    BY Zenon
<1> USE DEF Written, Signalled, Confirmed
<1>0. pc \in [Reloader -> Steps] /\ want \in [Reloader -> Version \cup {None}]
    BY Zenon DEF Types, CommandOK
<1>1. ASSUME NEW r \in Reloader, Begin(r) PROVE Records'
    BY Zenon, <1>0, <1>1 DEF Records, Begin, Goto, InTurn, NoneActive
<1>2. ASSUME NEW r \in Reloader, Return(r, "failed"), UNCHANGED <<polFile, rtFile, owed>>
      PROVE Records'
    BY Zenon, <1>0, <1>2 DEF Records, Return, Goto
<1>3. ASSUME NEW r \in Reloader, pc[r] # "idle", UNCHANGED <<polFile, rtFile, owed, want>>,
             NEW s \in Steps \ {"idle"}, Goto(r, s),
             s \in {"runtime"} \cup Written => polFile = want[r],
             s \in Written => rtFile = want[r],
             s \in Signalled => owed = "no"
      PROVE Records'
    BY Zenon, <1>0, <1>3 DEF Records, Goto, NoneActive
<1>4. ASSUME NEW r \in Reloader, Clear(r) PROVE Records'
    BY Zenon, <1>3, <1>4 DEF Clear, Step, broker, Steps
<1>5. ASSUME NEW r \in Reloader, Stage(r) PROVE Records'
    BY Zenon, <1>2, <1>3, <1>5 DEF Stage, broker, Steps
<1>6. ASSUME NEW r \in Reloader, NoteLog(r) PROVE Records'
    BY Zenon, <1>3, <1>6 DEF NoteLog, broker, Steps
<1>7. ASSUME NEW r \in Reloader, WritePolicy(r) \/ WriteBrokerRuntime(r) \/ Signal(r) PROVE Records'
    <2>1. \A q \in Reloader : q # r => pc[q] = "idle"
        BY Zenon, <1>7 DEF WritePolicy, WriteBrokerRuntime, Signal, Ordered, Turns
    <2> QED
        BY Zenon, <1>0, <1>7, <2>1
           DEF WritePolicy, WriteBrokerRuntime, Signal, Records, Step, Goto, NoneActive
<1>8. ASSUME NEW r \in Reloader, AwaitBroker(r) PROVE Records'
    BY Zenon, <1>2, <1>3, <1>8 DEF AwaitBroker, Step, Records, broker, Steps
<1>9. ASSUME NEW r \in Reloader, AskGuest(r) PROVE Records'
    BY Zenon, <1>3, <1>9 DEF AskGuest, Step, Records, broker, Steps
<1>10. ASSUME NEW r \in Reloader, AwaitGuest(r) PROVE Records'
    BY Zenon, <1>2, <1>3, <1>10 DEF AwaitGuest, Step, Records, broker, Steps
<1>11. ASSUME NEW r \in Reloader, WriteSpec(r) PROVE Records'
    <2>1. /\ pc[r] = "spec" /\ spec' = [ver |-> want[r], binds |-> binds[r]]
          /\ UNCHANGED <<polFile, rtFile, owed, guest>>
        BY Zenon, <1>11 DEF WriteSpec, broker
    <2>2. /\ gPc = "poll" /\ gReq = request
          /\ ca = want[r] /\ relays = want[r] /\ bound = binds[r]
        BY Zenon, <2>1, AnsweredIsApplied
    <2>3. polFile = want[r] /\ rtFile = want[r] /\ owed = "no"
        BY Zenon, <2>1 DEF Records
    <2>4. GuestIdle'
        BY Zenon, <2>1, <2>2 DEF GuestIdle, guest
    <2>5. \A q \in Reloader : pc'[q] = "idle"
        BY Zenon, <1>0, <1>11 DEF WriteSpec, Return, Goto, Ordered, Turns
    <2> QED
        BY Zenon, <2>1, <2>2, <2>3, <2>4, <2>5 DEF Records, guest
<1>12. ASSUME UNCHANGED <<pc, want, last, spec, polFile, rtFile, owed, guest>> PROVE Records'
    BY Zenon, <1>12 DEF Records, NoneActive, GuestIdle, guest
<1>13. CASE Guest
    <2>1. UNCHANGED <<pc, want, last, spec, polFile, rtFile, owed>>
        BY Zenon, <1>13 DEF Guest, Poll, SetCABundle, Unmount, BindSnapshot, SetRelays, Answer, files, broker, command
    <2>2. ~GuestIdle
        BY Zenon, <1>13
           DEF Guest, Poll, SetCABundle, Unmount, BindSnapshot, SetRelays, Answer, Fail, GuestIdle
    <2> QED
        BY Zenon, <2>1, <2>2 DEF Records, NoneActive
<1>14. ASSUME NEW r \in Reloader, Abandon(r) PROVE Records'
    BY Zenon, <1>2, <1>14 DEF Abandon, broker
<1>15. ASSUME Edit \/ Broker \/ UNCHANGED vars PROVE Records'
    BY Zenon, <1>12, <1>15 DEF Edit, Broker, BrPolicy, BrRuntime, BrEvent, files, broker, command, vars
<1> QED
    BY Zenon, <1>1, <1>4, <1>5, <1>6, <1>7, <1>8, <1>9, <1>10, <1>11, <1>13, <1>14, <1>15 DEF Next

------------------------------------------------------------------------------
(* When every reload waits for its event, an event confirms its own files. *)

LEMMA ConfirmsStep ==
    setting.faults \subseteq {"stage", "runtime", "guest"} /\ Types /\ Ordered /\ Records
    /\ Confirms /\ [Next]_vars => Confirms'
<1> SUFFICES ASSUME setting.faults \subseteq {"stage", "runtime", "guest"},
                    Types, Ordered, Records, Confirms, [Next]_vars
             PROVE  Confirms'
    BY Zenon
<1> USE DEF Confirmed
<1>0. /\ pc \in [Reloader -> Steps] /\ want \in [Reloader -> Version \cup {None}]
      /\ offset \in [Reloader -> Nat] /\ log \in Seq({"ok", "error"}) /\ Len(log) \in Nat
      /\ hup \in 0 .. 1 /\ brErr \in {"no", "yes"} /\ None \notin Version
    BY ReloadAssumption DEF Types, CommandOK, BrokerOK
<1>a. ASSUME NEW r \in Reloader, pc[r] # "idle" PROVE \A q \in Reloader : q # r => pc[q] = "idle"
    BY Zenon, <1>a DEF Ordered, Turns
<1>1. ASSUME NEW r \in Reloader, Begin(r) PROVE Confirms'
    <2>1. \A q \in Reloader : pc[q] = "idle"
        BY Zenon, <1>1 DEF Begin
    <2> QED
        BY Zenon, <1>0, <1>1, <2>1 DEF Confirms, Begin, Goto, broker
<1>2. ASSUME NEW r \in Reloader, pc[r] # "idle", Return(r, "failed") \/ Return(r, "ok"), UNCHANGED broker,
             hup = 0, brPc = "wait"
      PROVE Confirms'
    <2>1. \A q \in Reloader : pc'[q] = "idle"
        BY Zenon, <1>0, <1>2, <1>a DEF Return, Goto
    <2> QED
        BY Zenon, <1>2, <2>1 DEF Confirms, broker
<1>3. ASSUME NEW r \in Reloader, pc[r] \notin {"idle", "broker"} PROVE hup = 0 /\ brPc = "wait"
    BY Zenon, <1>0, <1>3, <1>a DEF Confirms
<1>4. ASSUME NEW r \in Reloader, pc[r] # "idle", NEW s \in Steps \ {"broker"}, Goto(r, s),
             UNCHANGED <<want, hup, log, brPc, brPol, brRt>>, hup = 0, brPc = "wait",
             \A q \in Reloader : q # r => offset'[q] = offset[q],
             s \in {"policy", "runtime", "signal"} => offset'[r] = Len(log),
             s \in Confirmed => brPol = want[r] /\ brRt = want[r]
      PROVE Confirms'
    BY Zenon, <1>0, <1>4, <1>a DEF Confirms, Goto
<1>5. ASSUME NEW r \in Reloader, Clear(r) \/ Stage(r) PROVE Confirms'
    BY Zenon, <1>2, <1>3, <1>4, <1>5 DEF Clear, Stage, Step, broker, Steps
<1>6. ASSUME NEW r \in Reloader, NoteLog(r) PROVE Confirms'
    BY Zenon, <1>0, <1>3, <1>4, <1>6 DEF NoteLog, broker, Steps
<1>7. ASSUME NEW r \in Reloader, WritePolicy(r) \/ WriteBrokerRuntime(r) PROVE Confirms'
    BY Zenon, <1>3, <1>4, <1>7 DEF WritePolicy, WriteBrokerRuntime, Step, Confirms, Steps
<1>8. ASSUME NEW r \in Reloader, Signal(r) PROVE Confirms'
    <2>1. hup' = 1 /\ brPc' = "wait" /\ Len(log') = offset'[r]
        BY Zenon, <1>3, <1>8 DEF Signal, Step, Confirms
    <2> QED
        BY Zenon, <1>0, <1>8, <1>a, <2>1 DEF Signal, Step, Goto, Confirms, Works
<1>9. ASSUME NEW r \in Reloader, AwaitBroker(r) PROVE Confirms'
    <2>1. Works(r) /\ Len(log) > offset[r]
        BY Zenon, <1>9 DEF AwaitBroker, Confirms
    <2>2. /\ hup = 0 /\ brPc = "wait"
          /\ log[offset[r] + 1] = "ok" => brPol = want[r] /\ brRt = want[r]
        BY <1>0, <2>1 DEF Works
    <2> QED
        BY Zenon, <1>2, <1>4, <1>9, <2>2 DEF AwaitBroker, Step, broker, Steps
<1>10. ASSUME NEW r \in Reloader, AskGuest(r) \/ AwaitGuest(r) PROVE Confirms'
    BY Zenon, <1>2, <1>3, <1>4, <1>10 DEF AskGuest, AwaitGuest, Step, Confirms, broker, Steps
<1>11. ASSUME NEW r \in Reloader, WriteSpec(r) PROVE Confirms'
    BY Zenon, <1>2, <1>3, <1>11 DEF WriteSpec
<1>12. ASSUME Broker PROVE Confirms'
    <2>1. brPc # "wait" \/ hup # 0
        BY <1>12 DEF Broker, BrPolicy, BrRuntime, BrEvent
    <2>2. PICK r \in Reloader : pc[r] = "broker"
        BY Zenon, <2>1 DEF Confirms
    <2>3. Works(r) /\ polFile = want[r] /\ rtFile = want[r] /\ want[r] \in Version
        BY Zenon, <2>2 DEF Confirms, Records, Written, Signalled, Types, CommandOK
    <2>4. UNCHANGED <<pc, want, offset>>
        BY Zenon, <1>12 DEF Broker, BrPolicy, BrRuntime, BrEvent, command
    <2>5. ASSUME BrPolicy PROVE Works(r)'
        BY <1>0, <2>3, <2>4, <2>5 DEF BrPolicy, Works
    <2>6. ASSUME BrRuntime PROVE Works(r)'
        BY Zenon, <1>0, <2>3, <2>4, <2>6 DEF BrRuntime, Works
    <2>7. ASSUME BrEvent PROVE Works(r)'
        <3>1. hup = 0 /\ brPol = want[r] /\ (brErr = "no" => brRt = want[r]) /\ Len(log) = offset[r]
            BY Zenon, <2>3, <2>7 DEF BrEvent, Works
        <3>2. Len(log') = Len(log) + 1 /\ log'[Len(log) + 1] = IF brErr = "yes" THEN "error" ELSE "ok"
            BY <1>0, <2>7 DEF BrEvent
        <3>3. UNCHANGED <<hup, brPol, brRt>> /\ brPc' = "wait"
            BY Zenon, <2>7 DEF BrEvent
        <3> QED
            BY Zenon, <1>0, <2>4, <3>1, <3>2, <3>3 DEF Works
    <2>8. Works(r)'
        BY Zenon, <1>12, <2>5, <2>6, <2>7 DEF Broker
    <2> QED
        BY Zenon, <1>a, <2>2, <2>4, <2>8 DEF Confirms
<1>13. ASSUME NEW r \in Reloader, Abandon(r) PROVE Confirms'
    BY Zenon, <1>13 DEF Abandon
<1>14. ASSUME UNCHANGED <<broker, command>> PROVE Confirms'
    BY Zenon, <1>14 DEF Confirms, Works, broker, command
<1>15. ASSUME Edit \/ Guest \/ UNCHANGED vars PROVE Confirms'
    BY Zenon, <1>14, <1>15 DEF Edit, Guest, Poll, SetCABundle, Unmount, BindSnapshot, SetRelays, Answer, vars
<1> QED
    BY Zenon, <1>1, <1>5, <1>6, <1>7, <1>8, <1>9, <1>10, <1>11, <1>12, <1>13, <1>15 DEF Next

------------------------------------------------------------------------------
(* When the guest does not fail either, what it binds stays staged. *)

LEMMA BoundGensOf ==
    ASSUME NEW bs \in Seq(Bind)
    PROVE  /\ bs # <<>> => BoundGens(SubSeq(bs, 1, Len(bs) - 1)) \subseteq BoundGens(bs)
           /\ \A b \in Bind : BoundGens(Append(bs, b)) \subseteq BoundGens(bs) \cup {b[1]}
<1>1. ASSUME bs # <<>> PROVE BoundGens(SubSeq(bs, 1, Len(bs) - 1)) \subseteq BoundGens(bs)
    <2>1. Len(bs) - 1 \in Nat
        BY <1>1
    <2>2. \A i \in 1 .. Len(bs) - 1 : SubSeq(bs, 1, Len(bs) - 1)[i] = bs[i] /\ i \in DOMAIN bs
        BY <2>1
    <2>3. DOMAIN SubSeq(bs, 1, Len(bs) - 1) = 1 .. Len(bs) - 1
        BY <2>1
    <2> QED
        BY Zenon, <2>2, <2>3 DEF BoundGens
<1>2. ASSUME NEW b \in Bind PROVE BoundGens(Append(bs, b)) \subseteq BoundGens(bs) \cup {b[1]}
    <2>1. \A i \in DOMAIN Append(bs, b) :
            (i \in DOMAIN bs /\ Append(bs, b)[i] = bs[i]) \/ Append(bs, b)[i] = b
        OBVIOUS
    <2> QED
        BY Zenon, <2>1 DEF BoundGens
<1> QED
    BY Zenon, <1>1, <1>2

LEMMA KeepsStep ==
    setting.faults \subseteq {"stage", "runtime"} /\ Types /\ Applies /\ Ordered
    /\ Keeps /\ [Next]_vars => Keeps'
<1> SUFFICES ASSUME setting.faults \subseteq {"stage", "runtime"},
                    Types, Applies, Ordered, Keeps, [Next]_vars
             PROVE  Keeps'
    BY Zenon
<1>0. /\ pc \in [Reloader -> Steps] /\ binds \in [Reloader -> Seq(Bind)]
      /\ running \in [Reloader -> Seq(Bind)] /\ bound \in Seq(Bind) /\ spec.binds \in Seq(Bind)
      /\ "guest" \notin setting.faults /\ "timeout" \notin setting.faults
      /\ "interrupt" \notin setting.faults /\ "overlap" \notin setting.faults
    BY Zenon DEF Types, FilesOK, CommandOK, GuestOK
<1>a. ASSUME NEW r \in Reloader, pc[r] # "idle" PROVE \A q \in Reloader : q # r => pc[q] = "idle"
    BY Zenon, <1>a DEF Ordered, Turns
<1>b. ASSUME NEW r \in Reloader, pc[r] \notin {"idle", "guest", "spec"}
      PROVE GuestIdle /\ bound = spec.binds
    BY Zenon, <1>a, <1>b DEF Keeps
<1>1. ASSUME NEW r \in Reloader, Begin(r) PROVE Keeps'
    <2>1. \A q \in Reloader : pc[q] = "idle"
        BY Zenon, <1>0, <1>1 DEF Begin
    <2>2. GuestIdle /\ bound = spec.binds
        BY Zenon, <2>1 DEF Keeps
    <2>3. UNCHANGED <<spec, staged, guest, binds>> /\ running'[r] = spec.binds
        BY Zenon, <1>0, <1>1 DEF Begin
    <2>4. GuestIdle' /\ bound' = spec'.binds
        BY Zenon, <2>2, <2>3 DEF GuestIdle, guest
    <2>5. \A q \in Reloader : pc'[q] \notin Staged /\ (pc'[q] # "idle" => running'[q] = spec'.binds)
        BY Zenon, <1>0, <1>1, <2>1, <2>3 DEF Begin, Goto, Staged, Steps
    <2> QED
        BY Zenon, <2>3, <2>4, <2>5 DEF Keeps, guest
<1>2. ASSUME NEW r \in Reloader, pc[r] \notin {"idle", "guest", "spec"}, Return(r, "failed"),
             UNCHANGED <<spec, staged, guest>>
      PROVE Keeps'
    <2>1. \A q \in Reloader : pc'[q] = "idle"
        BY Zenon, <1>0, <1>2, <1>a DEF Return, Goto
    <2>2. GuestIdle' /\ bound' = spec'.binds
        BY Zenon, <1>b, <1>2 DEF GuestIdle, guest
    <2> QED
        BY Zenon, <1>2, <2>1, <2>2 DEF Keeps, guest, Staged
<1>3. ASSUME NEW r \in Reloader, pc[r] # "idle", NEW s \in Steps \ {"idle"}, Goto(r, s),
             UNCHANGED <<spec, staged, answer, gPc, gReq, bound, running, binds>>,
             s # "guest" => request' = request, s = "guest" => pc[r] = "request",
             s \in Staged => pc[r] \in Staged,
             pc[r] \in {"guest", "spec"} => s \in {"guest", "spec"}
      PROVE Keeps'
    <2>1. \A q \in Reloader : q # r => pc'[q] = "idle"
        BY Zenon, <1>0, <1>3, <1>a DEF Goto
    <2>2. pc'[r] = s /\ running'[r] = spec'.binds
        BY Zenon, <1>0, <1>3 DEF Goto, Keeps
    <2>3. s \in Staged => OneGen(binds'[r]) /\ BoundGens(binds'[r]) \subseteq staged'
        BY Zenon, <1>3 DEF Keeps
    <2>4. s \notin {"guest", "spec"} => GuestIdle' /\ bound' = spec'.binds
        BY Zenon, <1>3, <1>b DEF GuestIdle
    <2>5. gPc' # "poll" => gReq' = request'
        BY Zenon, <1>3, <1>b DEF Keeps, GuestIdle
    <2> QED
        BY Zenon, <1>3, <2>1, <2>2, <2>3, <2>4, <2>5 DEF Keeps, Staged
<1>4. ASSUME NEW r \in Reloader, Clear(r) PROVE Keeps'
    <2>1. pc[r] = "clear" /\ staged' = staged \cap Keep(running[r]) /\ UNCHANGED <<spec, guest, running, binds>>
        BY Zenon, <1>4 DEF Clear, Step
    <2>2. GuestIdle /\ bound = spec.binds /\ running[r] = bound /\ OneGen(bound)
        BY Zenon, <1>b, <2>1 DEF Keeps
    <2>3. BoundGens(bound) \subseteq staged'
        BY Zenon, <1>0, <2>1, <2>2, KeepsBound DEF Keeps
    <2>4. \A q \in Reloader : pc'[q] \notin Staged /\ (pc'[q] # "idle" => q = r)
        BY Zenon, <1>0, <1>4, <1>a DEF Clear, Step, Goto, Staged, Steps
    <2>5. GuestIdle' /\ bound' = spec'.binds
        BY Zenon, <2>1, <2>2 DEF GuestIdle, guest
    <2> QED
        BY Zenon, <2>1, <2>2, <2>3, <2>4, <2>5 DEF Keeps, guest
<1>5. ASSUME NEW r \in Reloader, Stage(r) PROVE Keeps'
    <2> DEFINE new == Binds(id[r], want[r])
    <2>1. CASE Return(r, "failed") /\ UNCHANGED staged
        BY Zenon, <1>2, <1>5, <2>1 DEF Stage
    <2>2. CASE /\ Goto(r, "log") /\ binds' = [binds EXCEPT ![r] = new]
               /\ staged' = staged \cup Keep(new) /\ UNCHANGED <<id, want, running, offset, last>>
        <3>1. new \in Seq(Bind) /\ OneGen(new)
            BY Zenon, <1>5, BindsOf DEF Stage, Types, CommandOK
        <3>2. BoundGens(new) \subseteq staged'
            BY Zenon, <2>2, <3>1, KeepsBound
        <3>3. pc[r] = "stage" /\ UNCHANGED <<spec, guest, running>> /\ binds'[r] = new
            BY Zenon, <1>0, <1>5, <2>2 DEF Stage
        <3>4. \A q \in Reloader : q # r => pc'[q] = "idle"
            BY Zenon, <1>0, <1>a, <2>2, <3>3 DEF Goto
        <3>5. GuestIdle' /\ bound' = spec'.binds
            BY Zenon, <1>b, <3>3 DEF GuestIdle, guest
        <3>6. BoundGens(bound') \subseteq staged'
            BY Zenon, <2>2, <3>3 DEF Keeps, guest
        <3> QED
            BY Zenon, <3>1, <3>2, <3>3, <3>4, <3>5, <3>6 DEF Keeps, guest, Staged
    <2> QED
        BY Zenon, <1>5, <2>1, <2>2 DEF Stage
<1>6. ASSUME NEW r \in Reloader,
             NoteLog(r) \/ WritePolicy(r) \/ WriteBrokerRuntime(r) \/ Signal(r) \/ AskGuest(r)
      PROVE Keeps'
    <2>1. /\ "policy" \in Steps \ {"idle"} /\ "runtime" \in Steps \ {"idle"} /\ "signal" \in Steps \ {"idle"}
          /\ "broker" \in Steps \ {"idle"} /\ "guest" \in Steps \ {"idle"}
          /\ {"log", "policy", "runtime", "signal", "request"} \subseteq Staged
        BY Zenon DEF Staged, Steps
    <2>2. UNCHANGED <<spec, staged, answer, gPc, gReq, bound, running, binds>>
        BY Zenon, <1>6 DEF NoteLog, WritePolicy, WriteBrokerRuntime, Signal, AskGuest, Step, files, guest
    <2>3. CASE AskGuest(r)
        BY Zenon, <1>3, <2>1, <2>2, <2>3 DEF AskGuest, Step
    <2>4. CASE ~AskGuest(r)
        <3>1. request' = request
            BY Zenon, <1>6, <2>4 DEF NoteLog, WritePolicy, WriteBrokerRuntime, Signal, guest
        <3>2. CASE NoteLog(r)
            BY Zenon, <1>3, <2>1, <2>2, <3>1, <3>2 DEF NoteLog
        <3>3. CASE WritePolicy(r)
            BY Zenon, <1>3, <2>1, <2>2, <3>1, <3>3 DEF WritePolicy, Step
        <3>4. CASE WriteBrokerRuntime(r)
            BY Zenon, <1>3, <2>1, <2>2, <3>1, <3>4 DEF WriteBrokerRuntime, Step
        <3>5. CASE Signal(r)
            BY Zenon, <1>3, <2>1, <2>2, <3>1, <3>5 DEF Signal, Step
        <3> QED
            BY Zenon, <1>6, <2>4, <3>2, <3>3, <3>4, <3>5
    <2> QED
        BY Zenon, <2>3, <2>4
<1>7. ASSUME NEW r \in Reloader, AwaitBroker(r) PROVE Keeps'
    <2>1. pc[r] = "broker" /\ UNCHANGED <<spec, staged, guest>> /\ "broker" \in Staged
        BY Zenon, <1>7 DEF AwaitBroker, files, Staged, Steps
    <2>2. CASE Return(r, "failed")
        BY Zenon, <1>2, <2>1, <2>2
    <2>3. CASE Step(r, "request")
        <3>1. "request" \in Steps \ {"idle"} /\ UNCHANGED <<answer, gPc, gReq, bound, request>>
            BY Zenon, <2>1 DEF Steps, guest
        <3> QED
            BY Zenon, <1>3, <2>1, <2>3, <3>1 DEF Step, Goto
    <2> QED
        BY Zenon, <1>0, <1>7, <2>2, <2>3 DEF AwaitBroker
<1>8. ASSUME NEW r \in Reloader, AwaitGuest(r) PROVE Keeps'
    <2>1. answer # [seq |-> id[r], error |-> "yes"]
        <3>1. ASSUME answer = [seq |-> id[r], error |-> "yes"] PROVE FALSE
            <4>1. answer \in Reply
                BY Zenon, <3>1 DEF Reply, Types, CommandOK
            <4> QED
                BY Zenon, <3>1, <4>1, ReloadAssumption DEF Keeps
        <3> QED
            BY Zenon, <3>1
    <2> QED
        <3>1. pc[r] = "guest" /\ Step(r, "spec")
            BY Zenon, <1>0, <1>8, <2>1 DEF AwaitGuest
        <3>2. UNCHANGED <<spec, staged, answer, gPc, gReq, bound, request>>
            BY Zenon, <1>8 DEF AwaitGuest, files, guest
        <3>3. "spec" \in Steps \ {"idle"} /\ "guest" \in Staged
            BY Zenon DEF Steps, Staged
        <3> QED
            BY Zenon, <1>3, <3>1, <3>2, <3>3 DEF Step, Goto
<1>9. ASSUME NEW r \in Reloader, WriteSpec(r) PROVE Keeps'
    <2>1. pc[r] = "spec" /\ spec'.binds = binds[r] /\ UNCHANGED <<guest, staged>>
        BY Zenon, <1>9 DEF WriteSpec
    <2>2. gPc = "poll" /\ gReq = request /\ bound = binds[r]
        BY Zenon, <2>1, AnsweredIsApplied
    <2>3. OneGen(binds[r])
        BY Zenon, <2>1 DEF Keeps, Staged, Steps
    <2>4. \A q \in Reloader : pc'[q] = "idle"
        BY Zenon, <1>0, <1>9, <1>a DEF WriteSpec, Return, Goto
    <2>5. GuestIdle'
        BY Zenon, <2>1, <2>2 DEF GuestIdle, guest
    <2> QED
        BY Zenon, <2>1, <2>2, <2>3, <2>4, <2>5 DEF Keeps, guest, Staged
<1>10. CASE Guest
    <2>1. UNCHANGED <<spec, staged, request, pc, running, binds>>
        BY Zenon, <1>10 DEF Guest, Poll, SetCABundle, Unmount, BindSnapshot, SetRelays, Answer, files, command
    <2>2. ~GuestIdle
        BY Zenon, <1>10
           DEF Guest, Poll, SetCABundle, Unmount, BindSnapshot, SetRelays, Answer, Fail, GuestIdle
    <2>3. PICK r \in Reloader : pc[r] \in {"guest", "spec"}
        BY Zenon, <2>2 DEF Keeps
    <2>4. pc[r] = "guest"
        BY Zenon, <2>2, <2>3, AnsweredIsOver DEF GuestIdle
    <2>5. request.binds = binds[r] /\ BoundGens(binds[r]) \subseteq staged
        <3>1. "guest" \in Staged /\ "guest" # "idle"
            BY Zenon DEF Staged, Steps
        <3>2. request = [seq |-> id[r], ver |-> want[r], binds |-> binds[r]]
            BY Zenon, <2>4 DEF Ordered, Turns
        <3> QED
            BY Zenon, <2>4, <3>1, <3>2 DEF Keeps
    <2>6. ASSUME Poll PROVE Keeps'
        BY Zenon, <2>1, <2>4, <2>6 DEF Poll, Keeps
    <2>7. ASSUME SetCABundle \/ SetRelays PROVE Keeps'
        BY Zenon, <1>0, <2>1, <2>4, <2>7 DEF SetCABundle, SetRelays, Fail, Keeps
    <2>8. ASSUME Unmount PROVE Keeps'
        <3>1. BoundGens(bound') \subseteq BoundGens(bound) /\ gPc' # "failed"
            BY Zenon, <1>0, <2>8, BoundGensOf DEF Unmount, Fail
        <3> QED
            BY Zenon, <2>1, <2>4, <2>8, <3>1 DEF Unmount, Fail, Keeps
    <2>9. ASSUME BindSnapshot PROVE Keeps'
        <3>1. gPc = "bind" /\ gReq.binds = binds[r]
            BY Zenon, <1>0, <2>5, <2>9 DEF BindSnapshot, Fail, Keeps
        <3>2. \A n \in DOMAIN gReq.binds : gReq.binds[n][1] \in staged /\ gReq.binds[n] \in Bind
            <4>1. binds[r] \in Seq(Bind) /\ \A n \in DOMAIN binds[r] : binds[r][n] \in Bind
                BY <1>0
            <4>2. \A n \in DOMAIN binds[r] : binds[r][n][1] \in BoundGens(binds[r])
                BY Zenon DEF BoundGens
            <4> QED
                BY Zenon, <2>5, <3>1, <4>1, <4>2
        <3>3. BoundGens(bound') \subseteq staged /\ gPc' # "failed"
            <4>1. BoundGens(bound) \subseteq staged
                BY Zenon DEF Keeps
            <4>2. \A b \in Bind : b[1] \in staged => BoundGens(Append(bound, b)) \subseteq staged
                <5> TAKE b \in Bind
                <5>1. BoundGens(Append(bound, b)) \subseteq BoundGens(bound) \cup {b[1]}
                    BY Zenon, <1>0, BoundGensOf
                <5> QED
                    BY Zenon, <4>1, <5>1
            <4>3. \/ /\ Len(bound) + 1 \in DOMAIN gReq.binds /\ gPc' = gPc
                     /\ bound' = Append(bound, gReq.binds[Len(bound) + 1])
                  \/ gPc' = "relays" /\ bound' = bound
                BY Zenon, <1>0, <2>9, <3>1, <3>2 DEF BindSnapshot, Fail
            <4> QED
                BY Zenon, <3>1, <3>2, <4>1, <4>2, <4>3
        <3> QED
            BY Zenon, <2>1, <2>4, <2>9, <3>1, <3>3 DEF BindSnapshot, Keeps
    <2>10. ASSUME Answer PROVE Keeps'
        BY Zenon, <2>1, <2>4, <2>10 DEF Answer, Keeps
    <2> QED
        BY Zenon, <1>10, <2>6, <2>7, <2>8, <2>9, <2>10 DEF Guest
<1>11. ASSUME NEW r \in Reloader, Abandon(r) PROVE Keeps'
    BY Zenon, <1>0, <1>11 DEF Abandon
<1>12. ASSUME Edit \/ Broker \/ UNCHANGED vars PROVE Keeps'
    <2>1. UNCHANGED <<spec, staged, guest, pc, running, binds>>
        BY Zenon, <1>12 DEF Edit, Broker, BrPolicy, BrRuntime, BrEvent, files, command, vars
    <2> QED
        BY Zenon, <2>1 DEF Keeps, GuestIdle, guest
<1> QED
    BY Zenon, <1>1, <1>4, <1>5, <1>6, <1>7, <1>8, <1>9, <1>10, <1>11, <1>12 DEF Next

------------------------------------------------------------------------------

ReloadInv ==
    /\ Types /\ Applies
    /\ InTurn => Ordered /\ Records
    /\ setting.faults \subseteq {"stage", "runtime", "guest"} => Confirms
    /\ setting.faults \subseteq {"stage", "runtime"} => Keeps

LEMMA ReloadInvInit == Init => ReloadInv
<1> SUFFICES ASSUME Init PROVE ReloadInv
    BY Zenon
<1>1. Types
    BY Zenon, TypesInit
<1> PICK v \in Version :
        /\ spec = [ver |-> v, binds |-> Binds(0, v)] /\ staged = {0}
        /\ polFile = v /\ rtFile = v /\ owed = "no" /\ hup = 0
        /\ brPc = "wait" /\ brPol = v /\ brRt = v
        /\ request = None /\ answer = None
        /\ gPc = "poll" /\ gReq = None /\ ca = v /\ bound = Binds(0, v) /\ relays = v
        /\ pc = [r \in Reloader |-> "idle"]
    BY Zenon DEF Init
<1>2. Applies
    BY Zenon DEF Applies
<1>3. Ordered
    BY Zenon DEF Ordered, Turns, Answers
<1>4. Records
    BY Zenon DEF Records, GuestIdle, Written, Signalled, Confirmed
<1>5. Confirms
    BY Zenon DEF Confirms, Confirmed
<1>6. Keeps
    <2>1. OneGen(Binds(0, v)) /\ BoundGens(Binds(0, v)) \subseteq {0}
        BY Zenon, BindsOf DEF BoundGens, Binds
    <2> QED
        BY Zenon, <2>1 DEF Keeps, GuestIdle, Staged
<1> QED
    BY Zenon, <1>1, <1>2, <1>3, <1>4, <1>5, <1>6 DEF ReloadInv

LEMMA ReloadInvStep == ReloadInv /\ [Next]_vars => ReloadInv'
<1> SUFFICES ASSUME ReloadInv, [Next]_vars PROVE ReloadInv'
    BY Zenon
<1>1. setting' = setting
    BY Zenon DEF Next, vars, Edit, Begin, Abandon, Clear, Stage, NoteLog, WritePolicy, WriteBrokerRuntime,
           Signal, AwaitBroker, AskGuest, AwaitGuest, WriteSpec, Broker, BrPolicy, BrRuntime, BrEvent,
           Guest, Poll, SetCABundle, Unmount, BindSnapshot, SetRelays, Answer
<1>2. setting.faults \subseteq {"stage", "runtime"} =>
        setting.faults \subseteq {"stage", "runtime", "guest"}
    BY Zenon
<1>3. setting.faults \subseteq {"stage", "runtime", "guest"} => InTurn
    BY Zenon DEF InTurn
<1>4. Types' /\ Applies'
    BY Zenon, TypesStep, AppliesStep DEF ReloadInv
<1>5. InTurn => Ordered' /\ Records'
    BY Zenon, OrderedStep, RecordsStep DEF ReloadInv
<1>6. setting.faults \subseteq {"stage", "runtime", "guest"} => Confirms'
    BY Zenon, <1>3, ConfirmsStep DEF ReloadInv
<1>7. setting.faults \subseteq {"stage", "runtime"} => Keeps'
    BY Zenon, <1>2, <1>3, KeepsStep DEF ReloadInv
<1>8. InTurn' <=> InTurn
    BY Zenon, <1>1 DEF InTurn
<1> QED
    BY Zenon, <1>1, <1>4, <1>5, <1>6, <1>7, <1>8 DEF ReloadInv

\* reloadVM with the broker and the guest beside it: after a reload that
\* succeeds the recorded spec describes the VM, a reload goes past the broker
\* only with its own files applied, and the snapshots in use stay staged,
\* whatever the reloads before it left behind.
THEOREM ReloadAlwaysFaithful == Spec => []ReloadFaithful
<1>1. ReloadInv => ReloadFaithful
    <2> SUFFICES ASSUME ReloadInv PROVE ReloadFaithful
        BY Zenon
    <2>1. SpecFaithful
        BY Zenon DEF ReloadInv, InTurn, Records, NoneActive, SpecFaithful
    <2>2. BrokerConfirmed
        BY Zenon DEF ReloadInv, Confirms, Confirmed, BrokerConfirmed
    <2>3. SnapshotsKept
        BY Zenon DEF ReloadInv, Keeps, SnapshotsKept, BoundIsStaged
    <2> QED
        BY Zenon, <2>1, <2>2, <2>3 DEF ReloadFaithful
<1> QED
    BY <1>1, ReloadInvInit, ReloadInvStep, PTL DEF Spec

\* The files, channels and programs of a reload only ever hold values of their
\* types: in particular the guest never works without a request it took up.
THEOREM ReloadTypes == Spec => []TypeOK
BY TypesSay, TypesInit, TypesStep, PTL DEF Spec
==============================================================================
