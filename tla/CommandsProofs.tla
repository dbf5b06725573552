--------------------------- MODULE CommandsProofs ----------------------------
(***************************************************************************)
(* ProfileExclusive and FilesFaithful of Workspaces for any number of      *)
(* workspaces, profiles and supervisors, when one command runs at a time   *)
(* and none is cut short while it waits for its supervisor (the runs       *)
(* profile_race and lost_vm show what happens otherwise); and, for any     *)
(* commands, that supervisors implement VMLifecycle.                       *)
(***************************************************************************)
EXTENDS Workspaces, TLAPS

NamesApart ==
    /\ None \notin Workspace \cup Profiles \cup PID \cup [pid : PID, ready : {"yes", "no"}]
    /\ "none" \notin Profile

Early == {"new", "booting", "failing"}
Announced == {"ready", "ending"}

------------------------------------------------------------------------------
(* The invariant: what supervisors rest on. *)

\* The state file of its workspace names a supervisor that lives, as ready once it
\* was, except before its first write; until it is ready, or gone, the command that
\* started it waits for it.
Known(c) ==
    \A s \in PID : Alive(s) =>
        /\ of[s] \in Workspace
        /\ life[s] = "new" => file[of[s]] = None
        /\ life[s] # "new" =>
            /\ file[of[s]] # None /\ file[of[s]].pid = s
            /\ file[of[s]].ready = IF life[s] \in Announced THEN "yes" ELSE "no"
        /\ life[s] \in Early => pc[c] = "wait" /\ saw[c] = s /\ ws[c] = of[s]

\* A VM that is up has its supervisor, and the socket.
Serving == \A s \in PID : vm[s] = "up" => Alive(s) /\ life[s] # "new" /\ sock[of[s]] = s

\* A state file names a supervisor of its workspace.
Named ==
    \A w \in Workspace : file[w] # None =>
        /\ file[w].pid \in PID /\ life[file[w].pid] \notin {"unused", "new"}
        /\ Alive(file[w].pid) => of[file[w].pid] = w

\* A supervisor that has read its spec is covered by its workspace's claim.
Claimed ==
    \A s \in PID : Alive(s) /\ life[s] # "new" =>
        spec[of[s]] = uses[s] /\ (uses[s] \in Profile => owner[uses[s]] = of[s])

\* A marker beside an announced VM is true.
Marked ==
    \A s \in PID : life[s] \in Announced /\ vm[s] = "up" /\ marker[of[s]] = "yes" => got[s] = "yes"

------------------------------------------------------------------------------
(* The invariant: what the command rests on. *)

\* The command is on its way to start a VM.
Starting(c) ==
    pc[c] \in {"build", "start", "spec", "fork", "wait"} \/ (pc[c] \in {"stop", "stopWait"} /\ after[c] = "spec")

Aim(c) ==
    /\ pc[c] # "idle" => ws[c] \in Workspace /\ prof[c] \in Profiles
    /\ pc[c] \in {"claim", "record"} => prof[c] \in Profile
    /\ pc[c] \in {"stop", "stopWait"} => after[c] \in {"idle", "spec", "release"}
    /\ pc[c] \in {"wait", "stopWait"} => saw[c] \in PID

\* Where it replaces or removes the files of its workspace, no supervisor of it
\* lives; and it waits for the end of the one that does.
Clear(c) ==
    /\ pc[c] \in {"spec", "fork", "release", "purge"} => \A s \in PID : Alive(s) => of[s] # ws[c]
    /\ pc[c] = "stopWait" => file[ws[c]] # None /\ file[ws[c]].pid = saw[c]

\* What it starts has the profile to itself.
Granted(c) ==
    /\ pc[c] = "record" => \A s \in PID : Alive(s) /\ uses[s] = prof[c] => of[s] = ws[c]
    /\ Starting(c) /\ prof[c] \in Profile => owner[prof[c]] = ws[c]
    /\ pc[c] \in {"fork", "wait", "respec"} => spec[ws[c]] = prof[c]

\* A VM starts without a marker, and the marker is set for a VM with secrets.
Fresh(c) ==
    /\ Starting(c) /\ pc[c] # "build" => marker[ws[c]] = "no"
    /\ pc[c] = "mark" => \A s \in PID : Alive(s) /\ of[s] = ws[c] /\ vm[s] = "up" => got[s] = "yes"

Commanding(c) == Aim(c) /\ Clear(c) /\ Granted(c) /\ Fresh(c)
Supervised(c) == Known(c) /\ Serving /\ Named /\ Claimed /\ Marked
OneInv(c) == TypeOK /\ Supervised(c) /\ Commanding(c)

------------------------------------------------------------------------------
(* Lemmas. *)

LEMMA OneInit == ASSUME NEW c, Command = {c}, Init PROVE OneInv(c)
<1> USE DEF Init
<1>1. TypeOK
    BY Zenon DEF TypeOK, Steps
<1>2. Supervised(c)
    BY Zenon DEF Supervised, Known, Serving, Named, Claimed, Marked, Alive, Announced
<1>3. Commanding(c)
    BY Zenon DEF Commanding, Aim, Clear, Granted, Fresh, Starting
<1> QED BY Zenon, <1>1, <1>2, <1>3 DEF OneInv

\* The functions the steps update.
Domains(c) ==
    /\ DOMAIN pc = {c} /\ DOMAIN ws = {c} /\ DOMAIN prof = {c} /\ DOMAIN saw = {c} /\ DOMAIN after = {c}
    /\ DOMAIN file = Workspace /\ DOMAIN spec = Workspace /\ DOMAIN marker = Workspace /\ DOMAIN sock = Workspace
    /\ DOMAIN owner = Profile
    /\ DOMAIN life = PID /\ DOMAIN vm = PID /\ DOMAIN of = PID /\ DOMAIN uses = PID /\ DOMAIN got = PID

LEMMA HasDomains == ASSUME NEW c, Command = {c}, TypeOK PROVE Domains(c)
BY Zenon DEF TypeOK, Domains

\* A workspace has one supervisor that lives.
LEMMA Distinct ==
    ASSUME NEW c, Known(c), NEW s \in PID, NEW t \in PID, Alive(s), Alive(t), of[s] = of[t]
    PROVE  s = t
BY DEF Known, Early

\* While the command does not wait for one, every supervisor that lives runs.
LEMMA Settled ==
    ASSUME NEW c, Known(c), pc[c] # "wait", NEW s \in PID, Alive(s)
    PROVE  /\ life[s] \in Announced /\ of[s] \in Workspace /\ Running(of[s])
           /\ file[of[s]] # None /\ file[of[s]].pid = s
BY Zenon DEF Known, Alive, Early, Announced, Running

SupStep == \E s \in PID : SupRead(s) \/ SupBoot(s) \/ SupReady(s) \/ SupEnd(s) \/ VMHalt(s) \/ SupExit(s)

\* A step is the command's, or a supervisor's.
LEMMA OneCommand ==
    ASSUME NEW c, Command = {c}, [Next]_vars
    PROVE  \/ Begin(c) \/ Interrupt(c)
           \/ UpCheck(c) \/ Claim(c) \/ Record(c) \/ Build(c) \/ Start(c) \/ WriteSpec(c)
           \/ Fork(c) \/ Wait(c) \/ Deliver(c) \/ Mark(c) \/ Reload(c) \/ Respec(c)
           \/ DownCheck(c) \/ Stop(c) \/ StopWait(c) \/ Release(c) \/ Purge(c)
           \/ SupStep \/ UNCHANGED vars
BY Zenon DEF Next, Sup, SupStep

LEMMA TypesStep ==
    ASSUME NEW c, Command = {c}, NamesApart, OneInv(c), [Next]_vars
    PROVE  TypeOK'
<1>0. TypeOK /\ Aim(c) /\ Known(c)
    BY Zenon DEF OneInv, Commanding, Supervised
<1> USE <1>0 DEF TypeOK, Aim, command, files, profiles, sups
<1>1. CASE Begin(c)
    BY <1>1 DEF Begin, Goto, Ops, Steps
<1>2. CASE Interrupt(c)
    BY Zenon, <1>2 DEF Interrupt, Return, Steps
<1>3. CASE UpCheck(c)
    BY <1>3 DEF UpCheck, Step, Goto, Return, Steps
<1>4. CASE Claim(c)
    BY <1>4 DEF Claim, Step, Goto, Return, Steps
<1>5. CASE Record(c)
    BY Zenon, <1>5 DEF Record, Step, Goto, Steps
<1>6. CASE Build(c)
    BY <1>6 DEF Build, Step, Goto, Return, Steps
<1>7. CASE Start(c)
    BY <1>7 DEF Start, Step, Goto, CallStop, Steps
<1>8. CASE WriteSpec(c)
    BY Zenon, <1>8 DEF WriteSpec, Step, Goto, Steps
<1>9. CASE Fork(c)
    BY <1>9 DEF Fork, Goto, Steps
<1>10. CASE Wait(c)
    BY <1>10 DEF Wait, Step, Goto, Return, Steps
<1>11. CASE Deliver(c)
    BY <1>11 DEF Deliver, Step, Goto, Return, CallStop, Steps
<1>12. CASE Mark(c)
    BY Zenon, <1>12 DEF Mark, Return, Steps
<1>13. CASE Reload(c)
    BY <1>13 DEF Reload, Goto, Return, Steps
<1>14. CASE Respec(c)
    BY <1>14 DEF Respec, Step, Goto, Return, Steps
<1>15. CASE DownCheck(c)
    BY <1>15 DEF DownCheck, CallStop, Step, Goto, Return, Steps
<1>16. CASE Stop(c)
    BY <1>16 DEF Stop, Resume, Goto, Return, Steps
<1>17. CASE StopWait(c)
    BY SMTT(30), <1>17 DEF StopWait, Resume, Goto, Return, Steps
<1>18. CASE Release(c)
    BY <1>18 DEF Release, Step, Goto, Return, Steps
<1>19. CASE Purge(c)
    BY Zenon, <1>19 DEF Purge, Return, Steps
<1>20. ASSUME NEW s \in PID, SupRead(s) PROVE TypeOK'
    <2>1. of[s] \in Workspace
        BY Zenon, <1>20 DEF SupRead, Known, Alive
    <2> QED BY <1>20, <2>1 DEF SupRead
<1>21. ASSUME NEW s \in PID, SupBoot(s) PROVE TypeOK'
    BY Zenon, <1>21 DEF SupBoot
<1>22. ASSUME NEW s \in PID, SupReady(s) PROVE TypeOK'
    BY Zenon, <1>22 DEF SupReady
<1>23. ASSUME NEW s \in PID, SupEnd(s) PROVE TypeOK'
    BY Zenon, <1>23 DEF SupEnd
<1>24. ASSUME NEW s \in PID, VMHalt(s) PROVE TypeOK'
    BY Zenon, <1>24 DEF VMHalt
<1>25. ASSUME NEW s \in PID, SupExit(s) PROVE TypeOK'
    <2>1. file' \in [Workspace -> [pid : PID, ready : {"yes", "no"}] \cup {None}]
        BY <1>25 DEF SupExit
    <2> QED BY Zenon, <1>25, <2>1 DEF SupExit
<1>26. CASE UNCHANGED vars
    BY Zenon, <1>26 DEF vars
<1> HIDE DEF TypeOK, Aim
<1> QED BY Zenon, OneCommand, <1>1, <1>2, <1>3, <1>4, <1>5, <1>6, <1>7, <1>8, <1>9, <1>10, <1>11, <1>12, <1>13, <1>14, <1>15, <1>16, <1>17, <1>18, <1>19, <1>20, <1>21, <1>22, <1>23, <1>24, <1>25, <1>26 DEF SupStep

\* The steps that need nothing but the command's own aim.
Resting == {"idle", "check", "claim", "down", "reload", "deliver", "redeliver"}

\* How the command gets to each of the other steps.
Arrived(c) ==
    \/ pc'[c] \in Resting
    \/ pc'[c] = "record" /\ Claim(c)
    \/ pc'[c] = "build" /\ (UpCheck(c) \/ Record(c))
    \/ pc'[c] = "start" /\ Build(c)
    \/ pc'[c] = "stop" /\ (Start(c) \/ Deliver(c) \/ DownCheck(c))
    \/ pc'[c] = "stopWait" /\ Stop(c)
    \/ pc'[c] \in {"spec", "release"} /\ (Stop(c) \/ StopWait(c))
    \/ pc'[c] = "spec" /\ Start(c)
    \/ pc'[c] = "fork" /\ WriteSpec(c)
    \/ pc'[c] = "wait" /\ Fork(c)
    \/ pc'[c] = "mark" /\ Deliver(c)
    \/ pc'[c] = "respec" /\ Reload(c)
    \/ pc'[c] = "purge" /\ Release(c)

LEMMA Arrives ==
    ASSUME NEW c, Command = {c}, OneInv(c), [Next]_vars
    PROVE  Arrived(c) \/ SupStep \/ UNCHANGED vars
<1>0. Domains(c) /\ Aim(c)
    BY Zenon, HasDomains DEF OneInv, Commanding
<1> USE Zenon, <1>0 DEF Domains, Arrived, Resting
<1>1. CASE Begin(c)
    BY <1>1 DEF Begin, Goto, Ops
<1>2. CASE Interrupt(c)
    BY <1>2 DEF Interrupt, Return
<1>3. CASE UpCheck(c)
    BY <1>3 DEF UpCheck, Step, Goto, Return
<1>4. CASE Claim(c)
    BY <1>4 DEF Claim, Step, Goto, Return
<1>5. CASE Record(c)
    BY <1>5 DEF Record, Step, Goto
<1>6. CASE Build(c)
    BY <1>6 DEF Build, Step, Goto, Return
<1>7. CASE Start(c)
    BY <1>7 DEF Start, Step, Goto, CallStop
<1>8. CASE WriteSpec(c)
    BY <1>8 DEF WriteSpec, Step, Goto
<1>9. CASE Fork(c)
    BY <1>9 DEF Fork, Goto
<1>10. CASE Wait(c)
    BY <1>10 DEF Wait, Step, Goto, Return
<1>11. CASE Deliver(c)
    BY <1>11 DEF Deliver, Step, Goto, Return, CallStop
<1>12. CASE Mark(c)
    BY <1>12 DEF Mark, Return
<1>13. CASE Reload(c)
    BY <1>13 DEF Reload, Goto, Return
<1>14. CASE Respec(c)
    BY <1>14 DEF Respec, Step, Goto, Return
<1>15. CASE DownCheck(c)
    BY <1>15 DEF DownCheck, CallStop, Step, Goto, Return
<1>16. CASE Stop(c)
    BY <1>16 DEF Stop, Resume, Goto, Return, Aim
<1>17. CASE StopWait(c)
    BY <1>17 DEF StopWait, Resume, Goto, Return, Aim
<1>18. CASE Release(c)
    BY <1>18 DEF Release, Step, Goto, Return
<1>19. CASE Purge(c)
    BY <1>19 DEF Purge, Return
<1> QED BY OneCommand, <1>1, <1>2, <1>3, <1>4, <1>5, <1>6, <1>7, <1>8, <1>9, <1>10, <1>11, <1>12, <1>13, <1>14, <1>15, <1>16, <1>17, <1>18, <1>19

LEMMA AimStep ==
    ASSUME NEW c, Command = {c}, NamesApart, OneInv(c), [Next]_vars
    PROVE  Aim(c)'
<1>0. Domains(c) /\ Aim(c) /\ Named /\ TypeOK
    BY Zenon, HasDomains DEF OneInv, Commanding, Supervised
<1> USE Zenon, <1>0 DEF Domains, Aim, command
<1>1. CASE Begin(c)
    BY <1>1 DEF Begin, Goto, Ops, Profiles
<1>2. CASE Interrupt(c)
    BY <1>2 DEF Interrupt, Return
<1>3. CASE UpCheck(c)
    BY <1>3 DEF UpCheck, Step, Goto, Return, Profiles
<1>4. CASE Claim(c)
    BY <1>4 DEF Claim, Step, Goto, Return
<1>5. CASE Record(c)
    BY <1>5 DEF Record, Step, Goto
<1>6. CASE Build(c)
    BY <1>6 DEF Build, Step, Goto, Return
<1>7. CASE Start(c)
    BY <1>7 DEF Start, Step, Goto, CallStop
<1>8. CASE WriteSpec(c)
    BY <1>8 DEF WriteSpec, Step, Goto
<1>9. CASE Fork(c)
    BY <1>9 DEF Fork, Goto
<1>10. CASE Wait(c)
    BY <1>10 DEF Wait, Step, Goto, Return
<1>11. CASE Deliver(c)
    BY <1>11 DEF Deliver, Step, Goto, Return, CallStop
<1>12. CASE Mark(c)
    BY <1>12 DEF Mark, Return
<1>13. CASE Reload(c)
    BY SMT, <1>13 DEF Reload, Goto, Return, TypeOK
<1>14. CASE Respec(c)
    BY <1>14 DEF Respec, Step, Goto, Return
<1>15. CASE DownCheck(c)
    BY <1>15 DEF DownCheck, CallStop, Step, Goto, Return
<1>16. CASE Stop(c)
    BY ZenonT(30), <1>16 DEF Stop, Resume, Goto, Return, Named
<1>17. CASE StopWait(c)
    BY SMT, <1>17 DEF StopWait, Resume, Goto, Return
<1>18. CASE Release(c)
    BY SMT, <1>18 DEF Release, Step, Goto, Return
<1>19. CASE Purge(c)
    BY <1>19 DEF Purge, Return
<1>20. CASE SupStep \/ UNCHANGED vars
    <2>1. ASSUME NEW s \in PID, Sup(s) PROVE UNCHANGED command
        BY <2>1 DEF Sup, SupRead, SupBoot, SupReady, SupEnd, VMHalt, SupExit
    <2>2. UNCHANGED command
        BY <1>20, <2>1 DEF SupStep, Sup, vars
    <2> QED BY <2>2
<1> HIDE DEF Aim
<1> QED BY OneCommand, <1>1, <1>2, <1>3, <1>4, <1>5, <1>6, <1>7, <1>8, <1>9, <1>10, <1>11, <1>12, <1>13, <1>14, <1>15, <1>16, <1>17, <1>18, <1>19, <1>20

\* All but a few steps of the command leave supervisors and what they write alone.
LEMMA Quiet ==
    ASSUME NEW c, Command = {c}, "wait" \notin Interrupts, [Next]_vars
    PROVE  \/ UNCHANGED <<life, vm, of, uses, file, sock>> /\ pc[c] # "wait"
           \/ Wait(c) \/ Fork(c) \/ StopWait(c) \/ Purge(c) \/ SupStep \/ UNCHANGED vars
<1> USE DEF files, sups
<1>1. CASE Begin(c) \/ Interrupt(c) \/ UpCheck(c) \/ Claim(c) \/ Record(c) \/ Build(c) \/ Start(c) \/ WriteSpec(c)
    BY Zenon, <1>1 DEF Begin, Interrupt, UpCheck, Claim, Record, Build, Start, WriteSpec
<1>2. CASE Deliver(c) \/ Mark(c) \/ Reload(c) \/ Respec(c) \/ DownCheck(c) \/ Stop(c) \/ Release(c)
    BY Zenon, <1>2 DEF Deliver, Mark, Reload, Respec, DownCheck, Stop, Release
<1> QED BY Zenon, OneCommand, <1>1, <1>2

\* Once the wait for it is over, a supervisor is ready or gone.
LEMMA WaitOver ==
    ASSUME NEW c, NamesApart, Known(c), Aim(c), Wait(c), NEW s \in PID, Alive(s)
    PROVE  life[s] \notin Early
<1>1. SUFFICES ASSUME life[s] \in Early PROVE FALSE
    BY Zenon
<1>2. saw[c] = s /\ ws[c] = of[s] /\ of[s] \in Workspace
    BY Zenon, <1>1 DEF Known
<1>3. file[of[s]] = [pid |-> s, ready |-> "yes"]
    BY Zenon, <1>2 DEF Wait
<1>4. file[of[s]] # None /\ file[of[s]].ready = "yes"
    BY SMT, <1>3 DEF NamesApart
<1> QED BY Zenon, <1>1, <1>4 DEF Known, Early, Announced

LEMMA KnownStep ==
    ASSUME NEW c, Command = {c}, "wait" \notin Interrupts, NamesApart, OneInv(c), [Next]_vars
    PROVE  Known(c)'
<1>0. Domains(c) /\ Known(c) /\ Aim(c) /\ Clear(c)
    BY Zenon, HasDomains DEF OneInv, Commanding, Supervised
<1> USE Zenon, <1>0 DEF Domains, command, files, sups
<1>1. CASE UNCHANGED <<life, vm, of, uses, file, sock>> /\ pc[c] # "wait"
    BY <1>1 DEF Known, Alive, Early
<1>2. CASE Wait(c)
    <2>1. \A s \in PID : Alive(s) => life[s] \notin Early
        BY <1>2, WaitOver
    <2> QED BY <1>2, <2>1 DEF Wait, Known, Alive
<1>3. CASE Fork(c)
    <2>1. PICK s \in PID :
            /\ life[s] = "unused" /\ life' = [life EXCEPT ![s] = "new"]
            /\ of' = [of EXCEPT ![s] = ws[c]] /\ saw' = [saw EXCEPT ![c] = s]
        BY <1>3 DEF Fork
    <2>2. file' = [file EXCEPT ![ws[c]] = None] /\ pc'[c] = "wait" /\ ws' = ws /\ ws[c] \in Workspace
        BY <1>3 DEF Fork, Goto, Aim
    <2>3. ASSUME NEW t \in PID, t # s, Alive(t)'
          PROVE  Alive(t) /\ life'[t] = life[t] /\ life[t] \notin Early /\ of'[t] = of[t] /\ file'[of[t]] = file[of[t]]
        <3>1. Alive(t) /\ life'[t] = life[t] /\ of'[t] = of[t]
            BY <2>1, <2>3 DEF Alive
        <3>2. of[t] # ws[c] /\ of[t] \in Workspace /\ life[t] \notin Early
            BY <1>3, <3>1, Settled DEF Fork, Clear, Announced, Early
        <3> QED BY <2>2, <3>1, <3>2
    <2>4. life'[s] = "new" /\ of'[s] = ws[c] /\ file'[ws[c]] = None /\ saw'[c] = s
        BY <2>1, <2>2
    <2> QED BY SMT, <2>2, <2>3, <2>4 DEF Known
<1>4. CASE StopWait(c)
    <2>1. ASSUME NEW t \in PID, Alive(t)'
          PROVE  Alive(t) /\ life'[t] = life[t] /\ of'[t] = of[t] /\ life[t] \notin Early
        <3>1. Alive(t) /\ life'[t] = life[t] /\ of'[t] = of[t]
            BY ZenonT(30), <1>4, <2>1 DEF StopWait, Alive
        <3> QED BY <1>4, <3>1, Settled DEF StopWait, Announced, Early
    <2>2. file' = file
        BY <1>4 DEF StopWait
    <2> QED BY SMT, <2>1, <2>2 DEF Known
<1>5. CASE Purge(c)
    <2>1. ASSUME NEW t \in PID, Alive(t) PROVE of[t] \in Workspace /\ file'[of[t]] = file[of[t]] /\ life[t] \notin Early
        BY <1>5, <2>1, Settled DEF Purge, Clear, Announced, Early
    <2> QED BY <1>5, <2>1 DEF Purge, Known, Alive
<1>6. ASSUME NEW s \in PID, SupRead(s) PROVE Known(c)'
    <2>1. of[s] \in Workspace /\ \A t \in PID : t # s /\ Alive(t) => of[t] # of[s]
        BY SMTT(30), <1>6, Distinct DEF SupRead, Known, Alive
    <2>2. pc[c] = "wait" /\ saw[c] = s /\ ws[c] = of[s]
        BY <1>6 DEF SupRead, Known, Alive, Early
    <2>3. CASE spec[of[s]] = None
        BY SMT, <1>6, <2>3 DEF SupRead, Known, Alive
    <2>4. CASE spec[of[s]] # None
        <3>1. file' = [file EXCEPT ![of[s]] = [pid |-> s, ready |-> "no"]] /\ life' = [life EXCEPT ![s] = "booting"]
            BY <1>6, <2>4 DEF SupRead
        <3>2. file'[of[s]] # None /\ file'[of[s]].pid = s /\ file'[of[s]].ready = "no"
            BY SMT, <2>1, <3>1 DEF NamesApart
        <3>3. \A t \in PID : t # s /\ Alive(t) => of[t] \in Workspace /\ file'[of[t]] = file[of[t]]
            BY <2>1, <3>1 DEF Known
        <3> QED BY ZenonT(30), <1>6, <2>1, <2>2, <3>1, <3>2, <3>3 DEF SupRead, Known, Alive, Announced
    <2> QED BY <2>3, <2>4
<1>7. ASSUME NEW s \in PID, SupBoot(s) PROVE Known(c)'
    BY <1>7 DEF SupBoot, Known, Alive
<1>8. ASSUME NEW s \in PID, SupReady(s) PROVE Known(c)'
    <2>1. of[s] \in Workspace /\ \A t \in PID : t # s /\ Alive(t) => of[t] # of[s]
        <3>1. Alive(s)
            BY <1>8 DEF SupReady, Alive
        <3> QED BY SMT, <3>1, Distinct DEF Known
    <2>2. file' = [file EXCEPT ![of[s]] = [pid |-> s, ready |-> "yes"]] /\ life' = [life EXCEPT ![s] = "ready"]
        BY ZenonT(30), <1>8 DEF SupReady
    <2>3. file'[of[s]] # None /\ file'[of[s]].pid = s /\ file'[of[s]].ready = "yes"
        BY SMT, <2>1, <2>2 DEF NamesApart
    <2>4. \A t \in PID : t # s /\ Alive(t) => of[t] \in Workspace /\ file'[of[t]] = file[of[t]]
        BY ZenonT(30), <2>1, <2>2 DEF Known
    <2> QED BY SMTT(30), <1>8, <2>1, <2>2, <2>3, <2>4 DEF SupReady, Known, Alive, Announced, Early
<1>9. ASSUME NEW s \in PID, SupEnd(s) PROVE Known(c)'
    BY SMT, <1>9 DEF SupEnd, Known, Alive, Announced, Early
<1>10. ASSUME NEW s \in PID, VMHalt(s) PROVE Known(c)'
    BY ZenonT(30), <1>10 DEF VMHalt, Known, Alive
<1>11. ASSUME NEW s \in PID, SupExit(s) PROVE Known(c)'
    <2>1. \A t \in PID : t # s /\ Alive(t) => of[t] \in Workspace /\ of[t] # of[s]
        <3>1. Alive(s)
            BY <1>11 DEF SupExit, Stopping, Alive
        <3>2. \A t \in PID : t # s /\ Alive(t) => of[t] # of[s]
            BY <3>1, Distinct
        <3> QED BY <3>2 DEF Known
    <2>2. \A t \in PID : t # s /\ Alive(t) => file'[of[t]] = file[of[t]]
        BY <1>11, <2>1 DEF SupExit
    <2> QED BY SMTT(30), <1>11, <2>1, <2>2 DEF SupExit, Known, Alive
<1>12. CASE UNCHANGED vars
    BY <1>12 DEF vars, Known, Alive
<1> QED BY Quiet, <1>1, <1>2, <1>3, <1>4, <1>5, <1>6, <1>7, <1>8, <1>9, <1>10, <1>11, <1>12 DEF SupStep

LEMMA ServingStep ==
    ASSUME NEW c, Command = {c}, "wait" \notin Interrupts, NamesApart, OneInv(c), [Next]_vars
    PROVE  Serving'
<1>0. Domains(c) /\ Known(c) /\ Serving /\ Aim(c) /\ Clear(c)
    BY Zenon, HasDomains DEF OneInv, Commanding, Supervised
<1> USE Zenon, <1>0 DEF Domains, files, sups
<1>1. CASE UNCHANGED <<life, vm, of, uses, file, sock>>
    BY <1>1 DEF Serving, Alive
<1>2. CASE Wait(c)
    BY <1>2 DEF Wait, Serving, Alive
<1>3. CASE Fork(c)
    BY <1>3 DEF Fork, Serving, Alive
<1>4. CASE StopWait(c)
    BY <1>4 DEF StopWait, Serving, Alive, Stopping, Aim
<1>5. CASE Purge(c)
    <2>1. \A t \in PID : Alive(t) => of[t] \in Workspace /\ sock'[of[t]] = sock[of[t]]
        BY <1>5 DEF Purge, Clear, Known
    <2> QED BY <1>5, <2>1 DEF Purge, Serving, Alive
<1>6. ASSUME NEW s \in PID, SupRead(s) PROVE Serving'
    BY <1>6 DEF SupRead, Serving, Alive
<1>7. ASSUME NEW s \in PID, SupBoot(s) PROVE Serving'
    <2>1. of[s] \in Workspace /\ \A t \in PID : t # s /\ Alive(t) => of[t] # of[s] /\ of[t] \in Workspace
        <3>1. Alive(s)
            BY <1>7 DEF SupBoot, Alive
        <3> QED BY SMT, <3>1, Distinct DEF Known
    <2> QED BY <1>7, <2>1 DEF SupBoot, Serving, Alive
<1>8. ASSUME NEW s \in PID, SupReady(s) \/ SupEnd(s) \/ VMHalt(s) PROVE Serving'
    BY <1>8 DEF SupReady, SupEnd, VMHalt, Serving, Alive
<1>9. ASSUME NEW s \in PID, SupExit(s) PROVE Serving'
    <2>1. \A t \in PID : t # s /\ Alive(t) => of[t] # of[s] /\ of[t] \in Workspace
        BY SMT, <1>9, Distinct DEF SupExit, Known, Alive, Stopping
    <2>2. \A t \in PID : t # s /\ Alive(t) => sock'[of[t]] = sock[of[t]] /\ of'[t] = of[t] /\ life'[t] = life[t]
        BY <1>9, <2>1 DEF SupExit
    <2> QED BY <1>9, <2>1, <2>2 DEF SupExit, Serving, Alive
<1> QED BY Quiet, <1>1, <1>2, <1>3, <1>4, <1>5, <1>6, <1>7, <1>8, <1>9 DEF SupStep, vars

\* Nothing is written about a supervisor that is none.
LEMMA Untouched ==
    ASSUME TypeOK, NEW x, life' = [life EXCEPT ![x] = "killed"], of' = [of EXCEPT ![x] = None]
    PROVE  x \in PID \/ UNCHANGED <<life, of>>
<1>1. DOMAIN life = PID /\ life = [t \in PID |-> life[t]] /\ DOMAIN of = PID /\ of = [t \in PID |-> of[t]]
    BY Zenon DEF TypeOK
<1> QED
    BY Zenon, <1>1

\* A supervisor writes the state file of its workspace.
LEMMA NamedWrites ==
    ASSUME NEW c, Domains(c), Named, NEW s \in PID, of[s] \in Workspace, of' = of,
           NEW x, x \notin {"unused", "new"}, life' = [life EXCEPT ![s] = x],
           NEW b, file' = [file EXCEPT ![of[s]] = [pid |-> s, ready |-> b]], Alive(s)
    PROVE  Named'
<1> SUFFICES ASSUME NEW w \in Workspace, file'[w] # None
             PROVE  /\ file'[w].pid \in PID /\ life'[file'[w].pid] \notin {"unused", "new"}
                    /\ Alive(file[w].pid)' => of[file'[w].pid] = w
    BY Zenon DEF Named
<1>1. \A t \in PID : life'[t] = IF t = s THEN x ELSE life[t]
    BY Zenon DEF Domains
<1>2. CASE w = of[s]
    <2>1. file'[w].pid = s
        BY Zenon, <1>2 DEF Domains
    <2> QED
        BY Zenon, <1>1, <1>2, <2>1
<1>3. CASE w # of[s]
    <2>1. file'[w] = file[w]
        BY Zenon, <1>3 DEF Domains
    <2>2. file[w].pid \in PID /\ life[file[w].pid] \notin {"unused", "new"}
          /\ (Alive(file[w].pid) => of[file[w].pid] = w)
        BY Zenon, <2>1 DEF Named
    <2>3. file[w].pid # s
        BY Zenon, <1>3, <2>2
    <2> QED
        BY Zenon, <1>1, <2>1, <2>2, <2>3 DEF Alive
<1> QED
    BY Zenon, <1>2, <1>3

\* A supervisor leaves the state files, and does not come back.
LEMMA NamedLeaves ==
    ASSUME NEW c, Domains(c), Named, NEW s \in PID, file' = file, \A t \in PID : t = s \/ of'[t] = of[t],
           NEW x, x \in {"exited", "killed"}, life' = [life EXCEPT ![s] = x]
    PROVE  Named'
<1>1. \A t \in PID : life'[t] = IF t = s THEN x ELSE life[t]
    BY Zenon DEF Domains
<1>2. ASSUME NEW w \in Workspace, file[w] # None
      PROVE  /\ file[w].pid \in PID /\ life'[file[w].pid] \notin {"unused", "new"}
             /\ Alive(file[w].pid)' => of'[file[w].pid] = w
    <2>1. file[w].pid \in PID /\ life[file[w].pid] \notin {"unused", "new"}
          /\ (Alive(file[w].pid) => of[file[w].pid] = w)
        BY Zenon, <1>2 DEF Named
    <2> QED
        BY Zenon, <1>1, <2>1 DEF Alive
<1> QED
    BY Zenon, <1>2 DEF Named

LEMMA NamedStep ==
    ASSUME NEW c, Command = {c}, "wait" \notin Interrupts, NamesApart, OneInv(c), [Next]_vars
    PROVE  Named'
<1>0. Domains(c) /\ Known(c) /\ Named /\ Aim(c)
    BY Zenon, HasDomains DEF OneInv, Commanding, Supervised
<1> USE Zenon, <1>0 DEF Domains, files, sups
<1>1. CASE UNCHANGED <<life, vm, of, uses, file, sock>>
    BY <1>1 DEF Named, Alive
<1>2. CASE Wait(c)
    BY <1>2 DEF Wait, Named, Alive
<1>3. CASE Fork(c)
    BY <1>3 DEF Fork, Named, Alive, Aim
<1>4. CASE StopWait(c)
    <2>1. CASE UNCHANGED <<life, of, file>>
        BY <2>1 DEF Named, Alive
    <2>2. ASSUME ~UNCHANGED <<life, of, file>> PROVE Named'
        <3>1. /\ file' = file /\ life' = [life EXCEPT ![saw[c]] = "killed"]
              /\ of' = [of EXCEPT ![saw[c]] = None]
            BY <1>4, <2>2 DEF StopWait
        <3>2. \A t \in PID : t = saw[c] \/ of'[t] = of[t]
            BY <3>1
        <3>3. saw[c] \in PID
            <4>1. TypeOK
                BY DEF OneInv
            <4> QED
                BY <2>2, <3>1, <4>1, Untouched
        <3> QED
            BY <3>1, <3>2, <3>3, NamedLeaves
    <2> QED BY <2>1, <2>2
<1>5. CASE Purge(c)
    BY <1>5 DEF Purge, Named, Alive, Aim
<1>6. ASSUME NEW s \in PID, SupRead(s) PROVE Named'
    <2>1. Alive(s) /\ of[s] \in Workspace /\ of' = of
        BY <1>6 DEF SupRead, Known, Alive
    <2>2. CASE life' = [life EXCEPT ![s] = "exited"] /\ file' = file
        BY <2>1, <2>2, NamedLeaves
    <2>3. CASE /\ life' = [life EXCEPT ![s] = "booting"]
               /\ file' = [file EXCEPT ![of[s]] = [pid |-> s, ready |-> "no"]]
        BY <2>1, <2>3, NamedWrites
    <2> QED BY <1>6, <2>2, <2>3 DEF SupRead
<1>7. ASSUME NEW s \in PID, SupBoot(s) \/ VMHalt(s) PROVE Named'
    BY <1>7 DEF SupBoot, VMHalt, Named, Alive
<1>8. ASSUME NEW s \in PID, SupReady(s) PROVE Named'
    <2>1. Alive(s) /\ of[s] \in Workspace /\ of' = of
        BY <1>8 DEF SupReady, Known, Alive
    <2> QED BY <1>8, <2>1, NamedWrites DEF SupReady
<1>9. ASSUME NEW s \in PID, SupEnd(s) PROVE Named'
    BY <1>9 DEF SupEnd, Named, Alive
<1>10. ASSUME NEW s \in PID, SupExit(s) PROVE Named'
    BY SMT, <1>10 DEF SupExit, Named, Known, Alive, Stopping
<1> QED BY Quiet, <1>1, <1>2, <1>3, <1>4, <1>5, <1>6, <1>7, <1>8, <1>9, <1>10 DEF SupStep, vars

LEMMA ClaimedStep ==
    ASSUME NEW c, Command = {c}, "wait" \notin Interrupts, NamesApart, OneInv(c), [Next]_vars
    PROVE  Claimed'
<1>0. Domains(c) /\ Known(c) /\ Claimed /\ Aim(c) /\ Clear(c) /\ Granted(c)
    BY Zenon, HasDomains DEF OneInv, Commanding, Supervised
<1> USE Zenon, <1>0 DEF Domains, files, profiles, sups
<1>1. CASE UNCHANGED <<life, of, uses, spec, owner>>
    BY <1>1 DEF Claimed, Alive
<1>2. CASE Record(c)
    <2>1. owner' = [owner EXCEPT ![prof[c]] = ws[c]] /\ UNCHANGED <<life, of, uses, spec>>
        BY <1>2 DEF Record
    <2>2. \A s \in PID : Alive(s) /\ uses[s] = prof[c] => of[s] = ws[c]
        BY <1>2 DEF Record, Granted
    <2> QED BY <2>1, <2>2 DEF Claimed, Alive
<1>3. CASE WriteSpec(c) \/ Purge(c)
    <2>1. \A t \in PID : Alive(t) => of[t] \in Workspace /\ spec'[of[t]] = spec[of[t]]
        BY <1>3 DEF WriteSpec, Purge, Clear, Known
    <2>2. UNCHANGED <<life, of, uses, owner>>
        BY <1>3 DEF WriteSpec, Purge
    <2> QED BY <2>1, <2>2 DEF Claimed, Alive
<1>4. CASE Respec(c)
    <2>1. \A w \in Workspace : spec'[w] = spec[w]
        BY <1>4 DEF Respec, Granted
    <2> QED BY <1>4, <2>1 DEF Respec, Claimed, Known, Alive
<1>5. CASE Fork(c)
    BY <1>5 DEF Fork, Claimed, Alive
<1>6. CASE StopWait(c)
    BY ZenonT(30), <1>6 DEF StopWait, Claimed, Alive
<1>7. CASE Release(c)
    <2>1. \A t \in PID : Alive(t) /\ uses[t] \in Profile /\ owner[uses[t]] = of[t] => owner'[uses[t]] = owner[uses[t]]
        BY <1>7 DEF Release, Clear
    <2> QED BY <1>7, <2>1 DEF Release, Claimed, Alive
<1>8. ASSUME NEW s \in PID, SupRead(s) PROVE Claimed'
    <2>1. pc[c] = "wait" /\ ws[c] = of[s]
        BY <1>8 DEF SupRead, Known, Alive, Early
    <2>2. spec[of[s]] \in Profile => owner[spec[of[s]]] = of[s]
        BY <2>1 DEF Granted, Starting
    <2>3. /\ UNCHANGED <<of, spec, owner>>
          /\ \A t \in PID : t # s => life'[t] = life[t] /\ uses'[t] = uses[t]
          /\ Alive(s)' => uses'[s] = spec[of[s]]
        <3>1. UNCHANGED <<of, spec, owner>>
            BY <1>8 DEF SupRead, profiles
        <3>2. \A t \in PID : t # s => life'[t] = life[t] /\ uses'[t] = uses[t]
            BY <1>8 DEF SupRead
        <3>3. Alive(s)' => uses'[s] = spec[of[s]]
            BY SMTT(30), <1>8 DEF SupRead, Alive
        <3> QED BY <3>1, <3>2, <3>3
    <2> QED BY <2>2, <2>3 DEF Claimed, Alive
<1>9. ASSUME NEW s \in PID, SupReady(s) \/ SupEnd(s) \/ SupExit(s) PROVE Claimed'
    BY SMT, <1>9 DEF SupReady, SupEnd, SupExit, Claimed, Alive
<1>10. CASE Begin(c) \/ Interrupt(c) \/ UpCheck(c) \/ Claim(c) \/ Build(c) \/ Start(c)
    BY <1>1, <1>10 DEF Begin, Interrupt, UpCheck, Claim, Build, Start
<1>11. CASE Wait(c) \/ Deliver(c) \/ Mark(c) \/ Reload(c) \/ DownCheck(c) \/ Stop(c)
    BY <1>1, <1>11 DEF Wait, Deliver, Mark, Reload, DownCheck, Stop
<1>12. ASSUME NEW s \in PID, SupBoot(s) \/ VMHalt(s) PROVE Claimed'
    BY <1>1, <1>12 DEF SupBoot, VMHalt
<1> QED BY OneCommand, <1>1, <1>2, <1>3, <1>4, <1>5, <1>6, <1>7, <1>8, <1>9, <1>10, <1>11, <1>12 DEF SupStep, vars

LEMMA MarkedStep ==
    ASSUME NEW c, Command = {c}, "wait" \notin Interrupts, NamesApart, OneInv(c), [Next]_vars
    PROVE  Marked'
<1>0. Domains(c) /\ Known(c) /\ Serving /\ Marked /\ Aim(c) /\ Fresh(c)
    BY Zenon, HasDomains DEF OneInv, Commanding, Supervised
<1> USE Zenon, <1>0 DEF Domains, files, sups
<1>1. CASE UNCHANGED <<life, vm, of, marker, got>>
    BY <1>1 DEF Marked
<1>2. CASE Build(c) \/ Purge(c)
    <2>1. \A w \in Workspace : marker'[w] = "yes" => marker[w] = "yes"
        BY <1>2 DEF Build, Purge
    <2> QED BY SMT, <1>2, <2>1 DEF Build, Purge, Marked, Known, Alive, Announced
<1>3. CASE Fork(c)
    BY <1>3 DEF Fork, Marked, Announced
<1>4. CASE Deliver(c)
    BY <1>4 DEF Deliver, Marked
<1>5. CASE Mark(c)
    <2>1. \A s \in PID : Alive(s) /\ of[s] = ws[c] /\ vm[s] = "up" => got[s] = "yes"
        BY <1>5 DEF Mark, Fresh
    <2>2. \A s \in PID : vm[s] = "up" => Alive(s) /\ of[s] \in Workspace
        BY DEF Serving, Known
    <2> QED BY <1>5, <2>1, <2>2 DEF Mark, Marked
<1>6. CASE StopWait(c)
    BY <1>6 DEF StopWait, Marked, Announced
<1>7. ASSUME NEW s \in PID, SupRead(s) \/ SupEnd(s) PROVE Marked'
    BY <1>7 DEF SupRead, SupEnd, Marked, Announced
<1>8. ASSUME NEW s \in PID, SupBoot(s) \/ VMHalt(s) PROVE Marked'
    BY <1>8 DEF SupBoot, VMHalt, Marked, Announced
<1>9. ASSUME NEW s \in PID, SupReady(s) PROVE Marked'
    <2>1. pc[c] = "wait" /\ ws[c] = of[s]
        BY <1>9 DEF SupReady, Known, Alive, Early
    <2>2. marker[of[s]] = "no"
        BY <2>1 DEF Fresh, Starting
    <2> QED BY <1>9, <2>2 DEF SupReady, Marked
<1>10. ASSUME NEW s \in PID, SupExit(s) PROVE Marked'
    BY <1>10 DEF SupExit, Marked, Announced
<1>11. CASE Begin(c) \/ Interrupt(c) \/ UpCheck(c) \/ Claim(c) \/ Record(c) \/ Start(c) \/ WriteSpec(c)
    BY <1>1, <1>11 DEF Begin, Interrupt, UpCheck, Claim, Record, Start, WriteSpec
<1>12. CASE Wait(c) \/ Reload(c) \/ Respec(c) \/ DownCheck(c) \/ Stop(c) \/ Release(c)
    BY <1>1, <1>12 DEF Wait, Reload, Respec, DownCheck, Stop, Release
<1> QED BY OneCommand, <1>1, <1>2, <1>3, <1>4, <1>5, <1>6, <1>7, <1>8, <1>9, <1>10, <1>11, <1>12 DEF SupStep, vars

\* What a supervisor's step leaves the command with.
LEMMA SupervisorStep ==
    ASSUME NEW c, Command = {c}, NamesApart, OneInv(c), SupStep
    PROVE  /\ UNCHANGED <<pc, ws, prof, saw, after, spec, marker, owner>>
           /\ pc[c] # "wait" => \A t \in PID : Alive(t)' =>
                Alive(t) /\ of'[t] = of[t] /\ uses'[t] = uses[t] /\ got'[t] = got[t] /\ (vm'[t] = "up" => vm[t] = "up")
           /\ pc[c] # "wait" => \A w \in Workspace : file[w] # None => file'[w] # None /\ file'[w].pid = file[w].pid
<1>0. Domains(c) /\ Known(c)
    BY Zenon, HasDomains DEF OneInv, Supervised
<1> USE Zenon, <1>0 DEF Domains, command, files, profiles
<1>1. PICK s \in PID : SupRead(s) \/ SupBoot(s) \/ SupReady(s) \/ SupEnd(s) \/ VMHalt(s) \/ SupExit(s)
    BY DEF SupStep
<1>2. UNCHANGED <<pc, ws, prof, saw, after, spec, marker, owner>>
    BY <1>1 DEF SupRead, SupBoot, SupReady, SupEnd, VMHalt, SupExit
<1>3. ASSUME pc[c] # "wait" PROVE SupEnd(s) \/ VMHalt(s) \/ SupExit(s)
    BY <1>1, <1>3, Settled DEF SupRead, SupBoot, SupReady, Alive, Announced
<1>4. ASSUME pc[c] # "wait", SupEnd(s) \/ VMHalt(s) \/ SupExit(s), NEW t \in PID, Alive(t)'
      PROVE  Alive(t) /\ of'[t] = of[t] /\ uses'[t] = uses[t] /\ got'[t] = got[t] /\ (vm'[t] = "up" => vm[t] = "up")
    BY <1>4 DEF SupEnd, VMHalt, SupExit, Alive
<1>5. ASSUME pc[c] # "wait", SupEnd(s) \/ VMHalt(s) \/ SupExit(s), NEW w \in Workspace, file[w] # None
      PROVE  file'[w] # None /\ file'[w].pid = file[w].pid
    <2>1. CASE SupEnd(s) \/ VMHalt(s)
        BY <1>5, <2>1 DEF SupEnd, VMHalt
    <2>2. CASE SupExit(s)
        <3>1. file[of[s]].pid = s /\ of[s] \in Workspace
            BY <1>5, <2>2, Settled DEF SupExit, Stopping, Alive
        <3>2. CASE file' = [file EXCEPT ![of[s]] = [pid |-> s, ready |-> "no"]]
            <4>1. [pid |-> s, ready |-> "no"] # None
                BY SMT DEF NamesApart
            <4> QED BY <1>5, <3>1, <3>2, <4>1
        <3> QED BY <1>5, <2>2, <3>2 DEF SupExit
    <2> QED BY <1>5, <2>1, <2>2
<1> QED BY <1>2, <1>3, <1>4, <1>5

LEMMA ClearStep ==
    ASSUME NEW c, Command = {c}, "wait" \notin Interrupts, NamesApart, OneInv(c), [Next]_vars
    PROVE  Clear(c)'
<1>0. Domains(c) /\ Known(c) /\ Named /\ Aim(c) /\ Clear(c)
    BY Zenon, HasDomains DEF OneInv, Commanding, Supervised
<1> USE Zenon, <1>0 DEF Domains, files, sups
<1>1. CASE pc'[c] \notin {"spec", "fork", "release", "purge", "stopWait"}
    BY <1>1 DEF Clear
<1>2. CASE pc'[c] \in {"spec", "release"} /\ Stop(c)
    <2>1. \A s \in PID : Alive(s) => of[s] # ws[c]
        BY <1>2, Settled DEF Stop, Goto
    <2> QED BY <1>2, <2>1 DEF Stop, Resume, Return, Goto, Clear, Alive
<1>3. CASE pc'[c] \in {"spec", "release"} /\ StopWait(c)
    <2>1. \A s \in PID : Alive(s) /\ of[s] = ws[c] => s = saw[c]
        BY <1>3, Settled DEF StopWait, Clear
    <2>2. \A s \in PID : Alive(s)' => Alive(s) /\ s # saw[c]
        BY <1>3 DEF StopWait, Alive, Aim
    <2> QED BY <1>3, <2>1, <2>2 DEF StopWait, Resume, Return, Goto, Clear
<1>4. CASE pc'[c] = "spec" /\ Start(c)
    <2>1. \A s \in PID : Alive(s) => of[s] # ws[c]
        BY <1>4, Settled DEF Start, Step, CallStop, Goto
    <2> QED BY <1>4, <2>1 DEF Start, Step, CallStop, Goto, Clear, Alive
<1>5. CASE pc'[c] = "fork" /\ WriteSpec(c)
    BY <1>5 DEF WriteSpec, Step, Goto, Clear, Alive
<1>6. CASE pc'[c] = "stopWait" /\ Stop(c)
    BY <1>6 DEF Stop, Resume, Return, Goto, Clear, Aim
<1>7. CASE pc'[c] = "purge" /\ Release(c)
    BY <1>7 DEF Release, Step, Return, Goto, Clear, Alive
<1>8. CASE SupStep
    <2>1. UNCHANGED <<pc, ws, saw>>
        BY <1>8, SupervisorStep
    <2>2. pc[c] # "wait" => \A s \in PID : Alive(s)' => Alive(s) /\ of'[s] = of[s]
        BY <1>8, SupervisorStep
    <2>3. pc[c] = "stopWait" => ws[c] \in Workspace /\ file'[ws[c]] # None /\ file'[ws[c]].pid = saw[c]
        BY <1>8, SupervisorStep DEF Aim, Clear
    <2> QED BY <2>1, <2>2, <2>3 DEF Clear
<1>9. CASE UNCHANGED vars
    BY <1>9 DEF vars, command, Clear, Alive
<1> QED BY Arrives, <1>1, <1>2, <1>3, <1>4, <1>5, <1>6, <1>7, <1>8, <1>9 DEF Arrived, Resting

LEMMA GrantedStep ==
    ASSUME NEW c, Command = {c}, "wait" \notin Interrupts, NamesApart, OneInv(c), [Next]_vars
    PROVE  Granted(c)'
<1>0. Domains(c) /\ Known(c) /\ Claimed /\ Aim(c) /\ Granted(c) /\ TypeOK
    BY Zenon, HasDomains DEF OneInv, Commanding, Supervised
<1> USE Zenon, <1>0 DEF Domains, files, profiles, sups
<1>1. CASE pc'[c] \in Resting \cup {"mark", "release", "purge"}
    BY <1>1 DEF Granted, Starting, Resting
<1>2. CASE pc'[c] = "record" /\ Claim(c)
    <2>1. ~InUse(prof[c], ws[c]) /\ Step(c, "record")
        BY <1>2 DEF Claim, Return
    <2>2. ASSUME NEW s \in PID, Alive(s), uses[s] = prof[c] PROVE of[s] = ws[c]
        <3>1. of[s] \in Workspace /\ Running(of[s]) /\ life[s] # "new"
            BY <1>2, <2>2, Settled DEF Claim, Announced
        <3>2. prof[c] \in Profile /\ owner[prof[c]] = of[s] /\ spec[of[s]] = prof[c]
            BY <1>2, <2>2, <3>1 DEF Claim, Aim, Claimed
        <3>3. of[s] # None
            BY <3>1 DEF NamesApart
        <3> QED BY <2>1, <3>1, <3>2, <3>3 DEF InUse, Held
    <2>3. pc'[c] = "record" /\ UNCHANGED <<ws, prof, life, of, uses>>
        BY <1>2, <2>1 DEF Claim, Step
    <2> QED BY <2>2, <2>3 DEF Granted, Starting, Alive
<1>3. CASE pc'[c] = "build" /\ UpCheck(c)
    <2>1. prof'[c] = "none"
        BY <1>3 DEF UpCheck, Step, Goto, Return
    <2> QED BY <1>3, <2>1 DEF Granted, NamesApart
<1>4. CASE pc'[c] = "build" /\ Record(c)
    BY <1>4 DEF Record, Step, Granted, Aim
<1>5. CASE pc'[c] = "start" /\ Build(c)
    BY <1>5 DEF Build, Step, Return, Granted, Starting
<1>6. CASE pc'[c] = "stop" /\ Start(c)
    BY <1>6 DEF Start, Step, CallStop, Goto, Granted, Starting
<1>7. CASE pc'[c] = "stop" /\ (Deliver(c) \/ DownCheck(c))
    <2>1. after'[c] # "spec"
        BY <1>7 DEF Deliver, DownCheck, Step, CallStop, Return, Goto
    <2> QED BY <1>7, <2>1 DEF Granted, Starting
<1>8. CASE pc'[c] = "stopWait" /\ Stop(c)
    BY <1>8 DEF Stop, Resume, Return, Goto, Granted, Starting
<1>9. CASE pc'[c] = "spec" /\ Stop(c)
    BY <1>9 DEF Stop, Resume, Return, Goto, Granted, Starting
<1>10. CASE pc'[c] = "spec" /\ StopWait(c)
    BY <1>10 DEF StopWait, Resume, Return, Goto, Granted, Starting
<1>11. CASE pc'[c] = "spec" /\ Start(c)
    BY <1>11 DEF Start, Step, CallStop, Goto, Granted, Starting
<1>12. CASE pc'[c] = "fork" /\ WriteSpec(c)
    BY <1>12 DEF WriteSpec, Step, Goto, Granted, Starting, Aim
<1>13. CASE pc'[c] = "wait" /\ Fork(c)
    BY <1>13 DEF Fork, Granted, Starting
<1>14. CASE pc'[c] = "respec" /\ Reload(c)
    BY <1>14 DEF Reload, Goto, Return, Granted, Starting
<1>15. CASE SupStep
    BY <1>15, SupervisorStep DEF Granted, Starting
<1>16. CASE UNCHANGED vars
    BY <1>16 DEF vars, command, Granted, Starting, Alive
<1> QED BY Arrives, <1>1, <1>2, <1>3, <1>4, <1>5, <1>6, <1>7, <1>8, <1>9, <1>10, <1>11, <1>12, <1>13, <1>14,
           <1>15, <1>16 DEF Arrived

LEMMA FreshStep ==
    ASSUME NEW c, Command = {c}, "wait" \notin Interrupts, NamesApart, OneInv(c), [Next]_vars
    PROVE  Fresh(c)'
<1>0. Domains(c) /\ Known(c) /\ Serving /\ Aim(c) /\ Fresh(c)
    BY Zenon, HasDomains DEF OneInv, Commanding, Supervised
<1> USE Zenon, <1>0 DEF Domains, files, sups
<1>1. CASE pc'[c] \in Resting \cup {"record", "build", "release", "respec", "purge"}
    BY <1>1 DEF Fresh, Starting, Resting
<1>2. CASE pc'[c] = "start" /\ Build(c)
    BY <1>2 DEF Build, Step, Return, Fresh, Aim
<1>3. CASE pc'[c] = "stop" /\ Start(c)
    BY <1>3 DEF Start, Step, CallStop, Goto, Fresh, Starting
<1>4. CASE pc'[c] = "stop" /\ (Deliver(c) \/ DownCheck(c))
    <2>1. after'[c] # "spec"
        BY <1>4 DEF Deliver, DownCheck, Step, CallStop, Return, Goto
    <2> QED BY <1>4, <2>1 DEF Fresh, Starting
<1>5. CASE pc'[c] \in {"stopWait", "spec"} /\ Stop(c)
    BY <1>5 DEF Stop, Resume, Return, Goto, Fresh, Starting
<1>6. CASE pc'[c] = "spec" /\ StopWait(c)
    <2>1. pc[c] = "stopWait" /\ after[c] = "spec" /\ UNCHANGED <<ws, marker>>
        BY <1>6 DEF StopWait, Resume, Return, Goto
    <2> QED BY <1>6, <2>1 DEF Fresh, Starting
<1>7. CASE pc'[c] = "spec" /\ Start(c)
    BY <1>7 DEF Start, Step, CallStop, Goto, Fresh, Starting
<1>8. CASE pc'[c] = "fork" /\ WriteSpec(c)
    BY <1>8 DEF WriteSpec, Step, Fresh, Starting
<1>9. CASE pc'[c] = "wait" /\ Fork(c)
    BY <1>9 DEF Fork, Fresh, Starting
<1>10. CASE pc'[c] = "mark" /\ Deliver(c)
    <2>1. /\ pc'[c] = "mark" /\ ws' = ws /\ UNCHANGED <<life, vm, of>>
          /\ sock[ws[c]] # None /\ got' = [got EXCEPT ![sock[ws[c]]] = "yes"]
        BY <1>10 DEF Deliver, Step, CallStop, Return, Goto
    <2> QED BY <2>1 DEF Fresh, Starting, Serving, Alive
<1>11. CASE SupStep
    BY ZenonT(30), <1>11, SupervisorStep DEF Fresh, Starting
<1>12. CASE UNCHANGED vars
    BY <1>12 DEF vars, command, Fresh, Starting, Alive
<1> QED BY Arrives, <1>1, <1>2, <1>3, <1>4, <1>5, <1>6, <1>7, <1>8, <1>9, <1>10, <1>11, <1>12 DEF Arrived, Resting

------------------------------------------------------------------------------
(* The theorems. *)

LEMMA OneStep ==
    ASSUME NEW c, Command = {c}, "wait" \notin Interrupts, NamesApart, OneInv(c), [Next]_vars
    PROVE  OneInv(c)'
BY Zenon, TypesStep, KnownStep, ServingStep, NamedStep, ClaimedStep, MarkedStep, AimStep, ClearStep, GrantedStep, FreshStep
   DEF OneInv, Supervised, Commanding

\* With one command at a time, cut short anywhere but in the wait for its
\* supervisor, the claim of a profile (claimProfile, profileHeld) keeps a second VM
\* off it, however many workspaces, profiles and supervisors there are.
THEOREM OneVMPerProfile ==
    ASSUME NEW c, Command = {c}, "wait" \notin Interrupts, NamesApart
    PROVE  Spec => []ProfileExclusive
<1>1. Init => OneInv(c)
    BY Zenon, OneInit
<1>2. OneInv(c) /\ [Next]_vars => OneInv(c)'
    BY Zenon, OneStep
<1>3. OneInv(c) => ProfileExclusive
    <2> SUFFICES ASSUME OneInv(c), NEW s \in PID, NEW t \in PID, vm[s] = "up", vm[t] = "up",
                        uses[s] = uses[t], uses[s] \in Profile
                 PROVE  s = t
        BY Zenon DEF ProfileExclusive
    <2>1. Known(c) /\ Serving /\ Claimed
        BY Zenon DEF OneInv, Supervised
    <2>2. Alive(s) /\ Alive(t) /\ of[s] = of[t]
        BY Zenon, <2>1 DEF Serving, Claimed
    <2> QED BY Zenon, <2>1, <2>2, Distinct
<1> QED BY <1>1, <1>2, <1>3, PTL DEF Spec

\* Under the same conditions the state file, the spec, the claim and the secrets
\* marker of a workspace are true of its running VM.
THEOREM FilesAlwaysFaithful ==
    ASSUME NEW c, Command = {c}, "wait" \notin Interrupts, NamesApart
    PROVE  Spec => []FilesFaithful
<1>1. Init => OneInv(c)
    BY Zenon, OneInit
<1>2. OneInv(c) /\ [Next]_vars => OneInv(c)'
    BY Zenon, OneStep
<1>3. OneInv(c) => FilesFaithful
    <2> SUFFICES ASSUME OneInv(c) PROVE FilesFaithful
        BY Zenon
    <2> USE DEF OneInv, Supervised
    <2>1. RunningIsKnown
        BY Zenon DEF RunningIsKnown, Known, Alive, Running, Announced
    <2>2. ClaimCoversVM
        BY Zenon DEF ClaimCoversVM, Claimed, Alive
    <2>3. MarkerFaithful
        <3> SUFFICES ASSUME NEW w \in Workspace, Running(w), marker[w] = "yes", vm[file[w].pid] = "up"
                     PROVE  got[file[w].pid] = "yes"
            BY Zenon DEF MarkerFaithful
        <3>1. file[w].pid \in PID /\ Alive(file[w].pid) /\ of[file[w].pid] = w
            BY Zenon DEF Running, Named
        <3>2. life[file[w].pid] \in Announced
            BY Zenon, <3>1 DEF Known, Named, Running, Alive, Announced
        <3> QED BY Zenon, <3>1, <3>2 DEF Marked
    <2> QED BY Zenon, <2>1, <2>2, <2>3 DEF FilesFaithful
<1> QED BY <1>1, <1>2, <1>3, PTL DEF Spec

------------------------------------------------------------------------------
(* The supervisors implement VMLifecycle, for any number of commands at once, *)
(* wherever those are cut short.                                              *)

\* A supervisor that has not begun to boot has no VM.
Unborn ==
    /\ life \in [PID -> {"unused", "new", "booting", "ready", "failing", "ending", "exited", "killed"}]
    /\ vm \in [PID -> {"none", "up", "gone"}]
    /\ \A s \in PID : life[s] \in {"unused", "new"} => vm[s] = "none"

\* What a command or a supervisor does to supervisors, in one of five ways.
LEMMA SupervisorSteps ==
    ASSUME Unborn, [Next]_vars
    PROVE  \/ UNCHANGED <<life, vm>>
           \/ \E s \in PID : life[s] = "unused" /\ life' = [life EXCEPT ![s] = "new"] /\ vm' = vm
           \/ \E s \in PID : Stopping(s) /\ life' = [life EXCEPT ![s] = "killed"] /\ vm' = vm
           \/ \E s \in PID : Sup(s)
<1>1. ASSUME NEW c \in Command, Begin(c) \/ Interrupt(c) \/ UpCheck(c) \/ Claim(c) \/ Record(c) \/ Build(c)
      PROVE  UNCHANGED <<life, vm>>
    BY Zenon, <1>1 DEF Begin, Interrupt, UpCheck, Claim, Record, Build, sups
<1>2. ASSUME NEW c \in Command, Start(c) \/ WriteSpec(c) \/ Wait(c) \/ Deliver(c) \/ Mark(c) \/ Reload(c) \/ Respec(c)
      PROVE  UNCHANGED <<life, vm>>
    BY Zenon, <1>2 DEF Start, WriteSpec, Wait, Deliver, Mark, Reload, Respec, sups
<1>3. ASSUME NEW c \in Command, DownCheck(c) \/ Stop(c) \/ Release(c) \/ Purge(c)
      PROVE  UNCHANGED <<life, vm>>
    BY Zenon, <1>3 DEF DownCheck, Stop, Release, Purge, sups
<1>4. ASSUME NEW c \in Command, Fork(c)
      PROVE  \E s \in PID : life[s] = "unused" /\ life' = [life EXCEPT ![s] = "new"] /\ vm' = vm
    BY Zenon, <1>4 DEF Fork
<1>5. ASSUME NEW c \in Command, StopWait(c)
      PROVE  \/ UNCHANGED <<life, vm>>
             \/ \E s \in PID : Stopping(s) /\ life' = [life EXCEPT ![s] = "killed"] /\ vm' = vm
    <2>1. CASE saw[c] \in PID
        BY Zenon, <1>5, <2>1 DEF StopWait
    <2>2. CASE saw[c] \notin PID
        BY <1>5, <2>2 DEF StopWait, Unborn
    <2> QED
        BY SMTT(30), <2>1, <2>2
<1>6. CASE UNCHANGED vars
    BY Zenon, <1>6 DEF vars, sups
<1> QED
    BY Zenon, <1>1, <1>2, <1>3, <1>4, <1>5, <1>6 DEF Next

LEMMA UnbornStep == ASSUME Unborn, [Next]_vars PROVE Unborn'
<1>1. ASSUME NEW s \in PID, Sup(s) PROVE Unborn'
    <2>1. CASE SupRead(s)
        BY Zenon, <2>1 DEF SupRead, Unborn
    <2>2. CASE SupBoot(s)
        BY Zenon, <2>2 DEF SupBoot, Unborn
    <2>3. CASE SupReady(s)
        BY Zenon, <2>3 DEF SupReady, Unborn
    <2>4. CASE SupEnd(s)
        BY Zenon, <2>4 DEF SupEnd, Unborn
    <2>5. CASE VMHalt(s)
        BY Zenon, <2>5 DEF VMHalt, Unborn
    <2>6. CASE SupExit(s)
        BY Zenon, <2>6 DEF SupExit, Unborn
    <2> QED
        BY Zenon, <1>1, <2>1, <2>2, <2>3, <2>4, <2>5, <2>6 DEF Sup
<1> QED
    BY Zenon, <1>1, SupervisorSteps DEF Unborn

LEMMA LifecycleStep ==
    ASSUME Unborn, [Next]_vars, NEW t \in PID
    PROVE  UNCHANGED Lifecycle(t)!vars \/ Lifecycle(t)!Next
<1> USE DEF Lifecycle!Next, Lifecycle!vars, Lifecycle!Boot, Lifecycle!Announce, Lifecycle!Halt,
            Lifecycle!Exit, Lifecycle!Kill
<1>1. ASSUME NEW s \in PID, Sup(s) PROVE UNCHANGED Lifecycle(t)!vars \/ Lifecycle(t)!Next
    <2>1. CASE SupRead(s)
        BY Zenon, <2>1 DEF SupRead, Unborn
    <2>2. CASE SupBoot(s)
        BY SMTT(30), <2>2 DEF SupBoot, Unborn
    <2>3. CASE SupReady(s)
        BY SMTT(30), <2>3 DEF SupReady, Unborn
    <2>4. CASE SupEnd(s)
        BY SMTT(30), <2>4 DEF SupEnd, Unborn
    <2>5. CASE VMHalt(s)
        BY SMTT(30), <2>5 DEF VMHalt, Unborn
    <2>6. CASE SupExit(s)
        BY SMTT(30), <2>6 DEF SupExit, Stopping, Unborn
    <2> QED
        BY Zenon, <1>1, <2>1, <2>2, <2>3, <2>4, <2>5, <2>6 DEF Sup
<1>2. CASE UNCHANGED <<life, vm>>
    BY Zenon, <1>2
<1>3. ASSUME NEW s \in PID, life[s] = "unused", life' = [life EXCEPT ![s] = "new"], vm' = vm
      PROVE  UNCHANGED Lifecycle(t)!vars \/ Lifecycle(t)!Next
    BY Zenon, <1>3 DEF Unborn
<1>4. ASSUME NEW s \in PID, Stopping(s), life' = [life EXCEPT ![s] = "killed"], vm' = vm
      PROVE  UNCHANGED Lifecycle(t)!vars \/ Lifecycle(t)!Next
    BY Zenon, <1>4 DEF Stopping, Unborn
<1> QED
    BY Zenon, <1>1, <1>2, <1>3, <1>4, SupervisorSteps

\* However many commands start, stop and kill supervisors at once, each of these
\* keeps to the lifecycle the commands rely on.
THEOREM SupervisorsKeepLifecycle == Spec => SupervisorsImplementLifecycle
<1>1. Init => Unborn
    BY DEF Init, Unborn
<1>2. Unborn /\ [Next]_vars => Unborn'
    BY Zenon, UnbornStep
<1>3. Init => \A s \in PID : Lifecycle(s)!Init
    BY Zenon DEF Init, Lifecycle!Init
<1>4. Unborn /\ [Next]_vars => [\A s \in PID : UNCHANGED Lifecycle(s)!vars \/ Lifecycle(s)!Next]_vars
    BY Zenon, LifecycleStep
<1> QED
    BY <1>1, <1>2, <1>3, <1>4, PTL DEF Spec, SupervisorsImplementLifecycle
==============================================================================
