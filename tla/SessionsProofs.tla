--------------------------- MODULE SessionsProofs ---------------------------
(***************************************************************************)
(* The supervisor of a VM and the session directory of its guest: a boot   *)
(* that starts clean and leaves nothing behind, the refinement of          *)
(* VMLifecycle, and sessions and their entries that agree, for any number  *)
(* of processes, directories and sessions.                                 *)
(***************************************************************************)
EXTENDS MCSessions, TLAPS

------------------------------------------------------------------------------
(* The supervisor. *)

Waiting == {"waitNIC", "waitGuest", "publish", "supervise"}

\* What is running at each step of Run, and what the files say.
RunInv ==
    /\ Sup!TypeOK
    /\ supPc \in {"prepare", "broker"} => broker = "none"
    /\ supPc \in {"prepare", "broker", "brokerWait", "boot"} => vm = "none"
    /\ supPc \in Waiting \cup {"askGuest", "guestWait", "stopVM"} => vm # "none"
    /\ supPc \in {"stopBroker", "brokerGrace", "record", "exited"} => vm # "up"
    /\ supPc \in {"record", "exited"} => broker # "up"
    /\ supPc \in Waiting \cup {"broker", "brokerWait", "boot"} => request = "no"
    /\ supPc \in {"prepare", "broker", "brokerWait", "boot", "waitNIC", "waitGuest", "publish"} =>
          file # "ready"

LEMMA RunInit == Sup!Init => RunInv
BY Zenon DEF Sup!Init, RunInv, Sup!TypeOK, Sup!Steps, Sup!Ending, Sup!Lines, Waiting

LEMMA RunStep == RunInv /\ [Sup!Next]_(Sup!vars) => RunInv'
<1> SUFFICES ASSUME RunInv, [Sup!Next]_(Sup!vars) PROVE RunInv'
    BY Zenon
<1> USE DEF RunInv, Sup!TypeOK, Sup!Steps, Sup!Ending, Waiting, Sup!Goto, Sup!Fail
<1>1. CASE Sup!Prepare
    BY Zenon, <1>1 DEF Sup!Prepare
<1>2. CASE Sup!StartBroker
    BY Zenon, <1>2 DEF Sup!StartBroker
<1>3. CASE Sup!BrokerWait
    BY Zenon, <1>3 DEF Sup!BrokerWait
<1>4. CASE Sup!Boot
    BY Zenon, <1>4 DEF Sup!Boot
<1>5. CASE Sup!WaitNIC
    BY Zenon, <1>5 DEF Sup!WaitNIC
<1>6. CASE Sup!WaitGuest
    BY Zenon, <1>6 DEF Sup!WaitGuest
<1>7. CASE Sup!Publish
    BY Zenon, <1>7 DEF Sup!Publish
<1>8. CASE Sup!Supervise
    BY Zenon, <1>8 DEF Sup!Supervise
<1>9. CASE Sup!AskGuest
    BY <1>9 DEF Sup!AskGuest
<1>10. CASE Sup!GuestWait
    BY Zenon, <1>10 DEF Sup!GuestWait
<1>11. CASE Sup!StopVM
    BY Zenon, <1>11 DEF Sup!StopVM
<1>12. CASE Sup!StopBroker
    BY Zenon, <1>12 DEF Sup!StopBroker
<1>13. CASE Sup!BrokerGrace
    BY Zenon, <1>13 DEF Sup!BrokerGrace
<1>14. CASE Sup!Record
    BY Zenon, <1>14 DEF Sup!Record
<1>15. CASE Sup!Terminate \/ Sup!Killed
    BY <1>15 DEF Sup!Terminate, Sup!Killed
<1>16. CASE Sup!BrokerExits \/ Sup!VMEnds
    BY <1>16 DEF Sup!BrokerExits, Sup!VMEnds
<1>17. ASSUME NEW line \in Sup!Lines, Sup!BrokerReports(line) PROVE RunInv'
    <2>1. status' \subseteq Sup!Lines
        BY Zenon, <1>17 DEF Sup!BrokerReports
    <2>2. supPc' = supPc /\ ctx' = ctx /\ reason' = reason /\ broker' = broker
          /\ vm' = vm /\ request' = request /\ file' = file
        BY Zenon, <1>17 DEF Sup!BrokerReports
    <2>3. Sup!TypeOK'
        <3>1. supPc' \in Sup!Steps /\ ctx' \in {"live", "cancelled"}
            BY Zenon, <2>2
        <3>2. reason' \in {"none", "shutdown", "failed"} /\ broker' \in {"none", "up", "exited"}
            BY Zenon, <2>2
        <3>3. vm' \in {"none", "up", "gone"} /\ request' \in {"yes", "no"}
              /\ file' \in {"none", "booting", "ready", "stopped", "failed"}
            BY Zenon, <2>2
        <3> HIDE DEF Sup!Steps, Sup!Ending
        <3> QED
            BY <2>1, <3>1, <3>2, <3>3, Zenon
    <2> HIDE DEF Sup!TypeOK
    <2> QED
        BY Zenon, <2>2, <2>3
<1>18. CASE UNCHANGED Sup!vars
    BY <1>18 DEF Sup!vars
<1> QED
    BY Zenon, <1>1, <1>2, <1>3, <1>4, <1>5, <1>6, <1>7, <1>8, <1>9, <1>10, <1>11, <1>12, <1>13, <1>14,
       <1>15, <1>16, <1>17, <1>18 DEF Sup!Next, Sup!Run

\* Run: whichever step fails, a supervisor that ends by itself leaves neither VM
\* nor broker behind, and no boot meets the shutdown request of an earlier one.
THEOREM BootsClean == Sup!Spec => []CleanBoot
<1>1. RunInv => CleanBoot
    BY Zenon DEF RunInv, Waiting, CleanBoot, Sup!CleanBoot, Sup!NothingLeftBehind, Sup!NoStaleRequest
<1> QED
    BY <1>1, RunInit, RunStep, PTL DEF Sup!Spec

\* A step of Run, or of what happens to it, is one of VMLifecycle or a stutter.
LEMMA RunRefines ==
    RunInv /\ [Sup!Next]_(Sup!vars) => [Sup!Lifecycle!Next]_(Sup!Lifecycle!vars)
<1> SUFFICES ASSUME RunInv, [Sup!Next]_(Sup!vars)
             PROVE  Sup!Lifecycle!Next \/ UNCHANGED Sup!Lifecycle!vars
    BY Zenon
<1> USE DEF RunInv, Waiting, Sup!Ending, Sup!Goto, Sup!Fail, Sup!Alive, Sup!Lifecycle!vars
<1>1. CASE Sup!Boot
    BY Zenon, <1>1 DEF Sup!Boot, Sup!Lifecycle!Next, Sup!Lifecycle!Boot
<1>2. CASE Sup!Publish
    BY Zenon, <1>2 DEF Sup!Publish, Sup!Lifecycle!Next, Sup!Lifecycle!Announce
<1>3. CASE Sup!StopVM
    BY Zenon, <1>3 DEF Sup!StopVM, Sup!TypeOK, Sup!Lifecycle!Next, Sup!Lifecycle!Halt
<1>4. CASE Sup!VMEnds
    BY Zenon, <1>4 DEF Sup!VMEnds, Sup!Lifecycle!Next, Sup!Lifecycle!Halt
<1>5. CASE Sup!Record
    BY Zenon, <1>5 DEF Sup!Record, Sup!Lifecycle!Next, Sup!Lifecycle!Exit
<1>6. CASE Sup!Killed
    BY Zenon, <1>6 DEF Sup!Killed, Sup!Lifecycle!Next, Sup!Lifecycle!Kill
<1>7. CASE Sup!Prepare
    BY Zenon, <1>7 DEF Sup!Prepare
<1>8. CASE Sup!StartBroker \/ Sup!BrokerWait \/ Sup!WaitNIC \/ Sup!WaitGuest
    BY Zenon, <1>8 DEF Sup!StartBroker, Sup!BrokerWait, Sup!WaitNIC, Sup!WaitGuest
<1>9. CASE Sup!Supervise \/ Sup!AskGuest \/ Sup!GuestWait
    BY Zenon, <1>9 DEF Sup!Supervise, Sup!AskGuest, Sup!GuestWait
<1>10. CASE Sup!StopBroker \/ Sup!BrokerGrace
    BY Zenon, <1>10 DEF Sup!StopBroker, Sup!BrokerGrace
<1>11. CASE Sup!Terminate \/ Sup!BrokerExits \/ \E line \in Sup!Lines : Sup!BrokerReports(line)
    BY Zenon, <1>11 DEF Sup!Terminate, Sup!BrokerExits, Sup!BrokerReports
<1>12. CASE UNCHANGED Sup!vars
    BY Zenon, <1>12 DEF Sup!vars
<1> QED
    BY Zenon, <1>1, <1>2, <1>3, <1>4, <1>5, <1>6, <1>7, <1>8, <1>9, <1>10, <1>11, <1>12 DEF Sup!Next, Sup!Run

\* The supervisor keeps the promise the commands rely on.
THEOREM RunKeepsLifecycle == Sup!Spec => ImplementsLifecycle
<1>1. Sup!Init => Sup!Lifecycle!Init
    BY Zenon DEF Sup!Init, Sup!Lifecycle!Init, Sup!Alive
<1> QED
    BY <1>1, RunInit, RunStep, RunRefines, PTL
       DEF Sup!Spec, ImplementsLifecycle, Sup!ImplementsLifecycle, Sup!Lifecycle!Spec

------------------------------------------------------------------------------
(* The session directory. *)

Opener(p) == Mode[p] = "open"
Made(i) == maker[i] # None
\* A session that Open made and whose holder lives.
Lives(i) == Made(i) /\ Opener(maker[i]) /\ Alive(i)

\* Who made a session, and that nobody makes two.
Makers ==
    /\ \A i \in Id : holder[i] # "none" => Made(i)
    /\ \A i \in Id : Made(i) =>
          got[maker[i]] = i /\ pc[maker[i]] \in {"spawn", "dial", "done", "failed", "killed"}
    /\ \A p \in Proc :
        /\ pc[p] \in {"spawn", "dial", "failed"} => got[p] # None /\ maker[got[p]] = p
        /\ pc[p] = "spawn" => holder[got[p]] = "none"
        /\ pc[p] = "failed" => ~Alive(got[p])

\* Without slow holders an entry is removed only when its holder is gone.
Recorded ==
    /\ old = {}
    /\ \A i \in Id :
        /\ info[i] = "pid" => holder[i] \in {"listen", "start", "run", "clean", "gone"}
        /\ holder[i] \in {"listen", "start", "run", "clean"} => info[i] = "pid"
    /\ \A p \in Proc : dead[p] # <<>> => holder[dead[p][2]] = "gone"

\* Without kills either, the lock is held from Find to the end of Create, and
\* whoever holds it knows every session that Open made in its directory.
Opening == {"find", "create", "spawn", "dial"}
LockHeld == \A p \in Proc : Opener(p) /\ pc[p] \in Opening => lock = p
Settled ==
    \A i \in Id : Lives(i) => pc[maker[i]] = "dial" \/ (pc[maker[i]] = "done" /\ info[i] = "pid")
Knows ==
    \A p \in Proc, i \in Id : Opener(p) /\ Lives(i) /\ Want[maker[i]] = Want[p] =>
        /\ pc[p] = "find" => i \in todo[p] \cup found[p]
        /\ pc[p] \notin {"create", "spawn"}
        /\ pc[p] = "dial" => i = got[p]
Single == \A i, j \in Id : Lives(i) /\ Lives(j) /\ Want[maker[i]] = Want[maker[j]] => i = j
Locked == LockHeld /\ Settled /\ Knows /\ Single

StoreInv ==
    /\ TypeOK /\ Makers
    /\ "slow" \notin setting.faults => Recorded
    /\ setting.faults = {} => Locked

LEMMA StoreInit == Init => StoreInv
<1> SUFFICES ASSUME Init PROVE StoreInv
    BY Zenon
<1>1. TypeOK
    BY Zenon, SessionsAssumption DEF Init, TypeOK, HolderSteps, ProcSteps
<1>2. Makers /\ Recorded
    BY Zenon DEF Init, Makers, Made, Recorded
<1>3. \A i \in Id : ~Lives(i)
    BY Zenon DEF Init, Lives, Alive
<1>4. Locked
    BY Zenon, <1>3 DEF Init, Locked, Opening, LockHeld, Settled, Knows, Single
<1> QED
    BY Zenon, <1>1, <1>2, <1>4 DEF StoreInv

\* The id Create draws is one nobody has.
LEMMA Drawn ==
    ASSUME NEW p \in Proc, CreateEntry(p)
    PROVE  \E i \in Id :
              /\ maker[i] = None
              /\ maker' = [maker EXCEPT ![i] = p] /\ info' = [info EXCEPT ![i] = "new"]
              /\ got' = [got EXCEPT ![p] = i]
<1> DEFINE new == CHOOSE i \in Id : maker[i] = None
<1>1. new \in Id /\ maker[new] = None
    BY Zenon DEF CreateEntry
<1> QED
    BY <1>1, Zenon DEF CreateEntry

LEMMA TypesStay == TypeOK /\ [Next]_vars => TypeOK'
<1> SUFFICES ASSUME TypeOK, [Next]_vars PROVE TypeOK'
    BY Zenon
<1> USE DEF TypeOK, disk, locals
<1>1. ASSUME NEW p \in Proc, Begin(p) PROVE TypeOK'
    BY <1>1 DEF Begin, ListInto, Entries, ProcSteps, HolderSteps
<1>2. ASSUME NEW p \in Proc, ReadEntry(p) PROVE TypeOK'
    BY <1>2 DEF ReadEntry, ProcSteps, HolderSteps
<1>3. ASSUME NEW p \in Proc, RemoveEntry(p) PROVE TypeOK'
    BY Zenon, <1>3 DEF RemoveEntry, ProcSteps, HolderSteps
<1>4. ASSUME NEW p \in Proc, RemoveSocket(p) PROVE TypeOK'
    BY Zenon, <1>4 DEF RemoveSocket, ProcSteps, HolderSteps
<1>5. ASSUME NEW p \in Proc, Peeked(p) PROVE TypeOK'
    BY Zenon, <1>5 DEF Peeked, Listed, ProcSteps, HolderSteps
<1>6. ASSUME NEW p \in Proc, Lock(p) PROVE TypeOK'
    BY Zenon, <1>6 DEF Lock, ListInto, Entries, ProcSteps, HolderSteps
<1>7. ASSUME NEW p \in Proc, Find(p) PROVE TypeOK'
    BY <1>7 DEF Find, Listed, Unlock, ProcSteps, HolderSteps
<1>8. ASSUME NEW p \in Proc, Spawn(p) PROVE TypeOK'
    BY <1>8 DEF Spawn, Unlock, ProcSteps, HolderSteps
<1>9. ASSUME NEW p \in Proc, Dialled(p) PROVE TypeOK'
    BY Zenon, <1>9 DEF Dialled, Unlock, ProcSteps, HolderSteps
<1>10. ASSUME NEW p \in Proc, HolderExited(p) PROVE TypeOK'
    BY Zenon, <1>10 DEF HolderExited, Unlock, ProcSteps, HolderSteps
<1>11. ASSUME NEW p \in Proc, Deadline(p) PROVE TypeOK'
    BY Zenon, <1>11 DEF Deadline, Unlock, ProcSteps, HolderSteps
<1>12. ASSUME NEW p \in Proc, Kill(p) PROVE TypeOK'
    BY Zenon, <1>12 DEF Kill, Unlock, ProcSteps, HolderSteps
<1>13. ASSUME NEW i \in Id, ServeRead(i) PROVE TypeOK'
    BY Zenon, <1>13 DEF ServeRead, HolderAt, HolderSteps
<1>14. ASSUME NEW i \in Id, ServeRecord(i) PROVE TypeOK'
    BY Zenon, <1>14 DEF ServeRecord, HolderAt, HolderSteps
<1>15. ASSUME NEW i \in Id, ServeListen(i) PROVE TypeOK'
    BY Zenon, <1>15 DEF ServeListen, HolderAt, HolderSteps
<1>16. ASSUME NEW i \in Id, ServeStart(i) PROVE TypeOK'
    BY Zenon, <1>16 DEF ServeStart, HolderAt, HolderSteps
<1>17. ASSUME NEW i \in Id, ServeEnd(i) PROVE TypeOK'
    BY Zenon, <1>17 DEF ServeEnd, HolderAt, HolderSteps
<1>18. ASSUME NEW i \in Id, ServeForget(i) PROVE TypeOK'
    BY Zenon, <1>18 DEF ServeForget, HolderAt, HolderSteps
<1>19. ASSUME NEW i \in Id, ServeFail(i) PROVE TypeOK'
    BY Zenon, <1>19 DEF ServeFail, HolderAt, HolderSteps
<1>20. ASSUME NEW i \in Id, Age(i) PROVE TypeOK'
    BY Zenon, <1>20 DEF Age, HolderSteps
<1>21. ASSUME NEW p \in Proc, CreateEntry(p) PROVE TypeOK'
    BY Zenon, <1>21, Drawn DEF CreateEntry, ProcSteps
<1>22. CASE UNCHANGED vars
    BY Zenon, <1>22 DEF vars
<1> QED
    BY Zenon, <1>1, <1>2, <1>3, <1>4, <1>5, <1>6, <1>7, <1>8, <1>9, <1>10, <1>11, <1>12, <1>13, <1>14,
       <1>15, <1>16, <1>17, <1>18, <1>19, <1>20, <1>21, <1>22, Zenon DEF Next, Step, Serve, Quiet

LEMMA MakersStay == TypeOK /\ Makers /\ [Next]_vars => Makers'
<1> SUFFICES ASSUME TypeOK, Makers, [Next]_vars PROVE Makers'
    BY Zenon
<1> USE SessionsAssumption DEF TypeOK, Makers, Made, Alive, Ended, disk, locals
<1>1. ASSUME NEW p \in Proc, Begin(p) PROVE Makers'
    BY <1>1 DEF Begin, ListInto, Entries
<1>2. ASSUME NEW p \in Proc, ReadEntry(p) PROVE Makers'
    BY Zenon, <1>2 DEF ReadEntry
<1>3. ASSUME NEW p \in Proc, RemoveEntry(p) PROVE Makers'
    BY Zenon, <1>3 DEF RemoveEntry
<1>4. ASSUME NEW p \in Proc, RemoveSocket(p) PROVE Makers'
    BY Zenon, <1>4 DEF RemoveSocket
<1>5. ASSUME NEW p \in Proc, Peeked(p) PROVE Makers'
    BY <1>5 DEF Peeked, Listed
<1>6. ASSUME NEW p \in Proc, Lock(p) PROVE Makers'
    BY <1>6 DEF Lock, ListInto, Entries
<1>7. ASSUME NEW p \in Proc, Find(p) PROVE Makers'
    BY <1>7 DEF Find, Listed, Unlock
<1>8. ASSUME NEW p \in Proc, Spawn(p) PROVE Makers'
    BY <1>8 DEF Spawn, Unlock
<1>9. ASSUME NEW p \in Proc, Dialled(p) PROVE Makers'
    BY <1>9 DEF Dialled, Unlock
<1>10. ASSUME NEW p \in Proc, HolderExited(p) PROVE Makers'
    BY <1>10 DEF HolderExited, Unlock
<1>11. ASSUME NEW p \in Proc, Deadline(p) PROVE Makers'
    BY <1>11 DEF Deadline, Unlock
<1>12. ASSUME NEW p \in Proc, Kill(p) PROVE Makers'
    BY <1>12 DEF Kill, Unlock
<1>13. ASSUME NEW i \in Id, ServeRead(i) PROVE Makers'
    BY <1>13 DEF ServeRead, HolderAt
<1>14. ASSUME NEW i \in Id, ServeRecord(i) PROVE Makers'
    BY <1>14 DEF ServeRecord, HolderAt
<1>15. ASSUME NEW i \in Id, ServeListen(i) PROVE Makers'
    BY <1>15 DEF ServeListen, HolderAt
<1>16. ASSUME NEW i \in Id, ServeStart(i) PROVE Makers'
    BY <1>16 DEF ServeStart, HolderAt
<1>17. ASSUME NEW i \in Id, ServeEnd(i) PROVE Makers'
    BY <1>17 DEF ServeEnd, HolderAt
<1>18. ASSUME NEW i \in Id, ServeForget(i) PROVE Makers'
    BY <1>18 DEF ServeForget, HolderAt
<1>19. ASSUME NEW i \in Id, ServeFail(i) PROVE Makers'
    BY <1>19 DEF ServeFail, HolderAt
<1>20. ASSUME NEW i \in Id, Age(i) PROVE Makers'
    BY Zenon, <1>20 DEF Age
<1>21. ASSUME NEW p \in Proc, CreateEntry(p) PROVE Makers'
    <2>1. PICK i \in Id :
              /\ maker[i] = None
              /\ maker' = [maker EXCEPT ![i] = p] /\ info' = [info EXCEPT ![i] = "new"]
              /\ got' = [got EXCEPT ![p] = i]
        BY Zenon, <1>21, Drawn
    <2>2. pc[p] = "create" /\ pc' = [pc EXCEPT ![p] = "spawn"]
          /\ UNCHANGED <<lock, socks, old, holder, todo, found, dead, setting>>
        BY Zenon, <1>21 DEF CreateEntry
    <2> QED
        BY <2>1, <2>2
<1>22. CASE UNCHANGED vars
    BY Zenon, <1>22 DEF vars
<1> QED
    BY Zenon, <1>1, <1>2, <1>3, <1>4, <1>5, <1>6, <1>7, <1>8, <1>9, <1>10, <1>11, <1>12, <1>13, <1>14,
       <1>15, <1>16, <1>17, <1>18, <1>19, <1>20, <1>21, <1>22, Zenon DEF Next, Step, Serve, Quiet


LEMMA RecordedStays == TypeOK /\ Makers /\ "slow" \notin setting.faults /\ Recorded /\ [Next]_vars => Recorded'
<1> SUFFICES ASSUME TypeOK, Makers, "slow" \notin setting.faults, Recorded, [Next]_vars PROVE Recorded'
    BY Zenon
<1> USE SessionsAssumption DEF TypeOK, Makers, Made, Recorded, Alive, disk, locals
<1>1. ASSUME NEW p \in Proc, Begin(p) PROVE Recorded'
    BY Zenon, <1>1 DEF Begin, ListInto, Entries
<1>2. ASSUME NEW p \in Proc, ReadEntry(p) PROVE Recorded'
    BY <1>2 DEF ReadEntry
<1>3. ASSUME NEW p \in Proc, RemoveEntry(p) PROVE Recorded'
    BY <1>3 DEF RemoveEntry
<1>4. ASSUME NEW p \in Proc, RemoveSocket(p) PROVE Recorded'
    BY <1>4 DEF RemoveSocket
<1>5. ASSUME NEW p \in Proc, Peeked(p) PROVE Recorded'
    BY Zenon, <1>5 DEF Peeked, Listed
<1>6. ASSUME NEW p \in Proc, Lock(p) PROVE Recorded'
    BY Zenon, <1>6 DEF Lock, ListInto, Entries
<1>7. ASSUME NEW p \in Proc, Find(p) PROVE Recorded'
    BY Zenon, <1>7 DEF Find, Listed, Unlock
<1>8. ASSUME NEW p \in Proc, Spawn(p) PROVE Recorded'
    BY <1>8 DEF Spawn, Unlock
<1>9. ASSUME NEW p \in Proc, Dialled(p) PROVE Recorded'
    BY Zenon, <1>9 DEF Dialled, Unlock
<1>10. ASSUME NEW p \in Proc, HolderExited(p) PROVE Recorded'
    BY Zenon, <1>10 DEF HolderExited, Unlock
<1>11. ASSUME NEW p \in Proc, Deadline(p) PROVE Recorded'
    BY Zenon, <1>11 DEF Deadline, Unlock
<1>12. ASSUME NEW p \in Proc, Kill(p) PROVE Recorded'
    BY <1>12 DEF Kill, Unlock
<1>13. ASSUME NEW i \in Id, ServeRead(i) PROVE Recorded'
    BY <1>13 DEF ServeRead, HolderAt
<1>14. ASSUME NEW i \in Id, ServeRecord(i) PROVE Recorded'
    BY <1>14 DEF ServeRecord, HolderAt
<1>15. ASSUME NEW i \in Id, ServeListen(i) PROVE Recorded'
    BY <1>15 DEF ServeListen, HolderAt
<1>16. ASSUME NEW i \in Id, ServeStart(i) PROVE Recorded'
    BY <1>16 DEF ServeStart, HolderAt
<1>17. ASSUME NEW i \in Id, ServeEnd(i) PROVE Recorded'
    BY <1>17 DEF ServeEnd, HolderAt
<1>18. ASSUME NEW i \in Id, ServeForget(i) PROVE Recorded'
    BY <1>18 DEF ServeForget, HolderAt
<1>19. ASSUME NEW i \in Id, ServeFail(i) PROVE Recorded'
    BY <1>19 DEF ServeFail, HolderAt
<1>20. ASSUME NEW i \in Id, Age(i) PROVE Recorded'
    BY Zenon, <1>20 DEF Age
<1>21. ASSUME NEW p \in Proc, CreateEntry(p) PROVE Recorded'
    <2>1. PICK i \in Id :
              /\ maker[i] = None
              /\ maker' = [maker EXCEPT ![i] = p] /\ info' = [info EXCEPT ![i] = "new"]
              /\ got' = [got EXCEPT ![p] = i]
        BY Zenon, <1>21, Drawn
    <2>2. pc[p] = "create" /\ pc' = [pc EXCEPT ![p] = "spawn"]
          /\ UNCHANGED <<lock, socks, old, holder, todo, found, dead, setting>>
        BY Zenon, <1>21 DEF CreateEntry
    <2> QED
        BY <2>1, <2>2
<1>22. CASE UNCHANGED vars
    BY Zenon, <1>22 DEF vars
<1> QED
    BY Zenon, <1>1, <1>2, <1>3, <1>4, <1>5, <1>6, <1>7, <1>8, <1>9, <1>10, <1>11, <1>12, <1>13, <1>14,
       <1>15, <1>16, <1>17, <1>18, <1>19, <1>20, <1>21, <1>22, Zenon DEF Next, Step, Serve, Quiet

LEMMA LivesMade ==
    TypeOK => \A i \in Id : Lives(i) => Made(i) /\ maker[i] \in Proc /\ Opener(maker[i])
BY Zenon DEF TypeOK, Lives, Made

\* Whatever holders do and List removes: no holder comes to life, and one that
\* lives keeps its entry.
LEMMA LockedRests ==
    ASSUME TypeOK, Locked, UNCHANGED <<lock, maker, pc, todo, found, got>>,
           \A i \in Id : Alive(i)' => Alive(i) /\ (info[i] = "pid" => info'[i] = "pid")
    PROVE  Locked'
<1>1. \A i \in Id : Lives(i)' => Lives(i) /\ (info[i] = "pid" => info'[i] = "pid")
    BY Zenon DEF Lives, Made, Opener
<1>2. \A i \in Id : Made(i)' = Made(i) /\ (\A p \in Proc : Opener(p)' = Opener(p))
    BY Zenon DEF Made, Opener
<1> QED
    BY Zenon, <1>1, <1>2 DEF Locked, Opening, LockHeld, Settled, Knows, Single

\* Open of p returns: it has lost the lock, and the session it made, if that
\* lives, has its entry.
LEMMA LockedEnds ==
    ASSUME TypeOK, Locked, NEW p \in Proc, NEW end \in {"done", "failed"},
           pc' = [pc EXCEPT ![p] = end], Unlock(p), UNCHANGED <<holder, maker, todo, found, got>>,
           \A i \in Id : Lives(i) => (info[i] = "pid" => info'[i] = "pid"),
           \A i \in Id : Lives(i) /\ maker[i] = p => end = "done" /\ info'[i] = "pid"
    PROVE  Locked'
<1>1. \A i \in Id : Lives(i)' = Lives(i)
    BY Zenon DEF Lives, Made, Alive, Opener
<1>2. \A q \in Proc : pc'[q] \in Opening => q # p /\ pc[q] = pc'[q]
    BY Zenon DEF TypeOK, Opening
<1>3. \A q \in Proc : Opener(q) /\ pc'[q] \in Opening => lock' = q
    BY Zenon, <1>2 DEF Locked, Opening, LockHeld, Settled, Knows, Single, Unlock
<1>4. \A i \in Id : Lives(i) => pc'[maker[i]] = "dial" \/ (pc'[maker[i]] = "done" /\ info'[i] = "pid")
    <2> SUFFICES ASSUME NEW i \in Id, Lives(i)
                 PROVE  pc'[maker[i]] = "dial" \/ (pc'[maker[i]] = "done" /\ info'[i] = "pid")
        BY Zenon
    <2>1. CASE maker[i] = p
        BY Zenon, <2>1 DEF TypeOK
    <2>2. CASE maker[i] # p
        <3>1. maker[i] \in Proc /\ pc'[maker[i]] = pc[maker[i]]
            BY Zenon, <2>2 DEF TypeOK, Lives, Made
        <3> QED
            BY Zenon, <3>1 DEF Locked, Opening, LockHeld, Settled, Knows, Single
    <2> QED
        BY Zenon, <2>1, <2>2
<1> QED
    BY <1>1, <1>2, <1>3, <1>4 DEF Locked, Opening, LockHeld, Settled, Knows, Single, Opener

\* A process looks around before it takes part in opening sessions.
LEMMA LockedLooks ==
    ASSUME TypeOK, Makers, Locked, NEW p \in Proc, pc[p] \in {"idle", "peek"},
           Opener(p) => pc'[p] \notin Opening, UNCHANGED <<lock, info, holder, maker, got>>,
           \A q \in Proc : q # p => pc'[q] = pc[q] /\ todo'[q] = todo[q] /\ found'[q] = found[q]
    PROVE  Locked'
<1>1. \A i \in Id : Lives(i)' = Lives(i)
    BY Zenon DEF Lives, Made, Alive, Opener
<1>2. \A i \in Id : Lives(i) => pc'[maker[i]] = pc[maker[i]]
    BY Zenon, LivesMade DEF Makers
<1>3. LockHeld'
    BY Zenon DEF Locked, LockHeld, Opener, Opening
<1>4. Settled' /\ Single'
    BY Zenon, <1>1, <1>2 DEF Locked, Settled, Single
<1>5. ASSUME NEW q \in Proc, NEW i \in Id, Opener(q), Lives(i), Want[maker[i]] = Want[q]
      PROVE  /\ pc'[q] = "find" => i \in todo'[q] \cup found'[q]
             /\ pc'[q] \notin {"create", "spawn"}
             /\ pc'[q] = "dial" => i = got[q]
    <2>1. CASE q = p
        BY Zenon, <1>5, <2>1 DEF Opening
    <2>2. CASE q # p
        BY Zenon, <1>5, <2>2 DEF Locked, Knows
    <2> QED
        BY Zenon, <2>1, <2>2
<1>6. Knows'
    BY Zenon, <1>1, <1>5 DEF Knows, Opener
<1> QED
    BY Zenon, <1>3, <1>4, <1>6 DEF Locked

LEMMA LockedStays == TypeOK /\ Makers /\ Recorded /\ setting.faults = {} /\ Locked /\ [Next]_vars => Locked'
<1> SUFFICES ASSUME TypeOK, Makers, Recorded, setting.faults = {}, Locked, [Next]_vars PROVE Locked'
    BY Zenon
<1>1. ASSUME NEW p \in Proc, Begin(p) PROVE Locked'
    <2>1. pc[p] = "idle" /\ UNCHANGED <<lock, info, holder, maker, got>>
        BY Zenon, <1>1 DEF Begin, disk
    <2>2. Opener(p) => pc'[p] \notin Opening
        BY Zenon, <1>1 DEF Begin, ListInto, TypeOK, Opener, Opening
    <2>3. \A q \in Proc : q # p => pc'[q] = pc[q] /\ todo'[q] = todo[q] /\ found'[q] = found[q]
        BY Zenon, <1>1 DEF Begin, ListInto, TypeOK
    <2> QED
        BY Zenon, <2>1, <2>2, <2>3, LockedLooks
<1>2. ASSUME NEW p \in Proc, ReadEntry(p) PROVE Locked'
    <2>1. UNCHANGED <<lock, info, holder, maker, pc, got>>
        BY Zenon, <1>2 DEF ReadEntry, disk
    <2>2. \A i \in Id : Lives(i)' = Lives(i)
        BY Zenon, <2>1 DEF Lives, Made, Alive, Opener
    <2>3. \A q \in Proc : q # p => todo'[q] = todo[q] /\ found'[q] = found[q]
        BY Zenon, <1>2 DEF ReadEntry, TypeOK
    <2>4. \A i \in Id : Opener(p) /\ pc[p] = "find" /\ Lives(i) => info[i] = "pid"
        BY Zenon, LivesMade DEF Locked, LockHeld, Settled, Opening
    <2>5. \A i \in todo[p] \cup found[p] :
              i \in todo'[p] \cup found'[p] \/ ~(info[i] = "pid" /\ Alive(i))
        BY <1>2 DEF ReadEntry, TypeOK, Recorded
    <2>6. LockHeld' /\ Settled' /\ Single'
        BY Zenon, <2>1, <2>2 DEF Locked, LockHeld, Settled, Single, Opening, Opener
    <2>7. ASSUME NEW q \in Proc, NEW i \in Id, Opener(q), Lives(i), Want[maker[i]] = Want[q], pc[q] = "find"
          PROVE  i \in todo'[q] \cup found'[q]
        BY Zenon, <2>3, <2>4, <2>5, <2>7 DEF Locked, Knows, Lives
    <2>8. Knows'
        BY Zenon, <2>1, <2>2, <2>7 DEF Locked, Knows, Opener
    <2> QED
        BY Zenon, <2>6, <2>8 DEF Locked
<1>3. ASSUME NEW p \in Proc, RemoveEntry(p) PROVE Locked'
    <2>1. \A i \in Id : Alive(i)' => Alive(i) /\ (info[i] = "pid" => info'[i] = "pid")
        BY Zenon, <1>3 DEF RemoveEntry, disk, TypeOK, Recorded, Alive
    <2>2. UNCHANGED <<lock, maker, pc, todo, found, got>>
        BY Zenon, <1>3 DEF RemoveEntry, disk, locals
    <2> QED
        BY <2>1, <2>2, LockedRests, Zenon
<1>4. ASSUME NEW p \in Proc, RemoveSocket(p) PROVE Locked'
    <2>1. \A i \in Id : Alive(i)' => Alive(i) /\ (info[i] = "pid" => info'[i] = "pid")
        BY Zenon, <1>4 DEF RemoveSocket, disk, TypeOK, Recorded, Alive
    <2>2. UNCHANGED <<lock, maker, pc, todo, found, got>>
        BY Zenon, <1>4 DEF RemoveSocket, disk, locals
    <2> QED
        BY <2>1, <2>2, LockedRests, Zenon
<1>5. ASSUME NEW p \in Proc, Peeked(p) PROVE Locked'
    <2>1. pc[p] = "peek" /\ UNCHANGED <<lock, info, holder, maker, got>>
        BY Zenon, <1>5 DEF Peeked, Listed, disk
    <2>2. Opener(p) => pc'[p] \notin Opening
        BY Zenon, <1>5 DEF Peeked, TypeOK, Opening
    <2>3. \A q \in Proc : q # p => pc'[q] = pc[q] /\ todo'[q] = todo[q] /\ found'[q] = found[q]
        BY Zenon, <1>5 DEF Peeked, TypeOK
    <2> QED
        BY Zenon, <2>1, <2>2, <2>3, LockedLooks
<1>6. ASSUME NEW p \in Proc, Lock(p) PROVE Locked'
    <2>1. lock = None /\ lock' = p /\ UNCHANGED <<info, holder, maker, got>>
        BY Zenon, <1>6 DEF Lock
    <2>2. \A q \in Proc : pc'[q] = IF q = p THEN "find" ELSE pc[q]
        BY Zenon, <1>6 DEF Lock, ListInto, TypeOK
    <2>3. \A q \in Proc : Opener(q) => pc[q] \notin Opening
        BY Zenon, <2>1, SessionsAssumption DEF Locked, Opening, LockHeld, Settled, Knows, Single
    <2>4. \A i \in Id : Lives(i)' = Lives(i)
        BY Zenon, <2>1 DEF Lives, Made, Alive, Opener
    <2>5. \A i \in Id : Lives(i) => maker[i] \in Proc /\ Opener(maker[i])
        BY Zenon, LivesMade
    <2>6. pc[p] = "lock" /\ todo' = [todo EXCEPT ![p] = Entries]
        BY Zenon, <1>6 DEF Lock, ListInto
    <2>7. \A i \in Id : Lives(i) => maker[i] # p /\ pc[maker[i]] = "done" /\ info[i] = "pid"
        BY Zenon, <2>3, <2>5, <2>6 DEF Locked, Opening, LockHeld, Settled, Knows, Single
    <2>8. \A i \in Id : Lives(i) => i \in todo'[p]
        BY Zenon, <2>6, <2>7 DEF TypeOK, Entries
    <2>9. LockHeld'
        BY Zenon, <2>1, <2>2, <2>3 DEF LockHeld, Opening, Opener
    <2>10. Settled'
        BY Zenon, <2>1, <2>2, <2>4, <2>5, <2>7 DEF Settled
    <2>11. Knows'
        BY Zenon, <2>1, <2>2, <2>3, <2>4, <2>8 DEF Knows, Opening, Opener
    <2>12. Single'
        BY Zenon, <2>1, <2>4 DEF Locked, Single
    <2> QED
        BY Zenon, <2>9, <2>10, <2>11, <2>12 DEF Locked
<1>7. ASSUME NEW p \in Proc, Find(p) PROVE Locked'
    <2>1. todo[p] = {} /\ pc[p] = "find" /\ UNCHANGED <<info, holder, maker, todo>>
          /\ found' = [found EXCEPT ![p] = {}]
        BY Zenon, <1>7 DEF Find, Listed
    <2>2. \A i \in Id : Lives(i)' = Lives(i)
        BY Zenon, <2>1 DEF Lives, Made, Alive, Opener
    <2>3. \A i \in Id : Made(i) => maker[i] # p
        BY Zenon, <2>1 DEF Makers
    <2>4. \A q \in Proc : q # p => pc'[q] = pc[q] /\ found'[q] = found[q] /\ got'[q] = got[q]
        BY Zenon, <1>7 DEF Find, TypeOK
    <2>5. \A i \in Id : Lives(i) => maker[i] \in Proc /\ pc'[maker[i]] = pc[maker[i]]
        BY Zenon, <2>3, <2>4, LivesMade
    <2>6. \/ pc'[p] = "done" /\ Unlock(p)
          \/ pc'[p] = "create" /\ lock' = lock
             /\ \A i \in found[p] : Want[maker[i]] # Want[p]
        BY Zenon, <1>7 DEF Find, TypeOK
    <2>7. \A q \in Proc : Opener(q) /\ pc'[q] \in Opening => lock' = q
        BY Zenon, <2>1, <2>4, <2>6 DEF Locked, Opening, LockHeld, Settled, Knows, Single, Unlock
    <2>8. pc'[p] = "create" => \A i \in Id : Opener(p) /\ Lives(i) => Want[maker[i]] # Want[p]
        BY Zenon, <2>1, <2>6 DEF Locked, Opening, LockHeld, Settled, Knows, Single
    <2>9. pc'[p] \in {"done", "create"}
        BY Zenon, <2>6
    <2>10. ASSUME NEW q \in Proc, NEW i \in Id, Opener(q), Lives(i), Want[maker[i]] = Want[q]
           PROVE  /\ pc'[q] = "find" => i \in todo[q] \cup found'[q]
                  /\ pc'[q] \notin {"create", "spawn"}
                  /\ pc'[q] = "dial" => i = got'[q]
        <3>1. CASE q = p
            BY Zenon, <2>8, <2>9, <2>10, <3>1
        <3>2. CASE q # p
            BY <2>4, <2>10, <3>2 DEF Locked, Opening, LockHeld, Settled, Knows, Single
        <3> QED
            BY Zenon, <3>1, <3>2
    <2>11. Settled' /\ Single'
        BY Zenon, <2>1, <2>2, <2>5 DEF Locked, Settled, Single
    <2>12. LockHeld' /\ Knows'
        BY Zenon, <2>1, <2>2, <2>7, <2>10 DEF LockHeld, Opening, Knows, Opener
    <2> QED
        BY Zenon, <2>11, <2>12 DEF Locked
<1>8. ASSUME NEW p \in Proc, Spawn(p) PROVE Locked'
    <2>1. pc[p] = "spawn" /\ UNCHANGED <<maker, todo, found, got>>
        BY Zenon, <1>8 DEF Spawn, locals
    <2>2. got[p] \in Id /\ maker[got[p]] = p /\ holder[got[p]] = "none"
        <3>1. got[p] # None /\ maker[got[p]] = p /\ holder[got[p]] = "none"
            BY Zenon, <2>1 DEF Makers
        <3> QED
            BY Zenon, <3>1 DEF TypeOK
    <2>3. ASSUME holder' = [holder EXCEPT ![got[p]] = "serve"], pc' = [pc EXCEPT ![p] = "dial"],
                 UNCHANGED <<lock, info>>
          PROVE  Locked'
        <3>1. \A i \in Id : Lives(i)' <=> Lives(i) \/ (i = got[p] /\ Opener(p))
            <4>1. DOMAIN holder = Id /\ got[p] \in Id /\ p # None
                BY Zenon, SessionsAssumption, <2>2 DEF TypeOK
            <4>2. \A i \in Id : holder'[i] = IF i = got[p] THEN "serve" ELSE holder[i]
                BY Zenon, <2>3, <4>1
            <4>3. \A i \in Id : Alive(i)' <=> Alive(i) \/ i = got[p]
                BY Zenon, <4>2 DEF Alive
            <4> QED
                BY <2>1, <2>2, <4>1, <4>3, Zenon DEF Lives, Made, Alive, Opener
        <3>2. \A q \in Proc : pc'[q] = IF q = p THEN "dial" ELSE pc[q]
            BY Zenon, <2>3 DEF TypeOK
        <3>3. \A i \in Id : Lives(i) => Made(i) /\ maker[i] \in Proc /\ maker[i] # p
            BY Zenon, <2>1, LivesMade DEF Locked, Settled
        <3>4. \A q \in Proc : Opener(q) /\ pc'[q] \in Opening => lock' = q
            BY <2>1, <2>3, <3>2 DEF Locked, Opening, LockHeld, Settled, Knows, Single, Opener
        <3>5. \A i \in Id : Lives(i)' =>
                  pc'[maker[i]] = "dial" \/ (pc'[maker[i]] = "done" /\ info'[i] = "pid")
            <4> SUFFICES ASSUME NEW i \in Id, Lives(i)'
                         PROVE  pc'[maker[i]] = "dial" \/ (pc'[maker[i]] = "done" /\ info'[i] = "pid")
                BY Zenon
            <4>1. CASE Lives(i)
                <5>1. pc'[maker[i]] = pc[maker[i]] /\ info'[i] = info[i]
                    BY Zenon, <2>3, <3>2, <3>3, <4>1
                <5> QED
                    BY Zenon, <4>1, <5>1 DEF Locked, Settled
            <4>2. CASE i = got[p]
                BY Zenon, <2>2, <3>2, <4>2
            <4> QED
                BY Zenon, <3>1, <4>1, <4>2
        <3>6. \A i \in Id : Opener(p) /\ Lives(i) => Want[maker[i]] # Want[p]
            BY Zenon, <2>1 DEF Locked, Opening, LockHeld, Settled, Knows, Single
        <3>7. \A i, j \in Id : Lives(i)' /\ Lives(j)' /\ Want[maker[i]] = Want[maker[j]] => i = j
            <4>1. maker[got[p]] = p
                BY Zenon, <2>2
            <4>2. \A i, j \in Id : Lives(i) /\ Lives(j) /\ Want[maker[i]] = Want[maker[j]] => i = j
                BY Zenon DEF Locked, Single
            <4> QED
                BY Zenon, <3>1, <3>6, <4>1, <4>2
        <3>8. ASSUME NEW q \in Proc, NEW i \in Id, Opener(q), Lives(i)', Want[maker[i]] = Want[q]
              PROVE  /\ pc'[q] = "find" => i \in todo[q] \cup found[q]
                     /\ pc'[q] \notin {"create", "spawn"}
                     /\ pc'[q] = "dial" => i = got[q]
            <4>1. CASE q = p
                BY Zenon, <2>2, <3>1, <3>2, <3>6, <3>8, <4>1
            <4>2. CASE q # p
                <5>1. Opener(p) => pc[q] \notin Opening
                    BY Zenon, <2>1, <3>8, <4>2 DEF Locked, Opening, LockHeld, Settled, Knows, Single
                <5>2. ~Opener(p) => Lives(i)
                    BY Zenon, <3>1, <3>8
                <5> QED
                    BY Zenon, <3>2, <3>8, <4>2, <5>1, <5>2 DEF Locked, Opening, LockHeld, Settled, Knows, Single
            <4> QED
                BY Zenon, <4>1, <4>2
        <3> QED
            BY Zenon, <2>1, <3>4, <3>5, <3>7, <3>8 DEF Locked, Opening, LockHeld, Settled, Knows, Single, Opener
    <2>4. ASSUME info' = [info EXCEPT ![got[p]] = "none"], pc' = [pc EXCEPT ![p] = "failed"],
                 Unlock(p), UNCHANGED holder
          PROVE  Locked'
        <3>1. \A i \in Id : Lives(i) => maker[i] # p /\ (info[i] = "pid" => info'[i] = "pid")
            BY <2>1, <2>2, <2>4 DEF TypeOK, Makers, Lives, Made, Alive
        <3> QED
            BY Zenon, <2>1, <2>4, <3>1, LockedEnds
    <2> QED
        BY Zenon, <1>8, <2>3, <2>4 DEF Spawn
<1>9. ASSUME NEW p \in Proc, Dialled(p) PROVE Locked'
    <2>1. pc[p] = "dial" /\ pc' = [pc EXCEPT ![p] = "done"] /\ Unlock(p)
          /\ UNCHANGED <<info, holder, maker, todo, found, got>>
        BY Zenon, <1>9 DEF Dialled, locals
    <2>2. info[got[p]] = "pid"
        BY Zenon, <1>9, <2>1 DEF Dialled, Accepts, TypeOK, Makers, Recorded
    <2>3. \A i \in Id : maker[i] = p => i = got[p]
        BY Zenon, SessionsAssumption DEF Makers, Made
    <2> QED
        BY Zenon, <2>1, <2>2, <2>3, LockedEnds
<1>10. ASSUME NEW p \in Proc, HolderExited(p) PROVE Locked'
    <2>1. holder[got[p]] = "gone" /\ pc' = [pc EXCEPT ![p] = "failed"] /\ Unlock(p)
          /\ UNCHANGED <<info, holder, maker, todo, found, got>>
        BY Zenon, <1>10 DEF HolderExited, locals
    <2>2. \A i \in Id : Lives(i) => maker[i] # p
        <3>1. \A i \in Id : Lives(i) => holder[i] # "gone" /\ got[maker[i]] = i
            BY Zenon DEF Makers, Lives, Alive
        <3> QED
            BY Zenon, <2>1, <3>1
    <2> QED
        BY Zenon, <2>1, <2>2, LockedEnds
<1>11. ASSUME NEW p \in Proc, Deadline(p) PROVE Locked'
    BY Zenon, <1>11 DEF Deadline, Recorded
<1>12. ASSUME NEW p \in Proc, Kill(p) PROVE Locked'
    BY Zenon, <1>12 DEF Kill
<1>13. ASSUME NEW i \in Id, ServeRead(i) PROVE Locked'
    <2>1. \A j \in Id : Alive(j)' => Alive(j) /\ (info[j] = "pid" => info'[j] = "pid")
        BY Zenon, <1>13 DEF ServeRead, HolderAt, disk, TypeOK, Recorded, Alive
    <2>2. UNCHANGED <<lock, maker, pc, todo, found, got>>
        BY Zenon, <1>13 DEF ServeRead, disk, locals
    <2> QED
        BY <2>1, <2>2, LockedRests, Zenon
<1>14. ASSUME NEW i \in Id, ServeRecord(i) PROVE Locked'
    <2>1. \A j \in Id : Alive(j)' => Alive(j) /\ (info[j] = "pid" => info'[j] = "pid")
        BY Zenon, <1>14 DEF ServeRecord, HolderAt, disk, TypeOK, Recorded, Alive
    <2>2. UNCHANGED <<lock, maker, pc, todo, found, got>>
        BY Zenon, <1>14 DEF ServeRecord, disk, locals
    <2> QED
        BY <2>1, <2>2, LockedRests, Zenon
<1>15. ASSUME NEW i \in Id, ServeListen(i) PROVE Locked'
    <2>1. \A j \in Id : Alive(j)' => Alive(j) /\ (info[j] = "pid" => info'[j] = "pid")
        BY Zenon, <1>15 DEF ServeListen, HolderAt, disk, TypeOK, Recorded, Alive
    <2>2. UNCHANGED <<lock, maker, pc, todo, found, got>>
        BY Zenon, <1>15 DEF ServeListen, disk, locals
    <2> QED
        BY <2>1, <2>2, LockedRests, Zenon
<1>16. ASSUME NEW i \in Id, ServeStart(i) PROVE Locked'
    <2>1. \A j \in Id : Alive(j)' => Alive(j) /\ (info[j] = "pid" => info'[j] = "pid")
        BY Zenon, <1>16 DEF ServeStart, HolderAt, disk, TypeOK, Recorded, Alive
    <2>2. UNCHANGED <<lock, maker, pc, todo, found, got>>
        BY Zenon, <1>16 DEF ServeStart, disk, locals
    <2> QED
        BY <2>1, <2>2, LockedRests, Zenon
<1>17. ASSUME NEW i \in Id, ServeEnd(i) PROVE Locked'
    <2>1. \A j \in Id : Alive(j)' => Alive(j) /\ (info[j] = "pid" => info'[j] = "pid")
        BY Zenon, <1>17 DEF ServeEnd, HolderAt, disk, TypeOK, Recorded, Alive
    <2>2. UNCHANGED <<lock, maker, pc, todo, found, got>>
        BY Zenon, <1>17 DEF ServeEnd, disk, locals
    <2> QED
        BY <2>1, <2>2, LockedRests, Zenon
<1>18. ASSUME NEW i \in Id, ServeForget(i) PROVE Locked'
    <2>1. \A j \in Id : Alive(j)' => Alive(j) /\ (info[j] = "pid" => info'[j] = "pid")
        BY Zenon, <1>18 DEF ServeForget, HolderAt, disk, TypeOK, Recorded, Alive
    <2>2. UNCHANGED <<lock, maker, pc, todo, found, got>>
        BY Zenon, <1>18 DEF ServeForget, disk, locals
    <2> QED
        BY <2>1, <2>2, LockedRests, Zenon
<1>19. ASSUME NEW i \in Id, ServeFail(i) PROVE Locked'
    <2>1. \A j \in Id : Alive(j)' => Alive(j) /\ (info[j] = "pid" => info'[j] = "pid")
        BY Zenon, <1>19 DEF ServeFail, HolderAt, disk, TypeOK, Recorded, Alive
    <2>2. UNCHANGED <<lock, maker, pc, todo, found, got>>
        BY Zenon, <1>19 DEF ServeFail, disk, locals
    <2> QED
        BY <2>1, <2>2, LockedRests, Zenon
<1>20. ASSUME NEW i \in Id, Age(i) PROVE Locked'
    <2>1. \A j \in Id : Alive(j)' => Alive(j) /\ (info[j] = "pid" => info'[j] = "pid")
        BY Zenon, <1>20 DEF Age, disk, TypeOK, Recorded, Alive
    <2>2. UNCHANGED <<lock, maker, pc, todo, found, got>>
        BY Zenon, <1>20 DEF Age, disk, locals
    <2> QED
        BY <2>1, <2>2, LockedRests, Zenon
<1>21. ASSUME NEW p \in Proc, CreateEntry(p) PROVE Locked'
    <2>1. PICK i \in Id :
              /\ maker[i] = None
              /\ maker' = [maker EXCEPT ![i] = p] /\ info' = [info EXCEPT ![i] = "new"]
              /\ got' = [got EXCEPT ![p] = i]
        BY Zenon, <1>21, Drawn
    <2>2. pc[p] = "create" /\ pc' = [pc EXCEPT ![p] = "spawn"]
          /\ UNCHANGED <<lock, holder, todo, found>>
        BY Zenon, <1>21 DEF CreateEntry
    <2>3. holder[i] = "none"
        BY Zenon, <2>1 DEF Makers, Made
    <2>4. \A j \in Id : j # i => maker'[j] = maker[j] /\ info'[j] = info[j]
        BY Zenon, <2>1 DEF TypeOK
    <2>5. \A j \in Id : (Lives(j)' <=> Lives(j)) /\ (Lives(j) => j # i)
        BY Zenon, <2>1, <2>2, <2>3, <2>4 DEF Lives, Made, Alive, Opener
    <2>6. \A q \in Proc : q # p => pc'[q] = pc[q] /\ got'[q] = got[q]
        BY Zenon, <2>1, <2>2 DEF TypeOK
    <2>7. pc'[p] = "spawn"
        BY Zenon, <2>2 DEF TypeOK
    <2>8. \A j \in Id : Lives(j) => maker[j] \in Proc /\ maker[j] # p
        BY Zenon, <2>2, LivesMade DEF Makers
    <2>9. \A q \in Proc : Opener(q) /\ pc'[q] \in Opening => lock' = q
        BY Zenon, <2>2, <2>6, <2>7 DEF Locked, Opening, LockHeld, Settled, Knows, Single
    <2>10. ASSUME NEW q \in Proc, NEW j \in Id, Opener(q), Lives(j), Want[maker[j]] = Want[q]
           PROVE  /\ pc'[q] = "find" => j \in todo[q] \cup found[q]
                  /\ pc'[q] \notin {"create", "spawn"}
                  /\ pc'[q] = "dial" => j = got'[q]
        <3>1. CASE q = p
            BY Zenon, <2>2, <2>10, <3>1 DEF Locked, Opening, LockHeld, Settled, Knows, Single
        <3>2. CASE q # p
            BY <2>6, <2>10, <3>2 DEF Locked, Opening, LockHeld, Settled, Knows, Single
        <3> QED
            BY Zenon, <3>1, <3>2
    <2>11. Settled' /\ Single'
        <3>1. \A j \in Id : Lives(j)' =>
                  Lives(j) /\ maker'[j] = maker[j] /\ info'[j] = info[j] /\ pc'[maker[j]] = pc[maker[j]]
            BY Zenon, <2>4, <2>5, <2>6, <2>8
        <3>2. Settled'
            BY Zenon, <3>1 DEF Locked, Settled
        <3>3. Single'
            BY Zenon, <3>1 DEF Locked, Single
        <3> QED
            BY Zenon, <3>2, <3>3
    <2>12. LockHeld' /\ Knows'
        BY <2>2, <2>4, <2>5, <2>9, <2>10 DEF LockHeld, Opening, Knows, Opener
    <2> QED
        BY Zenon, <2>11, <2>12 DEF Locked
<1>22. CASE UNCHANGED vars
    <2>1. \A i \in Id : Alive(i)' => Alive(i) /\ (info[i] = "pid" => info'[i] = "pid")
        BY Zenon, <1>22 DEF vars, disk, TypeOK, Recorded, Alive
    <2>2. UNCHANGED <<lock, maker, pc, todo, found, got>>
        BY Zenon, <1>22 DEF vars, disk, locals
    <2> QED
        BY <2>1, <2>2, LockedRests, Zenon
<1> QED
    BY Zenon, <1>1, <1>2, <1>3, <1>4, <1>5, <1>6, <1>7, <1>8, <1>9, <1>10, <1>11, <1>12, <1>13, <1>14,
       <1>15, <1>16, <1>17, <1>18, <1>19, <1>20, <1>21, <1>22, Zenon DEF Next, Step, Serve, Quiet

LEMMA StoreStep == StoreInv /\ [Next]_vars => StoreInv'
<1> SUFFICES ASSUME StoreInv, [Next]_vars PROVE StoreInv'
    BY Zenon
<1>1. setting' = setting
    BY Zenon DEF Next, Step, Serve, Quiet, vars, Begin, ReadEntry, RemoveEntry, RemoveSocket, Peeked, Lock,
           Find, CreateEntry, Spawn, Dialled, HolderExited, Deadline, Kill, ServeRead, ServeRecord,
           ServeListen, ServeStart, ServeEnd, ServeForget, ServeFail, Age
<1>2. TypeOK' /\ Makers'
    BY Zenon, TypesStay, MakersStay DEF StoreInv
<1>3. "slow" \notin setting.faults => Recorded'
    BY Zenon, RecordedStays DEF StoreInv
<1>4. setting.faults = {} => Locked'
    <2>1. setting.faults = {} => "slow" \notin setting.faults
        BY Zenon
    <2> QED
        BY Zenon, <2>1, LockedStays DEF StoreInv
<1> QED
    BY Zenon, <1>1, <1>2, <1>3, <1>4 DEF StoreInv

\* Open, Create and Serve: concurrent Opens of a directory share one session, a
\* session that was returned can be stopped, and an Open that fails leaves no
\* holder, for any number of processes, directories and sessions.
THEOREM SessionsAlwaysAccounted == Spec => []SessionsAccounted
<1>1. StoreInv => SessionsAccounted
    <2> SUFFICES ASSUME StoreInv PROVE SessionsAccounted
        BY Zenon
    <2>1. ASSUME NEW i \in Id, Accepts(i), Mode[maker[i]] = "open" PROVE Lives(i)
        BY Zenon, <2>1 DEF StoreInv, Accepts, Lives, Opener, Alive, Makers
    <2>4. OneSession
        BY Zenon, <2>1 DEF StoreInv, OneSession, Locked, Opening, LockHeld, Settled, Knows, Single
    <2>2. OpenedIsStoppable
        BY Zenon, SessionsAssumption DEF StoreInv, TypeOK, OpenedIsStoppable, Accepts, Recorded
    <2>3. FailedLeavesNoHolder
        BY Zenon DEF StoreInv, FailedLeavesNoHolder, Makers
    <2> QED
        BY Zenon, <2>2, <2>3, <2>4 DEF SessionsAccounted
<1> QED
    BY <1>1, StoreInit, StoreStep, PTL DEF Spec
=============================================================================
