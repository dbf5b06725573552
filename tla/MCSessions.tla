----------------------------- MODULE MCSessions -----------------------------
(* Small instances of the two that answer for a VM and its sessions: the    *)
(* supervisor (Supervisor) and the session directory of the guest           *)
(* (SessionStore).  `part` chooses the one that moves; the other rests.     *)
EXTENDS SessionStore, TLC

CONSTANTS o1, o2, n1, l1, d1

VARIABLES part, supPc, ctx, reason, broker, status, vm, request, file

supervisor == <<supPc, ctx, reason, broker, status, vm, request, file>>

Sup == INSTANCE Supervisor WITH pc <- supPc

\* Two Opens and one `open -new` of the same directory, and one list.
MCMode == o1 :> "open" @@ o2 :> "open" @@ n1 :> "new" @@ l1 :> "list"
MCWant == o1 :> d1 @@ o2 :> d1 @@ n1 :> d1 @@ l1 :> d1

\* The two Opens with a third process and nothing going wrong but holders that
\* fail, and the two alone with everything that may.
Everything == [procs |-> {o1, o2}, faults |-> {"slow", "kill"}]
MCSettings == {[procs |-> {o1, o2, k}, faults |-> {}] : k \in {n1, l1}} \cup {Everything}

MCInit ==
    /\ part \in {"supervisor", "store"}
    /\ Init /\ Sup!Init
    /\ part # "supervisor" => request = "no"
    /\ part # "store" => setting = Everything

MCNext ==
    \/ part = "supervisor" /\ Sup!Next /\ UNCHANGED <<part, vars>>
    \/ part = "store" /\ Next /\ UNCHANGED <<part, supervisor>>

MCSpec ==
    /\ MCInit /\ [][MCNext]_<<part, vars, supervisor>>
    /\ part = "supervisor" => Sup!Fairness
    /\ part = "store" => Fairness

\* The types of both.
MCTypeOK == TypeOK /\ Sup!TypeOK

\* Run: a boot finds no request of an earlier one, and one that ends leaves
\* neither VM nor broker behind.
CleanBoot == Sup!CleanBoot

\* Supervise: the supervisor ends with its broker and on SIGTERM.
SupervisorEnds == Sup!SupervisorEnds

\* Run implements the lifecycle the jailoc commands rely on.
ImplementsLifecycle == Sup!ImplementsLifecycle
=============================================================================
