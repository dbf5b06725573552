---------------------------- MODULE BrokerFlows ----------------------------
(***************************************************************************)
(* The connections the network broker relays: guest flows (handleTCP, and  *)
(* handleUDP, which differs only in its counter and its relay) and guest   *)
(* connections to a gateway service (startServiceTarget), such as SSH      *)
(* agent forwarding.  Each runs in a goroutine of its own beside           *)
(* ApplyRuntime, which adds, retargets and removes the service, and        *)
(* SetPolicy.  All of them share the flow counter.                         *)
(*                                                                         *)
(* A route of a service is a number; a service is named by its first       *)
(* route.  Retargeting gives a service a new route and cancels the old.    *)
(***************************************************************************)
EXTENDS Integers, FiniteSets

CONSTANTS
    Conn,       \* guest connections
    MaxFlows,   \* the cap, maxTCPFlows
    MaxRoutes   \* bound on the routes a behaviour makes

ASSUME FlowsAssumption ==
    /\ IsFiniteSet(Conn) /\ MaxFlows \in Nat \ {0} /\ MaxRoutes \in Nat

VARIABLES
    n,          \* flowLimit.n
    policy,     \* what the policy in force says of guest flows: "allow" or "deny"
    made,       \* routes made so far
    service,    \* the running service, 0 when there is none
    current,    \* current[s]: the route service s sends new connections along
    listening,  \* services whose listener is open
    cancelled,  \* routes whose context is cancelled
    todo,       \* the context ApplyRuntime is about to cancel: a set of routes
    pc,         \* each connection: where its goroutine is
    svc,        \* each connection: the service that accepted it, 0 for a guest flow
    route,      \* each connection: the route it took, 0 before it takes one
    dead        \* each connection: the routes cancelled before it was accepted

limits == <<n, policy>>
runtime == <<made, service, current, listening, cancelled, todo>>
conns == <<pc, svc, route, dead>>
vars == <<limits, runtime, conns>>

Routes == 0 .. MaxRoutes
Steps == {"none", "decide", "acquire", "refuse", "route", "dial", "hook", "open", "closing"}
Holding == {"route", "dial", "hook", "open", "closing"}
Holders == {k \in Conn : pc[k] \in Holding}
Counted == {k \in Conn : pc[k] \in Holding \cup {"refuse"}}

Init ==
    /\ n = 0 /\ policy = "allow"
    /\ made = 0 /\ service = 0 /\ current = [s \in Routes |-> 0] /\ listening = {}
    /\ cancelled = {} /\ todo = {}
    /\ pc = [k \in Conn |-> "none"] /\ svc = [k \in Conn |-> 0]
    /\ route = [k \in Conn |-> 0] /\ dead = [k \in Conn |-> {}]

------------------------------------------------------------------------------
(* ApplyRuntime, under its mutex, and SetPolicy. *)

SetPolicy ==
    /\ policy' \in {"allow", "deny"} \ {policy}
    /\ UNCHANGED <<n, runtime, conns>>

\* Mistaken variant: the listener is opened before the service has its number.
AddServiceUnset ==
    /\ service = 0 /\ todo = {} /\ made < MaxRoutes
    /\ made' = made + 1 /\ service' = made + 1
    /\ current' = [current EXCEPT ![made + 1] = made + 1]
    /\ listening' = listening \cup {service}
    /\ UNCHANGED <<limits, cancelled, todo, conns>>

\* A service that is not running starts with its first route.
AddService ==
    /\ service = 0 /\ todo = {} /\ made < MaxRoutes
    /\ made' = made + 1 /\ service' = made + 1
    /\ current' = [current EXCEPT ![made + 1] = made + 1]
    /\ listening' = listening \cup {made + 1}
    /\ UNCHANGED <<limits, cancelled, todo, conns>>

\* Mistaken variant: the old route is cancelled before the new one is stored.
RetargetCancelFirst ==
    /\ service # 0 /\ todo = {} /\ made < MaxRoutes
    /\ \/ /\ current[service] \notin cancelled
          /\ cancelled' = cancelled \cup {current[service]}
          /\ UNCHANGED <<made, current>>
       \/ /\ current[service] \in cancelled
          /\ made' = made + 1 /\ current' = [current EXCEPT ![service] = made + 1]
          /\ UNCHANGED cancelled
    /\ UNCHANGED <<limits, service, listening, todo, conns>>

\* retarget stores the new route; the old one's context is cancelled next.
Retarget ==
    /\ service # 0 /\ todo = {} /\ made < MaxRoutes
    /\ made' = made + 1 /\ current' = [current EXCEPT ![service] = made + 1]
    /\ todo' = {current[service]}
    /\ UNCHANGED <<limits, service, listening, cancelled, conns>>

\* A removed service closes its listener; its context, and with it that of its
\* route, is cancelled next.
RemoveService ==
    /\ service # 0 /\ todo = {}
    /\ listening' = listening \ {service} /\ todo' = {current[service]}
    /\ service' = 0
    /\ UNCHANGED <<limits, made, current, cancelled, conns>>

Cancel ==
    /\ todo # {} /\ cancelled' = cancelled \cup todo /\ todo' = {}
    /\ UNCHANGED <<limits, made, service, current, listening, conns>>

------------------------------------------------------------------------------
(* One connection. *)

Goto(k, s) == pc' = [pc EXCEPT ![k] = s] /\ UNCHANGED <<svc, route, dead>>

Done(k) ==
    /\ pc' = [pc EXCEPT ![k] = "none"] /\ svc' = [svc EXCEPT ![k] = 0]
    /\ route' = [route EXCEPT ![k] = 0] /\ dead' = [dead EXCEPT ![k] = {}]

\* The guest opens a connection outside the gateway's services ...
NewFlow(k) ==
    /\ pc[k] = "none" /\ Goto(k, "decide") /\ UNCHANGED <<limits, runtime>>

\* ... or a service's listener accepts one.
Accept(k) ==
    /\ pc[k] = "none" /\ pc' = [pc EXCEPT ![k] = "acquire"]
    /\ \E s \in listening : svc' = [svc EXCEPT ![k] = s]
    /\ dead' = [dead EXCEPT ![k] = cancelled]
    /\ UNCHANGED <<limits, runtime, route>>

\* A guest flow is refused or goes on as the policy says.
Decide(k) ==
    /\ pc[k] = "decide"
    /\ \/ policy = "allow" /\ Goto(k, "acquire")
       \/ policy = "deny" /\ Done(k)
    /\ UNCHANGED <<limits, runtime>>

\* Mistaken variant: the cap is compared with the counter before it is raised.
AcquireLate(k) ==
    /\ pc[k] = "acquire" /\ n' = n + 1
    /\ Goto(k, IF n > MaxFlows THEN "refuse" ELSE IF svc[k] = 0 THEN "dial" ELSE "route")
    /\ UNCHANGED <<policy, runtime>>

\* acquire raises the counter first; past the cap it is lowered again, later.
Acquire(k) ==
    /\ pc[k] = "acquire" /\ n' = n + 1
    /\ Goto(k, IF n + 1 > MaxFlows THEN "refuse" ELSE IF svc[k] = 0 THEN "dial" ELSE "route")
    /\ UNCHANGED <<policy, runtime>>

Refuse(k) ==
    /\ pc[k] = "refuse" /\ n' = n - 1 /\ Done(k) /\ UNCHANGED <<policy, runtime>>

\* The goroutine of a service connection takes the service's current route.
Route(k) ==
    /\ pc[k] = "route" /\ pc' = [pc EXCEPT ![k] = "dial"]
    /\ route' = [route EXCEPT ![k] = current[svc[k]]]
    /\ UNCHANGED <<limits, runtime, svc, dead>>

\* Mistaken variant: a failed dial returns without giving the flow back.
DialFailedLeak(k) ==
    /\ pc[k] = "dial" /\ Done(k)
    /\ UNCHANGED <<limits, runtime>>

\* The dial fails (or, of a guest flow, the endpoint): the flow is given back.
\* The context of a route that is cancelled makes it fail too.
DialFailed(k) ==
    /\ pc[k] = "dial" /\ n' = n - 1 /\ Done(k) /\ UNCHANGED <<policy, runtime>>

\* The dial succeeds, perhaps just before its route is cancelled.
Dialled(k) ==
    /\ pc[k] = "dial" /\ Goto(k, IF svc[k] = 0 THEN "open" ELSE "hook")
    /\ UNCHANGED <<limits, runtime>>

\* AfterFunc is set up before the relay starts.
Hook(k) ==
    /\ pc[k] = "hook" /\ Goto(k, "open") /\ UNCHANGED <<limits, runtime>>

\* Mistaken variant: the hook looks at the service, not at the route.
RevokeService(k) ==
    /\ pc[k] = "open" /\ svc[k] # 0 /\ svc[k] # service /\ Goto(k, "closing")
    /\ UNCHANGED <<limits, runtime>>

\* A cancelled route closes both ends, also when it was cancelled before the hook.
Revoke(k) ==
    /\ pc[k] = "open" /\ route[k] \in cancelled /\ Goto(k, "closing")
    /\ UNCHANGED <<limits, runtime>>

\* Both ends are done.
Close(k) ==
    /\ pc[k] = "open" /\ Goto(k, "closing") /\ UNCHANGED <<limits, runtime>>

Release(k) ==
    /\ pc[k] = "closing" /\ n' = n - 1 /\ Done(k) /\ UNCHANGED <<policy, runtime>>

Relay(k) == Route(k) \/ DialFailed(k) \/ Dialled(k) \/ Hook(k) \/ Revoke(k) \/ Release(k)

Next ==
    \/ SetPolicy \/ AddService \/ Retarget \/ RemoveService \/ Cancel
    \/ \E k \in Conn : NewFlow(k) \/ Accept(k) \/ Decide(k) \/ Acquire(k) \/ Refuse(k)
                       \/ Relay(k) \/ Close(k)

Spec == Init /\ [][Next]_vars

\* A goroutine that can go on does; dials end by their timeout.
Fairness == \A k \in Conn : WF_vars(Relay(k))

------------------------------------------------------------------------------
(* Properties. *)

TypeOK ==
    /\ n \in Int /\ policy \in {"allow", "deny"}
    /\ made \in Routes /\ service \in Routes /\ current \in [Routes -> Routes]
    /\ listening \subseteq Routes \ {0} /\ cancelled \subseteq Routes /\ todo \subseteq Routes
    /\ pc \in [Conn -> Steps] /\ svc \in [Conn -> Routes] /\ route \in [Conn -> Routes]
    /\ dead \in [Conn -> SUBSET Routes]

\* The counter is exactly the flows being relayed or dialled and the refusals
\* on their way out: no path forgets to give a flow back or gives one back twice.
CounterExact == n = Cardinality(Counted)

\* No more than the cap of flows hold host resources, although acquire raises
\* the counter past it and two connections may do so at once.
CapHeld == Cardinality(Holders) <= MaxFlows

\* flowLimit, whole: the counter never drifts and the cap is never passed.
SlotsExact == CounterExact /\ CapHeld

\* A connection accepted after a route was cancelled never takes that route: new
\* connections reach the new target, and are not failed by the retarget
\* ("dials the new target from the next connection").
FreshRoute == \A k \in Conn : route[k] \notin dead[k]

\* A connection along a cancelled route is closed, also when the cancellation
\* came during its dial ("a removed or retargeted service ... is revoked at once").
Revoked ==
    \A k \in Conn : (pc[k] \in {"dial", "hook", "open"} /\ route[k] \in cancelled)
                        ~> (pc[k] \notin {"dial", "hook", "open"})
==============================================================================
