---------------------------- MODULE BrokerProofs ----------------------------
(***************************************************************************)
(* The network broker: the routes of its services and the flow counter,    *)
(* its decisions about flows, the filter of its DNS service and the lines  *)
(* about the guest NIC, for every value of the constants.                  *)
(***************************************************************************)
EXTENDS MCBroker, FiniteSetTheorems, TLAPS

------------------------------------------------------------------------------
(* Routes. *)

\* A route that is cancelled or about to be is in no service any more, and every
\* connection may still take the route its service has.
RouteInv ==
    /\ made \in Nat /\ service \in 0 .. made /\ current \in [Routes -> 0 .. made]
    /\ listening \subseteq {service} \ {0} /\ cancelled \cup todo \subseteq 1 .. made
    /\ svc \in [Conn -> 0 .. made] /\ made <= MaxRoutes
    /\ route \in [Conn -> 0 .. made] /\ dead \in [Conn -> SUBSET (1 .. made)]
    /\ pc \in [Conn -> Steps] /\ (\A k \in Conn : pc[k] = "none" => route[k] = 0) /\ current[0] = 0
    /\ service # 0 => current[service] # 0 /\ current[service] \notin cancelled \cup todo
    /\ \A k \in Conn : current[svc[k]] \notin dead[k] /\ route[k] \notin dead[k]

LEMMA RouteInit == Init => RouteInv
BY FlowsAssumption DEF Init, RouteInv, Routes, Steps, FlowsAssumption

LEMMA RouteStep == RouteInv /\ [Next]_vars => RouteInv'
<1> SUFFICES ASSUME RouteInv, [Next]_vars PROVE RouteInv'
    BY Zenon
<1> USE FlowsAssumption DEF RouteInv, Routes, Steps, limits, runtime, conns, FlowsAssumption
<1>0. ASSUME NEW k \in Conn, Done(k), UNCHANGED runtime PROVE RouteInv'
    BY <1>0 DEF Done
<1>1. CASE SetPolicy
    BY Zenon, <1>1 DEF SetPolicy
<1>2. CASE AddService
    BY <1>2 DEF AddService
<1>3. CASE Retarget
    BY <1>3 DEF Retarget
<1>4. CASE RemoveService
    BY <1>4 DEF RemoveService
<1>5. CASE Cancel
    BY Zenon, <1>5 DEF Cancel
<1>6. ASSUME NEW k \in Conn,
             NewFlow(k) \/ Acquire(k) \/ Dialled(k) \/ Hook(k) \/ Revoke(k) \/ Close(k)
      PROVE  RouteInv'
    BY Zenon, <1>6 DEF NewFlow, Acquire, Dialled, Hook, Revoke, Close, Goto
<1>7. ASSUME NEW k \in Conn, Refuse(k) \/ DialFailed(k) \/ Release(k) PROVE RouteInv'
    BY Zenon, <1>0, <1>7 DEF Refuse, DialFailed, Release
<1>8. ASSUME NEW k \in Conn, Accept(k) PROVE RouteInv'
    <2>1. PICK s \in listening : svc' = [svc EXCEPT ![k] = s]
        BY Zenon, <1>8 DEF Accept
    <2>2. s = service /\ s \in 1 .. made /\ current[s] \notin cancelled /\ route[k] = 0
        BY <1>8, <2>1 DEF Accept
    <2>3. /\ pc' = [pc EXCEPT ![k] = "acquire"] /\ dead' = [dead EXCEPT ![k] = cancelled]
          /\ UNCHANGED <<made, service, current, listening, cancelled, todo, route>>
        BY <1>8, Zenon DEF Accept
    <2>4. svc' \in [Conn -> 0 .. made] /\ dead' \in [Conn -> SUBSET (1 .. made)] /\ pc' \in [Conn -> Steps]
        BY Zenon, <2>1, <2>2, <2>3
    <2>5. \A c \in Conn : pc'[c] = "none" => route[c] = 0
        BY Zenon, <2>3
    <2>6. \A c \in Conn : current[svc'[c]] \notin dead'[c] /\ route[c] \notin dead'[c]
        BY <2>1, <2>2, <2>3
    <2> QED
        BY Zenon, <2>3, <2>4, <2>5, <2>6
<1>9. ASSUME NEW k \in Conn, Decide(k) PROVE RouteInv'
    BY Zenon, <1>0, <1>9 DEF Decide, Goto
<1>10. ASSUME NEW k \in Conn, Route(k) PROVE RouteInv'
    BY <1>10 DEF Route
<1>11. CASE UNCHANGED vars
    BY Zenon, <1>11 DEF vars
<1> QED
    BY Zenon, <1>1, <1>2, <1>3, <1>4, <1>5, <1>6, <1>7, <1>8, <1>9, <1>10, <1>11 DEF Next, Relay

\* ApplyRuntime and startServiceTarget: a connection accepted after a route was
\* cancelled never takes that route, however retargets, removals and the steps
\* of its goroutine interleave.
THEOREM RoutesAlwaysFresh == Spec => []FreshRoute
<1>1. RouteInv => FreshRoute
    BY Zenon DEF RouteInv, FreshRoute
<1> QED
    BY <1>1, RouteInit, RouteStep, PTL DEF Spec

------------------------------------------------------------------------------
(* Decide. *)

Outside == {"public", "denied-range", "private"}

\* What an allowed flow to addr owes to the policy.
Opened(rules, proto, addr, port) ==
    /\ addr.class \in Outside
    /\ addr.class # "public" => \E e \in rules.exceptions : Net!Matches(e, proto, addr, port)
    /\ rules.zones = "yes" => port # Net!DNSPort

\* Net!Decide on an IPv4 address opens nothing but the outside.
LEMMA Decide4Opens ==
    ASSUME NEW rules, NEW proto, NEW addr \in Net!Addr4, NEW port,
           Net!Decide4(rules, proto, addr, port).allow = "yes"
    PROVE  Opened(rules, proto, addr, port)
<1>1. addr.class \in Net!Class4
    BY Zenon DEF Net!Addr4
<1>2. ~Net!Barred(addr)
    BY Zenon DEF Net!Decide4, Net!Deny
<1>3. ~Net!Filtered(rules, port)
    BY Zenon, <1>2 DEF Net!Decide4, Net!Deny
<1>4. CASE addr.class = "public"
    BY Zenon, <1>3, <1>4 DEF Opened, Outside, Net!Filtered
<1>5. CASE addr.class = "denied-range"
    <2>1. Net!Decide4(rules, proto, addr, port) = Net!Excepted(rules, proto, addr, port, "denied-range")
        BY Zenon, <1>2, <1>3, <1>5 DEF Net!Decide4
    <2>2. \E e \in rules.exceptions : Net!Matches(e, proto, addr, port)
        BY <2>1 DEF Net!Excepted, Net!Deny
    <2> QED BY Zenon, <1>3, <1>5, <2>2 DEF Opened, Outside, Net!Filtered
<1> QED BY Zenon, <1>1, <1>2, <1>4, <1>5 DEF Net!Class4, Net!Barred

\* Nor does decideIPv6.
LEMMA Decide6Opens ==
    ASSUME NEW rules, NEW proto, NEW addr \in Net!Addr6, NEW port,
           Net!Decide6(rules, proto, addr, port).allow = "yes"
    PROVE  Opened(rules, proto, addr, port)
<1>1. addr.class \in Net!Class6
    BY Zenon DEF Net!Addr6
<1>2. ~Net!Barred(addr)
    BY Zenon DEF Net!Decide6, Net!Deny
<1>3. ~Net!Filtered(rules, port)
    BY Zenon, <1>2 DEF Net!Decide6, Net!Deny
<1>4. addr.class # "reserved"
    BY Zenon, <1>2, <1>3 DEF Net!Decide6, Net!Deny
<1>5. CASE addr.class = "public"
    BY Zenon, <1>3, <1>5 DEF Opened, Outside, Net!Filtered
<1>6. CASE addr.class = "private"
    <2>1. Net!Decide6(rules, proto, addr, port) = Net!Excepted(rules, proto, addr, port, "ipv6-private")
        BY Zenon, <1>2, <1>3, <1>6 DEF Net!Decide6
    <2>2. \E e \in rules.exceptions : Net!Matches(e, proto, addr, port)
        BY <2>1 DEF Net!Excepted, Net!Deny
    <2> QED BY Zenon, <1>3, <1>6, <2>2 DEF Opened, Outside, Net!Filtered
<1> QED BY Zenon, <1>1, <1>2, <1>4, <1>5, <1>6 DEF Net!Class6, Net!Barred

\* The address a destination stands for.
Meant(dst) == IF dst.family = 64 THEN dst.inner ELSE dst

\* Net!Decide, whichever way the address is written.
LEMMA DecideOpens ==
    ASSUME NEW rules, NEW proto, NEW dst \in Net!Dst, NEW port,
           Net!Decide(rules, proto, dst, port).allow = "yes"
    PROVE  rules.denyAll # "yes" /\ dst # Net!Invalid /\ Opened(rules, proto, Meant(dst), port)
<1>1. rules.denyAll # "yes"
    BY Zenon DEF Net!Decide, Net!Deny
<1>2. dst.family # 0
    BY Zenon, <1>1 DEF Net!Decide, Net!Deny
<1>3. dst # Net!Invalid
    BY <1>2 DEF Net!Invalid
<1>4. CASE dst \in Net!Wrapped
    <2>1. dst.family = 64 /\ dst.inner \in Net!Addr4
        BY Zenon, <1>4 DEF Net!Wrapped
    <2>2. dst.hostAddr # "yes"
        BY Zenon, <1>1, <2>1 DEF Net!Decide, Net!Deny
    <2>3. Net!Decide(rules, proto, dst, port) = Net!Decide4(rules, proto, dst.inner, port)
        BY <1>1, <2>1, <2>2 DEF Net!Decide
    <2> QED BY <1>1, <1>3, <2>1, <2>3, Decide4Opens DEF Meant
<1>5. CASE dst \in Net!Addr6
    <2>1. dst.family = 6
        BY Zenon, <1>5 DEF Net!Addr6
    <2>2. Net!Decide(rules, proto, dst, port) = Net!Decide6(rules, proto, dst, port)
        BY <1>1, <2>1 DEF Net!Decide
    <2> QED BY <1>1, <1>3, <1>5, <2>1, <2>2, Decide6Opens DEF Meant
<1>6. CASE dst \in Net!Addr4
    <2>1. dst.family = 4
        BY Zenon, <1>6 DEF Net!Addr4
    <2>2. Net!Decide(rules, proto, dst, port) = Net!Decide4(rules, proto, dst, port)
        BY <1>1, <2>1 DEF Net!Decide
    <2> QED BY <1>1, <1>3, <1>6, <2>1, <2>2, Decide4Opens DEF Meant
<1> QED BY Zenon, <1>3, <1>4, <1>5, <1>6 DEF Net!Dst

\* A flow that the broker allows under the policy in force ends outside, however
\* its address is written and whatever exceptions the policy has.
THEOREM AllowedEndsOutside == Net!Spec => []OnlyOutside
<1>1. Net!Init => Net!OnlyOutside
    BY Zenon DEF Net!Init, Net!OnlyOutside
<1>2. ASSUME Net!OnlyOutside, [Net!Next]_<<pol, flow>> PROVE Net!OnlyOutside'
    <2>1. ASSUME NEW file \in Net!File, Net!Reload(file) PROVE Net!OnlyOutside'
        BY Zenon, <2>1 DEF Net!Reload, Net!OnlyOutside
    <2>2. ASSUME NEW proto \in Net!Protos, NEW dst \in Net!Dst, NEW port \in Net!Ports,
                 Net!NewFlow(proto, dst, port)
          PROVE  Net!OnlyOutside'
        <3> DEFINE d == Net!Decide(pol, proto, dst, port)
        <3>1. flow' = [proto |-> proto, dst |-> dst, port |-> port, decision |-> d] /\ pol' = pol
            BY Zenon, <2>2 DEF Net!NewFlow
        <3>2. flow'.proto = proto /\ flow'.dst = dst /\ flow'.port = port /\ flow'.decision = d
            BY Zenon, <3>1
        <3>3. Net!Target' = Meant(dst)
            BY Zenon, <3>2 DEF Net!Target, Meant
        <3>4. SUFFICES ASSUME d.allow = "yes"
                       PROVE  /\ pol.denyAll # "yes" /\ dst # Net!Invalid
                              /\ Opened(pol, proto, Meant(dst), port)
            BY Zenon, <3>1, <3>2, <3>3 DEF Net!OnlyOutside, Opened, Outside
        <3> QED BY Zenon, <3>4, DecideOpens
    <2> QED BY Zenon, <1>2, <2>1, <2>2 DEF Net!Next, Net!OnlyOutside, Net!Target
<1> QED BY <1>1, <1>2, PTL DEF Net!Spec, OnlyOutside

------------------------------------------------------------------------------
(* The DNS service. *)

Resolving == {"load", "upstreams", "exchange", "filter", "reply"}
Filtering == {"upstreams", "exchange", "filter"}
Codes == {"none", "formerr", "nxdomain", "servfail", "garbled", "ok"}

QueryTypes ==
    /\ inForce \in Policies /\ qpc \in [Query -> Resolving \cup {"none", "read"}]
    /\ p \in [Query -> Policies \cup {Services!NoPolicy}] /\ q \in [Query -> SUBSET Name]
    /\ up \in [Query -> {"none", "policy", "host"}] /\ during \in [Query -> SUBSET Policies]
    /\ resp \in [Query -> [code : Codes, names : SUBSET Name]]

\* The policy in force is among those of the query; the one it filters with is
\* too, and let the question pass.
Judged(k) ==
    /\ qpc[k] \in Resolving => inForce \in during[k]
    /\ qpc[k] \in Filtering => p[k] \in during[k] /\ Services!Passes(p[k], q[k], {})
    /\ up[k] = "host" =>
          qpc[k] \in {"exchange", "filter"} /\ \E rules \in during[k] : rules.own = "no"
    /\ qpc[k] = "reply" /\ resp[k].code = "ok" =>
          \E rules \in during[k] : Services!Passes(rules, q[k], resp[k].names)

QueryInv == QueryTypes /\ \A k \in Query : Judged(k)

LEMMA QueryInit == Services!Init => QueryInv
BY DEF Services!Init, QueryInv, QueryTypes, Judged, Resolving, Filtering, Codes,
       Services!NoPolicy, Services!NoReply

\* A step of one query does not touch the others.
LEMMA OthersJudged ==
    ASSUME QueryInv, QueryTypes', NEW k \in Query, Judged(k)', inForce' = inForce,
           \A j \in Query : j # k => qpc'[j] = qpc[j] /\ p'[j] = p[j] /\ q'[j] = q[j] /\ up'[j] = up[j]
                                     /\ resp'[j] = resp[j] /\ during'[j] = during[j]
    PROVE  QueryInv'
<1>1. ASSUME NEW j \in Query, j # k PROVE Judged(j)'
    BY Zenon, <1>1 DEF QueryInv, Judged
<1> QED
    BY Zenon, <1>1 DEF QueryInv

LEMMA QueryStep == QueryInv /\ [Services!NextDNS \/ Services!NextNIC]_(Services!vars) => QueryInv'
<1> SUFFICES ASSUME QueryInv, [Services!NextDNS \/ Services!NextNIC]_(Services!vars) PROVE QueryInv'
    BY Zenon
<1> USE DEF Services!Goto, Services!nets, Services!dns, Services!NoPolicy, Services!NoReply,
            Resolving, Filtering, Codes
<1>0. ASSUME NEW k \in Query, NEW code \in Codes, NEW names \in SUBSET Name,
             Services!Reply(k, code, names), inForce' = inForce, q' = q, during' = during
      PROVE  QueryTypes'
    <2>1. p' \in [Query -> Policies \cup {Services!NoPolicy}]
        BY <1>0, Zenon DEF Services!Reply, QueryInv, QueryTypes
    <2>2. resp' \in [Query -> [code : Codes, names : SUBSET Name]]
        BY Zenon, <1>0 DEF Services!Reply, QueryInv, QueryTypes
    <2> QED
        BY Zenon, <1>0, <2>1, <2>2 DEF Services!Reply, QueryInv, QueryTypes
<1>1. CASE Services!SetPolicy
    <2>1. QueryTypes'
        BY Zenon, <1>1 DEF Services!SetPolicy, QueryInv, QueryTypes
    <2>2. ASSUME NEW k \in Query PROVE Judged(k)'
        BY Zenon, <1>1 DEF Services!SetPolicy, QueryInv, QueryTypes, Judged
    <2> QED
        BY Zenon, <2>1, <2>2 DEF QueryInv
<1>2. ASSUME NEW k \in Query, Services!ReceiveUDP(k) PROVE QueryInv'
    <2>1. QueryTypes'
        BY <1>2 DEF Services!ReceiveUDP, Services!Ask, QueryInv, QueryTypes
    <2>2. Judged(k)'
        BY Zenon, <1>2 DEF Services!ReceiveUDP, Services!Ask, QueryInv, QueryTypes, Judged
    <2>3. inForce' = inForce
          /\ \A j \in Query : j # k => qpc'[j] = qpc[j] /\ p'[j] = p[j] /\ q'[j] = q[j] /\ up'[j] = up[j]
                                     /\ resp'[j] = resp[j] /\ during'[j] = during[j]
        BY Zenon, <1>2 DEF Services!ReceiveUDP, Services!Ask, QueryInv, QueryTypes
    <2> QED
        BY Zenon, <2>1, <2>2, <2>3, OthersJudged
<1>3. ASSUME NEW k \in Query, Services!AcceptTCP(k) PROVE QueryInv'
    <2>1. QueryTypes'
        BY Zenon, <1>3 DEF Services!AcceptTCP, QueryInv, QueryTypes
    <2>2. Judged(k)'
        BY Zenon, <1>3 DEF Services!AcceptTCP, QueryInv, QueryTypes, Judged
    <2>3. inForce' = inForce
          /\ \A j \in Query : j # k => qpc'[j] = qpc[j] /\ p'[j] = p[j] /\ q'[j] = q[j] /\ up'[j] = up[j]
                                     /\ resp'[j] = resp[j] /\ during'[j] = during[j]
        BY Zenon, <1>3 DEF Services!AcceptTCP, QueryInv, QueryTypes
    <2> QED
        BY Zenon, <2>1, <2>2, <2>3, OthersJudged
<1>4. ASSUME NEW k \in Query, Services!ReadTCP(k) PROVE QueryInv'
    <2>1. QueryTypes'
        BY <1>4 DEF Services!ReadTCP, Services!Ask, QueryInv, QueryTypes
    <2>2. Judged(k)'
        BY Zenon, <1>4 DEF Services!ReadTCP, Services!Ask, QueryInv, QueryTypes, Judged
    <2>3. inForce' = inForce
          /\ \A j \in Query : j # k => qpc'[j] = qpc[j] /\ p'[j] = p[j] /\ q'[j] = q[j] /\ up'[j] = up[j]
                                     /\ resp'[j] = resp[j] /\ during'[j] = during[j]
        BY Zenon, <1>4 DEF Services!ReadTCP, Services!Ask, QueryInv, QueryTypes
    <2> QED
        BY Zenon, <2>1, <2>2, <2>3, OthersJudged
<1>5. ASSUME NEW k \in Query, Services!EndTCP(k) PROVE QueryInv'
    <2>1. QueryTypes'
        BY Zenon, <1>5 DEF Services!EndTCP, QueryInv, QueryTypes
    <2>2. Judged(k)'
        BY Zenon, <1>5 DEF Services!EndTCP, QueryInv, QueryTypes, Judged
    <2>3. inForce' = inForce
          /\ \A j \in Query : j # k => qpc'[j] = qpc[j] /\ p'[j] = p[j] /\ q'[j] = q[j] /\ up'[j] = up[j]
                                     /\ resp'[j] = resp[j] /\ during'[j] = during[j]
        BY Zenon, <1>5 DEF Services!EndTCP, QueryInv, QueryTypes
    <2> QED
        BY Zenon, <2>1, <2>2, <2>3, OthersJudged
<1>6. ASSUME NEW k \in Query, Services!Load(k) PROVE QueryInv'
    <2>1. QueryTypes'
        <3>1. CASE Services!Passes(inForce, q[k], {})
            BY <1>6, <3>1 DEF Services!Load, QueryInv, QueryTypes
        <3>2. CASE ~Services!Passes(inForce, q[k], {})
            BY <1>0, <1>6, <3>2 DEF Services!Load
        <3> QED
            BY Zenon, <3>1, <3>2
    <2>2. Judged(k)'
        BY <1>6 DEF Services!Load, Services!Reply, QueryInv, QueryTypes, Judged
    <2>3. inForce' = inForce
          /\ \A j \in Query : j # k => qpc'[j] = qpc[j] /\ p'[j] = p[j] /\ q'[j] = q[j] /\ up'[j] = up[j]
                                     /\ resp'[j] = resp[j] /\ during'[j] = during[j]
        BY Zenon, <1>6 DEF Services!Load, Services!Reply, QueryInv, QueryTypes
    <2> QED
        BY Zenon, <2>1, <2>2, <2>3, OthersJudged
<1>7. ASSUME NEW k \in Query, Services!Upstreams(k) PROVE QueryInv'
    <2>1. QueryTypes'
        BY Zenon, <1>7 DEF Services!Upstreams, QueryInv, QueryTypes
    <2>2. Judged(k)'
        BY Zenon, <1>7, PoliciesAssumption DEF Services!Upstreams, QueryInv, QueryTypes, Judged
    <2>3. inForce' = inForce
          /\ \A j \in Query : j # k => qpc'[j] = qpc[j] /\ p'[j] = p[j] /\ q'[j] = q[j] /\ up'[j] = up[j]
                                     /\ resp'[j] = resp[j] /\ during'[j] = during[j]
        BY Zenon, <1>7 DEF Services!Upstreams, QueryInv, QueryTypes
    <2> QED
        BY Zenon, <2>1, <2>2, <2>3, OthersJudged
<1>8. ASSUME NEW k \in Query, Services!TimedOut(k) PROVE QueryInv'
    <2>1. QueryTypes'
        <3>1. CASE Services!Reply(k, "servfail", {})
            BY <1>0, <1>8, <3>1 DEF Services!TimedOut
        <3>2. CASE UNCHANGED <<qpc, p, up, resp>>
            BY Zenon, <1>8, <3>2 DEF Services!TimedOut, QueryInv, QueryTypes
        <3> QED
            BY Zenon, <1>8, <3>1, <3>2 DEF Services!TimedOut
    <2>2. Judged(k)'
        BY <1>8 DEF Services!TimedOut, Services!Reply, QueryInv, QueryTypes, Judged
    <2>3. inForce' = inForce
          /\ \A j \in Query : j # k => qpc'[j] = qpc[j] /\ p'[j] = p[j] /\ q'[j] = q[j] /\ up'[j] = up[j]
                                     /\ resp'[j] = resp[j] /\ during'[j] = during[j]
        BY Zenon, <1>8 DEF Services!TimedOut, Services!Reply, QueryInv, QueryTypes
    <2> QED
        BY Zenon, <2>1, <2>2, <2>3, OthersJudged
<1>9. ASSUME NEW k \in Query, Services!Answered(k) PROVE QueryInv'
    <2>1. QueryTypes'
        <3>1. PICK r \in {[code |-> "garbled", names |-> {}]}
                         \cup {[code |-> "ok", names |-> q[k] \cup x] : x \in SUBSET Name} :
                  resp' = [resp EXCEPT ![k] = r]
            BY Zenon, <1>9 DEF Services!Answered
        <3>2. r \in [code : Codes, names : SUBSET Name]
            BY DEF QueryInv, QueryTypes
        <3>3. resp' \in [Query -> [code : Codes, names : SUBSET Name]]
            BY Zenon, <3>1, <3>2 DEF QueryInv, QueryTypes
        <3>4. qpc' = [qpc EXCEPT ![k] = "filter"] /\ UNCHANGED <<inForce, q, p, up, during>>
            BY Zenon, <1>9 DEF Services!Answered
        <3> QED
            BY Zenon, <3>3, <3>4 DEF QueryInv, QueryTypes
    <2>2. Judged(k)'
        BY Zenon, <1>9 DEF Services!Answered, QueryInv, QueryTypes, Judged
    <2>3. inForce' = inForce
          /\ \A j \in Query : j # k => qpc'[j] = qpc[j] /\ p'[j] = p[j] /\ q'[j] = q[j] /\ up'[j] = up[j]
                                     /\ resp'[j] = resp[j] /\ during'[j] = during[j]
        BY Zenon, <1>9 DEF Services!Answered, QueryInv, QueryTypes
    <2> QED
        BY Zenon, <2>1, <2>2, <2>3, OthersJudged
<1>10. ASSUME NEW k \in Query, Services!Filter(k) PROVE QueryInv'
    <2>1. QueryTypes'
        <3>1. resp[k].code \in Codes /\ resp[k].names \in SUBSET Name
            BY Zenon DEF QueryInv, QueryTypes
        <3>2. \E code \in Codes, names \in SUBSET Name : Services!Reply(k, code, names)
            BY Zenon, <1>10, <3>1 DEF Services!Filter, Services!Judge
        <3> QED
            BY Zenon, <1>0, <1>10, <3>2 DEF Services!Filter
    <2>2. Judged(k)'
        BY <1>10 DEF Services!Filter, Services!Judge, Services!Reply, QueryInv, QueryTypes, Judged
    <2>3. inForce' = inForce
          /\ \A j \in Query : j # k => qpc'[j] = qpc[j] /\ p'[j] = p[j] /\ q'[j] = q[j] /\ up'[j] = up[j]
                                     /\ resp'[j] = resp[j] /\ during'[j] = during[j]
        BY Zenon, <1>10 DEF Services!Filter, Services!Judge, Services!Reply, QueryInv, QueryTypes
    <2> QED
        BY Zenon, <2>1, <2>2, <2>3, OthersJudged
<1>11. ASSUME NEW k \in Query, Services!Send(k) PROVE QueryInv'
    <2>1. QueryTypes'
        BY Zenon, <1>11 DEF Services!Send, Services!Forget, QueryInv, QueryTypes
    <2>2. Judged(k)'
        BY Zenon, <1>11 DEF Services!Send, Services!Forget, QueryInv, QueryTypes, Judged
    <2>3. inForce' = inForce
          /\ \A j \in Query : j # k => qpc'[j] = qpc[j] /\ p'[j] = p[j] /\ q'[j] = q[j] /\ up'[j] = up[j]
                                     /\ resp'[j] = resp[j] /\ during'[j] = during[j]
        BY Zenon, <1>11 DEF Services!Send, Services!Forget, QueryInv, QueryTypes
    <2> QED
        BY Zenon, <2>1, <2>2, <2>3, OthersJudged
<1>12. ASSUME UNCHANGED <<inForce, qpc, p, q, up, resp, during>> PROVE QueryInv'
    BY Zenon, <1>12 DEF QueryInv, QueryTypes, Judged
<1>13. CASE Services!NextNIC \/ UNCHANGED Services!vars
    BY Zenon, <1>12, <1>13 DEF Services!NextNIC, Services!ServeNIC, Services!Connect, Services!Serve,
       Services!Announce, Services!Disconnect, Services!AnnounceDown, Services!Release, Services!vars
<1> QED
    BY Zenon, <1>1, <1>2, <1>3, <1>4, <1>5, <1>6, <1>7, <1>8, <1>9, <1>10, <1>11, <1>13
    DEF Services!NextDNS, Services!ServeDNS, Services!Resolve

\* resolve: whatever reloads fall into a query, it is filtered by one policy that
\* was in force while it ran, for any policies, names and number of queries.
THEOREM OnePolicyAlwaysFilters == Services!Spec => []OnePolicyFilters
<1>1. QueryInv => OnePolicyFilters
    BY Zenon DEF QueryInv, Judged, OnePolicyFilters, Services!OnePolicyFilters, Filtering
<1> QED
    BY <1>1, QueryInit, QueryStep, PTL DEF Services!Spec

------------------------------------------------------------------------------
(* The guest NIC. *)

NICLines == {"nic connected", "nic disconnected"}

\* The line whose turn it is.
Turn(i) == IF i % 2 = 1 THEN "nic connected" ELSE "nic disconnected"

\* The connection that holds Broker.active, and the one announced as connected.
Busy(c) == nic[c] \in {"up", "serving", "down", "release"}
Announced(c) == nic[c] \in {"serving", "down"}

\* One connection is served at a time, and the number of lines says whether it
\* is announced.
NICInv ==
    /\ nic \in [NIC -> {"none", "accepted", "closed", "up", "serving", "down", "release"}]
    /\ status \in Seq(NICLines) /\ active \in {"yes", "no"}
    /\ active = "no" => \A c \in NIC : ~Busy(c)
    /\ \A c, d \in NIC : Busy(c) /\ Busy(d) => c = d
    /\ \A c \in NIC : Announced(c) => Len(status) % 2 = 1
    /\ (\A c \in NIC : ~Announced(c)) => Len(status) % 2 = 0
    /\ \A i \in DOMAIN status : status[i] = Turn(i)

LEMMA NICInit == Services!Init => NICInv
BY 0 % 2 = 0 DEF Services!Init, NICInv, Busy, Announced

LEMMA Appended ==
    ASSUME NEW S, NEW t \in Seq(S), NEW e \in S
    PROVE  /\ Append(t, e) \in Seq(S) /\ Len(t) \in Nat /\ Len(Append(t, e)) = Len(t) + 1
           /\ DOMAIN t = 1 .. Len(t) /\ DOMAIN Append(t, e) = 1 .. (Len(t) + 1)
           /\ \A i \in 1 .. Len(t) : Append(t, e)[i] = t[i]
           /\ Append(t, e)[Len(t) + 1] = e
OBVIOUS

LEMMA Parity ==
    ASSUME NEW m \in Nat
    PROVE  /\ m % 2 = 0 => (m + 1) % 2 = 1 /\ Turn(m + 1) = "nic connected"
           /\ m % 2 = 1 => (m + 1) % 2 = 0 /\ Turn(m + 1) = "nic disconnected"
<1>1. m % 2 = 0 => (m + 1) % 2 = 1
    OBVIOUS
<1>2. m % 2 = 1 => (m + 1) % 2 = 0 /\ (m + 1) % 2 # 1
    OBVIOUS
<1> QED
    BY <1>1, <1>2, Zenon DEF Turn

\* A line of its turn keeps the lines alternating.
LEMMA LineInTurn ==
    ASSUME status \in Seq(NICLines), \A i \in DOMAIN status : status[i] = Turn(i),
           NEW s \in NICLines, s = Turn(Len(status) + 1), Services!Line(s)
    PROVE  /\ status' \in Seq(NICLines) /\ Len(status') = Len(status) + 1
           /\ \A i \in DOMAIN status' : status'[i] = Turn(i)
<1> DEFINE m == Len(status)
<1>1. status' = Append(status, s)
    BY Zenon DEF Services!Line
<1>2. /\ Append(status, s) \in Seq(NICLines) /\ m \in Nat /\ Len(Append(status, s)) = m + 1
      /\ DOMAIN status = 1 .. m /\ DOMAIN Append(status, s) = 1 .. (m + 1)
      /\ \A i \in 1 .. m : Append(status, s)[i] = status[i]
      /\ Append(status, s)[m + 1] = s
    BY Appended
<1>3. \A i \in 1 .. (m + 1) : i \in 1 .. m \/ i = m + 1
    BY <1>2
<1> QED
    BY Zenon, <1>1, <1>2, <1>3

LEMMA NICStep == NICInv /\ [Services!NextDNS \/ Services!NextNIC]_(Services!vars) => NICInv'
<1> SUFFICES ASSUME NICInv, [Services!NextDNS \/ Services!NextNIC]_(Services!vars) PROVE NICInv'
    BY Zenon
<1>0. Len(status) \in Nat
    BY DEF NICInv
<1>1. ASSUME NEW c \in NIC,
             Services!Connect(c) \/ Services!Serve(c) \/ Services!Disconnect(c) \/ Services!Release(c)
      PROVE  NICInv'
    <2>1. status' = status
        BY Zenon, <1>1 DEF Services!Connect, Services!Serve, Services!Disconnect, Services!Release
    <2>2. \A d \in NIC : Announced(d)' <=> Announced(d)
        BY Zenon, <1>1 DEF NICInv, Announced, Services!Connect, Services!Serve, Services!Disconnect,
                    Services!Release
    <2>3. /\ nic' \in [NIC -> {"none", "accepted", "closed", "up", "serving", "down", "release"}]
          /\ active' \in {"yes", "no"}
          /\ active' = "no" => \A d \in NIC : ~Busy(d)'
          /\ \A d, e \in NIC : Busy(d)' /\ Busy(e)' => d = e
        BY <1>1 DEF NICInv, Busy, Services!Connect, Services!Serve, Services!Disconnect,
                    Services!Release
    <2> QED
        BY Zenon, <2>1, <2>2, <2>3 DEF NICInv
<1>2. ASSUME NEW c \in NIC, Services!Announce(c) PROVE NICInv'
    <2>1. nic[c] = "up" /\ nic' = [nic EXCEPT ![c] = "serving"] /\ active' = active
        BY Zenon, <1>2 DEF Services!Announce
    <2>2. \A d \in NIC : ~Announced(d)
        BY Zenon, <2>1 DEF NICInv, Busy, Announced
    <2>3. Len(status) % 2 = 0
        BY Zenon, <2>2 DEF NICInv
    <2>4. Turn(Len(status) + 1) = "nic connected" /\ (Len(status) + 1) % 2 = 1
        BY <1>0, <2>3, Parity, Zenon
    <2>5. /\ status' \in Seq(NICLines) /\ Len(status') = Len(status) + 1
          /\ \A i \in DOMAIN status' : status'[i] = Turn(i)
        BY Zenon, <1>2, <2>4, LineInTurn DEF Services!Announce, NICInv, NICLines
    <2> QED
        BY Zenon, <2>1, <2>4, <2>5 DEF NICInv, Busy, Announced
<1>3. ASSUME NEW c \in NIC, Services!AnnounceDown(c) PROVE NICInv'
    <2>1. nic[c] = "down" /\ nic' = [nic EXCEPT ![c] = "release"] /\ active' = active
        BY Zenon, <1>3 DEF Services!AnnounceDown
    <2>2. Len(status) % 2 = 1
        BY Zenon, <2>1 DEF NICInv, Announced
    <2>3. \A d \in NIC : ~Announced(d)'
        BY Zenon, <2>1 DEF NICInv, Busy, Announced
    <2>4. Turn(Len(status) + 1) = "nic disconnected" /\ (Len(status) + 1) % 2 = 0
        BY <1>0, <2>2, Parity, Zenon
    <2>5. /\ status' \in Seq(NICLines) /\ Len(status') = Len(status) + 1
          /\ \A i \in DOMAIN status' : status'[i] = Turn(i)
        BY Zenon, <1>3, <2>4, LineInTurn DEF Services!AnnounceDown, NICInv, NICLines
    <2> QED
        BY Zenon, <2>1, <2>3, <2>4, <2>5 DEF NICInv, Busy
<1>4. ASSUME UNCHANGED <<active, nic, status>> PROVE NICInv'
    BY Zenon, <1>4 DEF NICInv, Busy, Announced
<1>5. ASSUME NEW k \in Query, Services!ServeDNS(k) PROVE NICInv'
    BY Zenon, <1>4, <1>5 DEF Services!ServeDNS, Services!Resolve, Services!nets, Services!ReceiveUDP,
       Services!AcceptTCP, Services!ReadTCP, Services!EndTCP, Services!Load, Services!Upstreams,
       Services!TimedOut, Services!Answered, Services!Filter, Services!Send
<1>6. CASE Services!SetPolicy \/ UNCHANGED Services!vars
    BY Zenon, <1>4, <1>6 DEF Services!SetPolicy, Services!vars
<1> QED
    BY Zenon, <1>1, <1>2, <1>3, <1>5, <1>6 DEF Services!NextDNS, Services!NextNIC, Services!ServeNIC

\* serveNIC: the supervisor reads "connected" and "disconnected" in turn, however
\* many connections of the VMM come and go at once.
THEOREM StatusAlwaysAlternates == Services!Spec => []StatusAlternates
<1>1. NICInv => StatusAlternates
    BY Zenon DEF NICInv, StatusAlternates, Services!StatusAlternates, Turn
<1> QED
    BY <1>1, NICInit, NICStep, PTL DEF Services!Spec

------------------------------------------------------------------------------
(* The flow counter and the cap. *)

\* The counter is the connections that raised it, and those that hold a flow fit
\* below the cap even while others have raised it past the cap to be refused.
CapInv ==
    /\ pc \in [Conn -> Steps]
    /\ CounterExact
    /\ CapHeld

\* Sets of connections are finite, and Holders is part of Counted.
LEMMA Finite ==
    /\ IsFiniteSet(Counted) /\ IsFiniteSet(Holders)
    /\ Cardinality(Counted) \in Nat /\ Cardinality(Holders) \in Nat
    /\ Cardinality(Holders) <= Cardinality(Counted)
<1>1. IsFiniteSet(Counted)
    BY Zenon, FlowsAssumption, FS_Subset, Counted \subseteq Conn DEF FlowsAssumption, Counted
<1>2. Holders \subseteq Counted
    BY Zenon DEF Holders, Counted
<1> QED
    BY Zenon, <1>1, <1>2, FS_Subset, FS_CardinalityType

\* A connection that moves between steps of one kind changes neither set.
LEMMA SetsStay ==
    ASSUME NEW k \in Conn, NEW s \in Steps, pc \in [Conn -> Steps],
           pc' = [pc EXCEPT ![k] = s],
           pc[k] \in Holding <=> s \in Holding,
           pc[k] = "refuse" <=> s = "refuse"
    PROVE  pc' \in [Conn -> Steps] /\ Counted' = Counted /\ Holders' = Holders
BY Zenon DEF Counted, Holders

\* A connection that raises the counter joins Counted, and Holders unless it is
\* to be refused; one that lowers it leaves both.
LEMMA Join ==
    ASSUME NEW k \in Conn, NEW s \in Steps, pc \in [Conn -> Steps],
           pc' = [pc EXCEPT ![k] = s],
           pc[k] \notin Holding \cup {"refuse"}, s \in Holding \cup {"refuse"}
    PROVE  /\ pc' \in [Conn -> Steps]
           /\ Cardinality(Counted') = Cardinality(Counted) + 1
           /\ Cardinality(Holders') =
                 IF s \in Holding THEN Cardinality(Holders) + 1 ELSE Cardinality(Holders)
<1>1. Counted' = Counted \cup {k} /\ k \notin Counted
    BY Zenon DEF Counted
<1>2. CASE s \in Holding
    <2>1. Holders' = Holders \cup {k} /\ k \notin Holders
        BY Zenon, <1>2 DEF Holders
    <2> QED
        BY Zenon, <1>1, <1>2, <2>1, Finite, FS_AddElement
<1>3. CASE s \notin Holding
    <2>1. Holders' = Holders
        BY Zenon, <1>3 DEF Holders
    <2> QED
        BY Zenon, <1>1, <1>3, <2>1, Finite, FS_AddElement
<1> QED
    BY Zenon, <1>2, <1>3

LEMMA Leave ==
    ASSUME NEW k \in Conn, pc \in [Conn -> Steps],
           pc' = [pc EXCEPT ![k] = "none"],
           pc[k] \in Holding \cup {"refuse"}
    PROVE  /\ pc' \in [Conn -> Steps]
           /\ Cardinality(Counted') = Cardinality(Counted) - 1
           /\ Cardinality(Holders') <= Cardinality(Holders)
<1>1. Counted' = Counted \ {k} /\ k \in Counted
    BY Zenon DEF Counted, Holding
<1>2. Cardinality(Counted') = Cardinality(Counted) - 1
    BY Zenon, <1>1, Finite, FS_RemoveElement
<1>3. Holders' \subseteq Holders
    BY Zenon DEF Holders, Holding
<1>4. Cardinality(Holders') <= Cardinality(Holders)
    BY Zenon, <1>3, Finite, FS_Subset
<1> QED
    BY Zenon, <1>2, <1>4 DEF Steps

LEMMA CapInit == Init => CapInv
<1> SUFFICES ASSUME Init PROVE CapInv
    BY Zenon
<1>1. Counted = {} /\ Holders = {}
    BY Zenon DEF Init, Counted, Holders, Holding
<1>2. Cardinality({}) = 0
    BY Zenon, FS_EmptySet
<1>3. pc \in [Conn -> Steps]
    BY Zenon DEF Init, Steps
<1> QED
    BY <1>1, <1>2, <1>3, FlowsAssumption
       DEF Init, CapInv, CounterExact, CapHeld, FlowsAssumption

LEMMA CapStep == CapInv /\ [Next]_vars => CapInv'
<1> SUFFICES ASSUME CapInv, [Next]_vars PROVE CapInv'
    BY Zenon
<1> USE DEF CapInv
<1>0. MaxFlows \in Nat
    BY Zenon, FlowsAssumption DEF FlowsAssumption
<1>1. ASSUME UNCHANGED <<n, pc>> PROVE CapInv'
    BY Zenon, <1>1 DEF CounterExact, CapHeld, Counted, Holders
<1>2. CASE SetPolicy \/ AddService \/ Retarget \/ RemoveService \/ Cancel
    BY Zenon, <1>1, <1>2
       DEF SetPolicy, AddService, Retarget, RemoveService, Cancel, limits, conns
<1>3. ASSUME NEW k \in Conn, NEW s \in Steps, n' = n, pc' = [pc EXCEPT ![k] = s],
             pc[k] \in Holding <=> s \in Holding, pc[k] = "refuse" <=> s = "refuse"
      PROVE CapInv'
    BY Zenon, <1>3, SetsStay DEF CounterExact, CapHeld
<1>4. ASSUME NEW k \in Conn,
             NewFlow(k) \/ Accept(k) \/ Decide(k) \/ Route(k) \/ Dialled(k) \/ Hook(k)
                \/ Revoke(k) \/ Close(k)
      PROVE CapInv'
    BY Zenon, <1>3, <1>4
       DEF NewFlow, Accept, Decide, Route, Dialled, Hook, Revoke, Close, Goto, Done,
           limits, Holding, Steps
<1>5. ASSUME NEW k \in Conn, Acquire(k) PROVE CapInv'
    <2> DEFINE s == IF n + 1 > MaxFlows THEN "refuse"
                    ELSE IF svc[k] = 0 THEN "dial" ELSE "route"
    <2>1. pc' = [pc EXCEPT ![k] = s] /\ n' = n + 1 /\ pc[k] = "acquire"
        BY Zenon, <1>5 DEF Acquire, Goto
    <2>2. s \in Steps /\ s \in Holding \cup {"refuse"}
        BY Zenon DEF Steps, Holding
    <2>3. n \in Nat /\ (s \in Holding => n + 1 <= MaxFlows)
        BY <1>0, Finite DEF Holding, CounterExact
    <2>4. pc[k] \notin Holding \cup {"refuse"}
        BY Zenon, <2>1 DEF Holding
    <2> HIDE DEF s
    <2>5. /\ pc' \in [Conn -> Steps]
          /\ Cardinality(Counted') = Cardinality(Counted) + 1
          /\ Cardinality(Holders') =
                IF s \in Holding THEN Cardinality(Holders) + 1 ELSE Cardinality(Holders)
        BY Zenon, <2>1, <2>2, <2>4, Join
    <2>6. CounterExact'
        BY Zenon, <2>1, <2>5 DEF CounterExact
    <2>7. CapHeld'
        BY <1>0, <2>3, <2>5, Finite DEF CapHeld, CounterExact
    <2> QED
        BY Zenon, <2>5, <2>6, <2>7
<1>6. ASSUME NEW k \in Conn, Refuse(k) \/ DialFailed(k) \/ Release(k) PROVE CapInv'
    <2>1. pc' = [pc EXCEPT ![k] = "none"] /\ n' = n - 1 /\ pc[k] \in Holding \cup {"refuse"}
        BY Zenon, <1>6 DEF Refuse, DialFailed, Release, Done, Holding
    <2>2. Cardinality(Holders') \in Nat
        BY Zenon, Finite, FS_Subset, FS_CardinalityType, FlowsAssumption, Holders' \subseteq Conn
           DEF Holders, FlowsAssumption
    <2>3. /\ pc' \in [Conn -> Steps]
          /\ Cardinality(Counted') = Cardinality(Counted) - 1
          /\ Cardinality(Holders') <= Cardinality(Holders)
        BY Zenon, <2>1, Leave
    <2>4. CounterExact'
        BY Zenon, <2>1, <2>3 DEF CounterExact
    <2>5. CapHeld'
        BY <1>0, <2>2, <2>3, Finite DEF CapHeld
    <2> QED
        BY Zenon, <2>3, <2>4, <2>5
<1>7. CASE UNCHANGED vars
    BY Zenon, <1>1, <1>7 DEF vars, limits, conns
<1> QED
    BY Zenon, <1>2, <1>4, <1>5, <1>6, <1>7 DEF Next, Relay

\* flowLimit: with any number of connections acquiring and releasing at once, the
\* counter never drifts from what it counts, and the flows that hold host
\* resources never exceed the cap.
THEOREM SlotsAlwaysExact == Spec => []SlotsExact
<1>1. CapInv => SlotsExact
    BY Zenon DEF CapInv, SlotsExact
<1> QED
    BY <1>1, CapInit, CapStep, PTL DEF Spec
==============================================================================
