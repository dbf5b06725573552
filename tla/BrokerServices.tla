--------------------------- MODULE BrokerServices ---------------------------
(***************************************************************************)
(* The broker's DNS service on the gateway (netbroker/services.go) and its *)
(* end of the guest NIC (serveNIC in broker.go), beside SetPolicy.  Every  *)
(* UDP query, every DNS-over-TCP connection and every NIC connection of    *)
(* the VMM has a goroutine of its own.                                     *)
(*                                                                         *)
(* A policy is the set of names it blocks and whether it brings resolvers  *)
(* of its own.  A reply is a result code and the set of names in its       *)
(* records; "garbled" stands for one that does not parse.                  *)
(***************************************************************************)
EXTENDS Integers, FiniteSets, Sequences

CONSTANTS
    Name,       \* DNS names
    Policies,   \* policies that ParsePolicy accepts, and DenyAll
    Query,      \* goroutines that resolve
    MaxQueries, \* maxDNSQueries
    MaxConns,   \* maxDNSConns
    NIC,        \* connections of the VMM
    MaxReloads  \* bound on the reloads of a behaviour

VARIABLES
    inForce,    \* Broker.policy
    reloads,
    queries,    \* tokens in the queries channel
    tcp,        \* tokens in the conns channel
    qpc,        \* each query: where its goroutine is
    net,        \* each query: "udp" or "tcp"
    q,          \* each query: its name
    p,          \* each query: the policy it filters with
    up,         \* each query: where its upstreams come from
    untried,    \* each query: upstreams not tried yet
    resp,       \* each query: the reply
    during,     \* history: the policies in force during the query
    active,     \* Broker.active
    nic,        \* each NIC connection: where its goroutine is
    status      \* the lines written to the supervisor

dns == <<queries, tcp, qpc, net, q, p, up, untried, resp, during>>
vars == <<inForce, reloads, dns, active, nic, status>>

NoPolicy == [blocks |-> {}, own |-> "no"]
NoReply == [code |-> "none", names |-> {}]

Init ==
    /\ inForce \in Policies /\ reloads = 0
    /\ queries = 0 /\ tcp = 0
    /\ qpc = [k \in Query |-> "none"] /\ net = [k \in Query |-> "udp"]
    /\ q = [k \in Query |-> {}] /\ p = [k \in Query |-> NoPolicy]
    /\ up = [k \in Query |-> "none"] /\ untried = [k \in Query |-> 0]
    /\ resp = [k \in Query |-> NoReply] /\ during = [k \in Query |-> {}]
    /\ active = "no" /\ nic = [c \in NIC |-> "none"] /\ status = <<>>

\* A reload replaces the policy for whoever loads it next.
SetPolicy ==
    /\ reloads < MaxReloads /\ reloads' = reloads + 1
    /\ inForce' \in Policies \ {inForce}
    /\ during' = [k \in Query |-> during[k] \cup IF qpc[k] = "none" THEN {} ELSE {inForce'}]
    /\ UNCHANGED <<queries, tcp, qpc, net, q, p, up, untried, resp, active, nic, status>>

------------------------------------------------------------------------------
(* startDNS, serveDNSTCP and resolve. *)

Goto(k, s) == qpc' = [qpc EXCEPT ![k] = s]
nets == <<inForce, reloads, active, nic, status>>

Forget(k) ==
    /\ q' = [q EXCEPT ![k] = {}] /\ p' = [p EXCEPT ![k] = NoPolicy]
    /\ up' = [up EXCEPT ![k] = "none"] /\ untried' = [untried EXCEPT ![k] = 0]
    /\ resp' = [resp EXCEPT ![k] = NoReply] /\ during' = [during EXCEPT ![k] = {}]

\* A message: a question for one name, or without exactly one question.
Ask(k) ==
    /\ \E n \in SUBSET Name : Cardinality(n) < 2 /\ q' = [q EXCEPT ![k] = n]
    /\ during' = [during EXCEPT ![k] = {inForce}]
    /\ Goto(k, "load")
    /\ UNCHANGED <<p, up, untried, resp>>

\* A datagram takes a slot; without one it is dropped and the guest asks again.
ReceiveUDP(k) ==
    /\ qpc[k] = "none" /\ queries < MaxQueries
    /\ queries' = queries + 1 /\ net' = [net EXCEPT ![k] = "udp"] /\ Ask(k)
    /\ UNCHANGED <<tcp, nets>>

\* A TCP connection takes a slot of its own kind; without one it is closed.
AcceptTCP(k) ==
    /\ qpc[k] = "none" /\ tcp < MaxConns
    /\ tcp' = tcp + 1 /\ net' = [net EXCEPT ![k] = "tcp"] /\ Goto(k, "read")
    /\ UNCHANGED <<queries, q, p, up, untried, resp, during, nets>>

ReadTCP(k) ==
    /\ qpc[k] = "read" /\ Ask(k) /\ UNCHANGED <<queries, tcp, net, nets>>

\* The peer ends the connection, or sends nothing for the read deadline.
EndTCP(k) ==
    /\ qpc[k] = "read" /\ tcp' = tcp - 1 /\ Goto(k, "none")
    /\ UNCHANGED <<queries, net, q, p, up, untried, resp, during, nets>>

Reply(k, code, names) ==
    /\ Goto(k, "reply") /\ resp' = [resp EXCEPT ![k] = [code |-> code, names |-> names]]
    /\ p' = [p EXCEPT ![k] = NoPolicy] /\ up' = [up EXCEPT ![k] = "none"]
    /\ untried' = [untried EXCEPT ![k] = 0]

\* What the filter of policy pol lets through: everything without blocked zones,
\* otherwise one question, and no blocked name.
Passes(pol, question, names) ==
    pol.blocks = {} \/ (question # {} /\ pol.blocks \cap (question \cup names) = {})

\* The policy is loaded for the filter: a filtered query needs one question,
\* and one that is blocked is answered here.
Load(k) ==
    /\ qpc[k] = "load"
    /\ IF Passes(inForce, q[k], {})
       THEN Goto(k, "upstreams") /\ p' = [p EXCEPT ![k] = inForce] /\ UNCHANGED <<up, untried, resp>>
       ELSE Reply(k, IF q[k] = {} THEN "formerr" ELSE "nxdomain", {})
    /\ UNCHANGED <<queries, tcp, net, q, during, nets>>

\* The policy is loaded again for the upstreams: its own, or those of the host.
Upstreams(k) ==
    /\ qpc[k] = "upstreams" /\ Goto(k, "exchange")
    /\ up' = [up EXCEPT ![k] = IF inForce.own = "yes" THEN "policy" ELSE "host"]
    /\ \E n \in 0 .. 2 : /\ inForce.own = "yes" => n > 0
                         /\ untried' = [untried EXCEPT ![k] = n]
    /\ UNCHANGED <<queries, tcp, net, q, p, resp, during, nets>>

\* Mistaken variant: no deadline, so a silent upstream is waited for.
TimedOutNever(k) ==
    /\ qpc[k] = "exchange" /\ untried[k] = 0 /\ Reply(k, "servfail", {})
    /\ UNCHANGED <<queries, tcp, net, q, during, nets>>

\* exchange fails or times out and the next upstream is tried; without one the
\* answer is SERVFAIL.
TimedOut(k) ==
    /\ qpc[k] = "exchange"
    /\ \/ untried[k] > 0 /\ untried' = [untried EXCEPT ![k] = @ - 1] /\ UNCHANGED <<qpc, p, up, resp>>
       \/ untried[k] = 0 /\ Reply(k, "servfail", {})
    /\ UNCHANGED <<queries, tcp, net, q, during, nets>>

\* An upstream answers.
Answered(k) ==
    /\ qpc[k] = "exchange" /\ untried[k] > 0 /\ Goto(k, "filter")
    /\ \E r \in {[code |-> "garbled", names |-> {}]}
                 \cup {[code |-> "ok", names |-> q[k] \cup n] : n \in SUBSET Name} :
        resp' = [resp EXCEPT ![k] = r]
    /\ untried' = [untried EXCEPT ![k] = 0]
    /\ UNCHANGED <<queries, tcp, net, q, p, up, during, nets>>

\* blockedAnswer under policy pol: an answer that does not parse is SERVFAIL, one
\* that names a blocked zone is NXDOMAIN.
Judge(k, pol) ==
    CASE Passes(pol, q[k], resp[k].names) /\ (pol.blocks = {} \/ resp[k].code = "ok") ->
            Reply(k, resp[k].code, resp[k].names)
      [] pol.blocks # {} /\ resp[k].code = "garbled" -> Reply(k, "servfail", {})
      [] OTHER -> Reply(k, "nxdomain", {})

\* Mistaken variant: the answer is filtered only if the policy is still in force.
FilterCurrent(k) ==
    /\ qpc[k] = "filter" /\ Judge(k, IF p[k] = inForce THEN p[k] ELSE NoPolicy)
    /\ UNCHANGED <<queries, tcp, net, q, during, nets>>

\* The answer is filtered with the policy the question was.
Filter(k) ==
    /\ qpc[k] = "filter" /\ Judge(k, p[k])
    /\ UNCHANGED <<queries, tcp, net, q, during, nets>>

\* The reply is sent.  A UDP query gives its slot back; a connection goes on
\* with the next query, or ends when the write fails.
Send(k) ==
    /\ qpc[k] = "reply" /\ Forget(k)
    /\ \/ net[k] = "udp" /\ queries' = queries - 1 /\ Goto(k, "none") /\ UNCHANGED tcp
       \/ net[k] = "tcp" /\ Goto(k, "read") /\ UNCHANGED <<queries, tcp>>
       \/ net[k] = "tcp" /\ tcp' = tcp - 1 /\ Goto(k, "none") /\ UNCHANGED queries
    /\ UNCHANGED <<net, nets>>

Resolve(k) == Load(k) \/ Upstreams(k) \/ TimedOut(k) \/ Filter(k) \/ Send(k)

------------------------------------------------------------------------------
(* serveNIC. *)

Line(s) == status' = Append(status, s)

\* The VMM connects.
Connect(c) ==
    /\ nic[c] = "none" /\ nic' = [nic EXCEPT ![c] = "accepted"]
    /\ UNCHANGED <<inForce, reloads, dns, active, status>>

\* Only one connection is served at a time; another is closed.
Serve(c) ==
    /\ nic[c] = "accepted"
    /\ \/ active = "yes" /\ nic' = [nic EXCEPT ![c] = "closed"] /\ UNCHANGED active
       \/ active = "no" /\ active' = "yes" /\ nic' = [nic EXCEPT ![c] = "up"]
    /\ UNCHANGED <<inForce, reloads, dns, status>>

Announce(c) ==
    /\ nic[c] = "up" /\ nic' = [nic EXCEPT ![c] = "serving"] /\ Line("nic connected")
    /\ UNCHANGED <<inForce, reloads, dns, active>>

\* Mistaken variant: the connection is released before its end is announced.
DisconnectReleased(c) ==
    /\ nic[c] = "serving" /\ nic' = [nic EXCEPT ![c] = "down"] /\ active' = "no"
    /\ UNCHANGED <<inForce, reloads, dns, status>>

\* The VMM's end closes, or sends a frame of an impossible length.
Disconnect(c) ==
    /\ nic[c] = "serving" /\ nic' = [nic EXCEPT ![c] = "down"]
    /\ UNCHANGED <<inForce, reloads, dns, active, status>>

AnnounceDown(c) ==
    /\ nic[c] = "down" /\ nic' = [nic EXCEPT ![c] = "release"] /\ Line("nic disconnected")
    /\ UNCHANGED <<inForce, reloads, dns, active>>

\* The deferred calls: the flag, then the socket.
Release(c) ==
    /\ nic[c] = "release" /\ nic' = [nic EXCEPT ![c] = "closed"] /\ active' = "no"
    /\ UNCHANGED <<inForce, reloads, dns, status>>

ServeNIC(c) ==
    Connect(c) \/ Serve(c) \/ Announce(c) \/ Disconnect(c) \/ AnnounceDown(c) \/ Release(c)

ServeDNS(k) ==
    ReceiveUDP(k) \/ AcceptTCP(k) \/ ReadTCP(k) \/ EndTCP(k) \/ Resolve(k) \/ Answered(k)

NextDNS == SetPolicy \/ \E k \in Query : ServeDNS(k)
NextNIC == \E c \in NIC : ServeNIC(c)

Spec == Init /\ [][NextDNS \/ NextNIC]_vars

\* Goroutines that can go on do; the wait for an upstream ends by its deadline.
Fairness == \A k \in Query : WF_vars(Resolve(k))

------------------------------------------------------------------------------
(* Properties. *)

\* Every variable has its type, and no more slots are taken than there are.
TypeOK ==
    /\ inForce \in Policies /\ p \in [Query -> Policies \cup {NoPolicy}]
    /\ queries \in 0 .. MaxQueries /\ tcp \in 0 .. MaxConns
    /\ q \in [Query -> SUBSET Name] /\ untried \in [Query -> 0 .. 2]
    /\ during \in [Query -> SUBSET Policies]
    /\ active \in {"yes", "no"}

\* Whatever reloads fall into a query, the filter is that of one policy that was
\* in force while it ran: question and answer are both judged by it, and the
\* host's resolvers are asked only if some such policy has none of its own.
OnePolicyFilters ==
    \A k \in Query :
        /\ qpc[k] \in {"exchange", "filter"} => \E pol \in during[k] : Passes(pol, q[k], {})
        /\ up[k] = "host" => \E pol \in during[k] : pol.own = "no"
        /\ qpc[k] = "reply" /\ resp[k].code = "ok" =>
             \E pol \in during[k] : Passes(pol, q[k], resp[k].names)

\* A UDP query gives its slot back, also when its upstreams are silent.
SlotComesBack == \A k \in Query : (net[k] = "udp" /\ qpc[k] # "none") ~> (qpc[k] = "none")

\* The supervisor is told of connections one after another: the flag is released
\* only after the line of the disconnect, so a VMM that reconnects at once is
\* refused rather than announced before the end of the last connection.
StatusAlternates ==
    \A i \in DOMAIN status :
        status[i] = IF i % 2 = 1 THEN "nic connected" ELSE "nic disconnected"
==============================================================================
