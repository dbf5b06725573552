------------------------------ MODULE MCBroker ------------------------------
(* Small instances of the broker's flows, its services, its policy and its  *)
(* log for TLC.  They share no variables, so in a behaviour one part moves  *)
(* and the others are at rest.                                              *)
EXTENDS BrokerFlows, Sequences

CONSTANTS Name, Policies, Query, MaxQueries, MaxConns, NIC, MaxReloads, MaxSize, MaxEvents,
    Ranges, Elsewhere, MaxExceptions

VARIABLES
    part,
    inForce, reloads, queries, tcp, qpc, net, q, p, up, untried, resp, during, active, nic, status,
    content, path, old, event, wf, wpc, fpc, f, offset, printed, passed,
    pol, flow

services == <<inForce, reloads, queries, tcp, qpc, net, q, p, up, untried, resp, during, active, nic, status>>
log == <<content, path, old, event, wf, wpc, fpc, f, offset, printed, passed>>
policies == <<pol, flow>>

\* What ParsePolicy returns, for the DNS service.
ASSUME PoliciesAssumption == Policies \subseteq [blocks : SUBSET Name, own : {"yes", "no"}]

Services == INSTANCE BrokerServices
Log == INSTANCE LogFollow
Net == INSTANCE NetPolicy

a == "a"
b == "b"
MCName == {a, b}
MCPolicies == {[blocks |-> {}, own |-> "no"], [blocks |-> {a}, own |-> "yes"], [blocks |-> {b}, own |-> "yes"]}

MCInit ==
    /\ part \in {"flows", "dns", "nic", "log", "policy"}
    /\ Init /\ Services!Init /\ Log!Init /\ Net!Init
    /\ part # "dns" => inForce = [blocks |-> {}, own |-> "no"]

MCNext ==
    \/ part = "flows" /\ Next /\ UNCHANGED <<part, services, log, policies>>
    \/ part = "dns" /\ Services!NextDNS /\ UNCHANGED <<part, vars, log, policies>>
    \/ part = "nic" /\ Services!NextNIC /\ UNCHANGED <<part, vars, log, policies>>
    \/ part = "log" /\ Log!Next /\ UNCHANGED <<part, vars, services, policies>>
    \/ part = "policy" /\ Net!Next /\ UNCHANGED <<part, vars, services, log>>

MCSpec ==
    /\ MCInit /\ [][MCNext]_<<part, vars, services, log, policies>>
    /\ Fairness /\ Services!Fairness

\* The types of all parts.
MCTypeOK == TypeOK /\ Services!TypeOK /\ Log!TypeOK /\ Net!TypeOK

\* resolve: a query is filtered by one policy that was in force while it ran.
OnePolicyFilters == Services!OnePolicyFilters

\* startDNS: a UDP query gives its slot back.
SlotComesBack == Services!SlotComesBack

\* serveNIC: the lines say "connected" and "disconnected" in turn.
StatusAlternates == Services!StatusAlternates

\* poll: the log is printed in order and of each file a prefix.
FollowerInOrder == Log!FollowerInOrder

\* Decide: a flow is allowed only outside the host and its networks, or by an
\* exception of the policy it was decided with.
OnlyOutside == Net!OnlyOutside
==============================================================================
