----------------------------- MODULE NetPolicy -----------------------------
(***************************************************************************)
(* The broker's decision about a new flow of the guest                     *)
(* (netbroker/policy.go, netbroker/policy_ipv6.go) under the policy in     *)
(* force, which a reload replaces or, failing, turns into DenyAll          *)
(* (netbroker/cli.go).                                                     *)
(*                                                                         *)
(* An IPv4 address is known by the lists it is in, an IPv6 address by the  *)
(* range that decides about it; an IPv6 address that embeds an IPv4        *)
(* address carries it.                                                     *)
(***************************************************************************)
EXTENDS Integers, FiniteSets

CONSTANTS
    Ranges,        \* address ranges an exception may name
    Elsewhere,     \* the range of an address that is in none of them
    MaxExceptions  \* bound on the exceptions of a policy

VARIABLES pol, flow

DNSPort == 53
Ports == {DNSPort, 443}
Protos == {"tcp", "udp"}

------------------------------------------------------------------------------
(* Addresses. *)

\* env.Gateway, env.Subnet, env.HostAddrs, hardDeniedV4, deniedV4, or none of
\* them: what the first matching case of Decide is.
Class4 == {"gateway", "guest-network", "host-address", "hard-deny", "denied-range", "public"}
Addr4 == [family : {4}, class : Class4, range : Ranges \cup {Elsewhere}]

\* decideIPv6: the ranges of the IPv6 address space, hardDeniedV6 as one.
Class6 == {"gateway", "guest-network", "host-address", "hard-deny", "private", "reserved", "public"}
Addr6 == [family : {6}, class : Class6, range : Ranges \cup {Elsewhere}]

\* embeddedIPv4: IPv4-mapped, NAT64 and 6to4 addresses; 6to4 lies in the public
\* range.  hostAddr is "yes" when the host has the IPv6 address itself.
Wrapped == [family : {64}, inner : Addr4, hostAddr : {"yes", "no"}]

Invalid == [family |-> 0]

Dst == Addr4 \cup Addr6 \cup Wrapped \cup {Invalid}

------------------------------------------------------------------------------
(* Policies. *)

Exception == [range : Ranges, proto : Protos \cup {"any"}, ports : {{}, {443}, {DNSPort}}]

Exceptions == {e \in SUBSET Exception : Cardinality(e) <= MaxExceptions}

\* A policy file.
File == [exceptions : Exceptions, upstreams : {"yes", "no"}, zones : {"yes", "no"}]

DenyAll == [exceptions |-> {}, zones |-> "no", denyAll |-> "yes"]

Policy == [exceptions : Exceptions, zones : {"yes", "no"}, denyAll : {"yes", "no"}]

\* ParsePolicy: blocked zones need an upstream of their own.
Accepts(f) == f.zones = "yes" => f.upstreams = "yes"

ParsePolicy(f) == [exceptions |-> f.exceptions, zones |-> f.zones, denyAll |-> "no"]

\* Exception.matches.
Matches(e, proto, a, port) ==
    /\ e.range = a.range /\ e.proto \in {"any", proto}
    /\ e.ports = {} \/ port \in e.ports

Deny(reason) == [allow |-> "no", reason |-> reason]
Allow(reason) == [allow |-> "yes", reason |-> reason]

Excepted(p, proto, a, port, otherwise) ==
    IF \E e \in p.exceptions : Matches(e, proto, a, port) THEN Allow("exception") ELSE Deny(otherwise)

\* Mistaken variant: exceptions come before the ranges none can open.
Decide4Exceptions(p, proto, a, port) ==
    IF a.class = "public" THEN Allow("public") ELSE Excepted(p, proto, a, port, a.class)

\* What no exception opens: addresses of these classes, and other resolvers
\* while zones are filtered.
Barred(a) == a.class \in {"gateway", "guest-network", "host-address", "hard-deny"}
Filtered(p, port) == p.zones = "yes" /\ port = DNSPort

\* Decide on an IPv4 address, after the check for DenyAll.
Decide4(p, proto, a, port) ==
    IF Barred(a) THEN Deny(a.class)
    ELSE IF Filtered(p, port) THEN Deny("dns-filtered")
    ELSE IF a.class = "public" THEN Allow("public")
    ELSE Excepted(p, proto, a, port, "denied-range")

\* decideIPv6 on an address that embeds none.
Decide6(p, proto, a, port) ==
    IF Barred(a) THEN Deny(a.class)
    ELSE IF Filtered(p, port) THEN Deny("dns-filtered")
    ELSE IF a.class = "private" THEN Excepted(p, proto, a, port, "ipv6-private")
    ELSE IF a.class = "reserved" THEN Deny("ipv6-reserved")
    ELSE Allow("public")

\* Decide; an embedded address is decided anew.
Decide(p, proto, dst, port) ==
    IF p.denyAll = "yes" THEN Deny("fail-closed")
    ELSE IF dst.family = 0 THEN Deny("invalid-address")
    ELSE IF dst.family = 64
    THEN IF dst.hostAddr = "yes" THEN Deny("host-address") ELSE Decide4(p, proto, dst.inner, port)
    ELSE IF dst.family = 6 THEN Decide6(p, proto, dst, port) ELSE Decide4(p, proto, dst, port)

------------------------------------------------------------------------------
NoFlow == [proto |-> "none"]

Init == pol = DenyAll /\ flow = NoFlow

\* The broker starts with a policy file, and SIGHUP makes it read it again.
Reload(f) ==
    /\ pol' = IF Accepts(f) THEN ParsePolicy(f) ELSE DenyAll
    /\ flow' = NoFlow

NewFlow(proto, dst, port) ==
    /\ flow = NoFlow
    /\ flow' = [proto |-> proto, dst |-> dst, port |-> port, decision |-> Decide(pol, proto, dst, port)]
    /\ UNCHANGED pol

Next ==
    \/ \E f \in File : Reload(f)
    \/ \E proto \in Protos, dst \in Dst, port \in Ports : NewFlow(proto, dst, port)

Spec == Init /\ [][Next]_<<pol, flow>>

------------------------------------------------------------------------------
(* Properties. *)

\* The policy in force and the flow have their types.
TypeOK ==
    /\ pol \in Policy
    /\ flow = NoFlow \/ (flow.proto \in Protos /\ flow.dst \in Dst /\ flow.port \in Ports)

Target == IF flow.dst.family = 64 THEN flow.dst.inner ELSE flow.dst

\* A flow that is allowed ends at an address of the outside, whichever way it is
\* written: an IPv4 address behind an IPv6 one is judged as itself.  An exception
\* opens private ranges of its protocol and ports and nothing else, resolvers
\* other than the gateway are closed while zones are filtered, and nothing is
\* open after a reload that failed.
OnlyOutside ==
    flow # NoFlow /\ flow.decision.allow = "yes" =>
        /\ pol.denyAll # "yes" /\ flow.dst # Invalid
        /\ Target.class \in {"public", "denied-range", "private"}
        /\ Target.class # "public" =>
              \E e \in pol.exceptions : Matches(e, flow.proto, Target, flow.port)
        /\ pol.zones = "yes" => flow.port # DNSPort
============================================================================
