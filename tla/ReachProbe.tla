----------------------------- MODULE ReachProbe -----------------------------
(***************************************************************************)
(* Probing the hosts of a profile (reach.rs).  `names` is the resolver: it *)
(* gives a name's address, or NoIp; `replies` is what reaches the sockets, *)
(* in order, each with its source, the token it echoes and the time after  *)
(* the start of the sweep at which it came.  A token no probe repeats is   *)
(* the sweep and the probe's place in it.  This is the probe of Unix; that *)
(* of Windows leaves the matching of replies to the system.                *)
(***************************************************************************)
EXTENDS Ipv4, Sequences

Timeout == 2        \* in ticks, TIMEOUT of the code

NoIp == -1

AddressOf(host, names) == IF host.literal THEN host.ip ELSE names[host.name]

InTunnel(ip, ctx) == \E i \in DOMAIN ctx.remote : Covers(ctx.remote[i], ip)

IsOurReply_TokenBlind(r, ip, token) == r.source = ip /\ r.type = 0

\* An echo reply is this probe's if it comes from its host and echoes its token.
IsOurReply(r, ip, token) == r.source = ip /\ r.type = 0 /\ r.token = token

Received_EachAnew(replies, i) ==
    \A k \in 1 .. i : replies[k].at - (IF k = 1 THEN 0 ELSE replies[k - 1].at) <= Timeout

\* A receive waits for Timeout; the deadline is looked at only after a reply
\* that was somebody else's.
Received(replies, i) ==
    /\ \A k \in 1 .. i - 1 : replies[k].at < Timeout
    /\ replies[i].at - (IF i = 1 THEN 0 ELSE replies[i - 1].at) <= Timeout

IcmpProbe(ip, token, replies) == \E i \in DOMAIN replies :
    Received(replies, i) /\ IsOurReply(replies[i], ip, token)

TcpProbe(ip, port, listening) == <<ip, port>> \in listening

Probed(host, ip, ctx, manual) == ip # NoIp /\ (InTunnel(ip, ctx) \/ manual)

DnsFailureDetail(host, ctx) ==
    IF ~ctx.connected THEN "connect first"
    ELSE IF ctx.domain # "" /\ host.domain # ctx.domain THEN "not under the domain"
    ELSE "the tunnel's DNS"

OutOfScopeDetail(ctx) == IF ctx.remote = << >> THEN "no subnets" ELSE "not routed"

DownDetail(host, ip, ctx) ==
    IF ~InTunnel(ip, ctx) THEN OutOfScopeDetail(ctx)
    ELSE IF ~ctx.connected THEN "not connected"
    ELSE IF host.port = 0 THEN "dead or drops pings" ELSE "service down"

ProbeOne(host, token, ctx, manual, net) ==
    LET ip == AddressOf(host, net.names)
        in == InTunnel(ip, ctx)
        up == IF host.port = 0 THEN IcmpProbe(ip, token, net.replies)
              ELSE TcpProbe(ip, host.port, net.listening)
    IN  IF ip = NoIp
        THEN [scope |-> "unresolved", state |-> "dns-failed",
              detail |-> DnsFailureDetail(host, ctx)]
        ELSE [scope  |-> IF in THEN "in-tunnel" ELSE "outside-tunnel",
              state  |-> IF ~Probed(host, ip, ctx, manual) THEN "skipped"
                         ELSE IF up THEN "up" ELSE "down",
              detail |-> IF ~Probed(host, ip, ctx, manual) THEN OutOfScopeDetail(ctx)
                         ELSE IF up THEN IF in THEN "answered" ELSE "answered elsewhere"
                         ELSE DownDetail(host, ip, ctx)]

ProbeAll(hosts, ctx, manual, net) ==
    [i \in DOMAIN hosts |-> ProbeOne(hosts[i], <<net.sweep, i>>, ctx, manual, net)]

=============================================================================
