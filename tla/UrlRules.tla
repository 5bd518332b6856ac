------------------------------- MODULE UrlRules -------------------------------
(***************************************************************************)
(* Which URLs and addresses may be fetched: packages/fetcher/src/ip.ts and *)
(* validateUrl() of fetch.ts.  An address is known by its family, whether  *)
(* it is an IPv4 address mapped into IPv6, and the block it lies in; a     *)
(* host by its kind, or by its address if it is a literal one.             *)
(* An "unlisted" block is one that ip.ts does not name although it is not  *)
(* public: the addresses of IPv6 that carry one of IPv4 without being      *)
(* mapped (::a.b.c.d, 64:ff9b::/96, 2002::/16) and other special blocks    *)
(* (2001:db8::/32, fec0::/10, 192.88.99.0/24).                             *)
(***************************************************************************)
EXTENDS Naturals

DisallowedV4 == {"this-network", "private", "carrier-grade", "loopback", "link-local",
                 "protocol", "documentation", "benchmarking", "multicast", "reserved"}
DisallowedV6 == {"loopback", "unspecified", "link-local", "unique-local", "multicast"}

Passed == {"public", "unlisted"}

Address ==
    [family : {4}, mapped : {FALSE}, block : DisallowedV4 \cup Passed]
    \cup [family : {6}, mapped : {TRUE}, block : DisallowedV4 \cup Passed]
    \cup [family : {6}, mapped : {FALSE}, block : DisallowedV6 \cup Passed]

(* The names of a machine itself or of a local network, and other names.   *)
Name == {"localhost", "internal", "public"}
Host == [literal : {FALSE}, name : Name \cup {""}] \cup [literal : {TRUE}, address : Address]

UrlRecord == [scheme : {"http", "https", "other", "unparseable"}, credentials : BOOLEAN,
              host : Host, port : Nat]

ClassifyIpv4(a) == a.block \in DisallowedV4

(* A mapped address is unwrapped and judged as IPv4; an address that       *)
(* carries one of IPv4 in another form is not.                             *)
ClassifyIpv6(a) == IF a.mapped THEN ClassifyIpv4(a) ELSE a.block \in DisallowedV6

ClassifyIp(a) == IF a.family = 4 THEN ClassifyIpv4(a) ELSE ClassifyIpv6(a)

IsLoopback(a) == a.block = "loopback"

(* Of a literal host: the URL parser writes a mapped address in hexadecimal *)
(* groups, which isLoopbackAddress() does not recognise.                   *)
LiteralLoopback(h) == h.literal /\ IsLoopback(h.address) /\ ~h.address.mapped

(* A problem is recognised from the name alone; a numeric host is an IPv4  *)
(* address and no name.                                                    *)
ClassifyHostname(h) ==
    IF h.literal THEN h.address.family = 4 /\ ClassifyIpv4(h.address)
    ELSE h.name \in {"localhost", "internal"}

ALLOWED_PORTS == {80, 443, 8080, 8443}

ClassifyPort(p) == p \notin ALLOWED_PORTS

(* The escape of the test suite relaxes loopback alone.                    *)
BadAddress(a, escape) == ClassifyIp(a) /\ ~(escape /\ IsLoopback(a))

EscapedHost(h) == LiteralLoopback(h) \/ (~h.literal /\ h.name = "localhost")

(* What can be said of a URL before its name is looked up, in the order of *)
(* the code.                                                               *)
StaticVerdict(u, escape) ==
    IF u.scheme \notin {"http", "https"} THEN "INVALID_URL"
    ELSE IF u.credentials THEN "BLOCKED_URL"
    ELSE IF ~u.host.literal /\ u.host.name = "" THEN "INVALID_URL"
    ELSE IF ClassifyHostname(u.host) /\ ~(escape /\ EscapedHost(u.host)) THEN "BLOCKED_URL"
    ELSE IF ClassifyPort(u.port) /\ ~(escape /\ LiteralLoopback(u.host)) THEN "BLOCKED_URL"
    ELSE IF /\ u.host.literal /\ ClassifyIp(u.host.address)
            /\ ~(escape /\ LiteralLoopback(u.host)) THEN "BLOCKED_URL"
    ELSE "ok"

(* A name must resolve, and every address it resolves to must be allowed,  *)
(* for the connection may pick any of them.  answer is what DNS says now.  *)
ValidateUrl(u, escape, answer) ==
    IF StaticVerdict(u, escape) # "ok" \/ u.host.literal THEN StaticVerdict(u, escape)
    ELSE IF answer = {} THEN "INVALID_URL"
    ELSE IF \E a \in answer : BadAddress(a, escape) THEN "BLOCKED_URL"
    ELSE "ok"
=============================================================================
