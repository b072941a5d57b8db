----------------------------- MODULE LinkProtocol -----------------------------
(***************************************************************************)
(* Hosts and links as the command-line client and the extension read and   *)
(* write them (protocol.mjs).  Text is abstract: a host is typed with or   *)
(* without a scheme, a link is a URL, a path of one or a bare fragment,    *)
(* and its token names a secret or was cut.                                *)
(***************************************************************************)
EXTENDS Naturals

CONSTANTS
    Hosts,
    Loopback,       \* the hosts that are this machine
    DefaultHost

ASSUME LinkProtocolAssumption == Loopback \subseteq Hosts /\ DefaultHost \in Hosts

Cut == 0                \* the token of a link that lost a part of itself

(* What a user may type for a host.                                        *)
HostTexts == [scheme : {"none", "https", "http", "ftp"}, host : Hosts]

Unnamed == [scheme |-> "none", host |-> DefaultHost]

(* normalizeOrigin throws unless this holds.                               *)
OriginAccepted(h) ==
    \/ h.scheme \in {"none", "https"}
    \/ h.scheme = "http" /\ h.host \in Loopback

normalizeOrigin(h) == [h EXCEPT !.scheme = IF @ = "none" THEN "https" ELSE @]

Origins == {normalizeOrigin(h) : h \in {x \in HostTexts : OriginAccepted(x)}}

buildSecretLink(origin, token) ==
    [form |-> "url", origin |-> origin, at |-> "hash", token |-> token]

isValidLinkToken(token) == token # Cut

(* parseSecretLink throws unless this holds.  The fallback host has to be  *)
(* a good one even where the link brings its own.                          *)
LinkAccepted(link, fallback) ==
    /\ OriginAccepted(fallback)
    /\ link.form = "url" => OriginAccepted(link.origin) /\ link.at \in {"hash", "path"}
    /\ isValidLinkToken(link.token)

(* The origin parseSecretLink returns.                                     *)
OriginOf(link, fallback) ==
    IF link.form = "url" THEN normalizeOrigin(link.origin) ELSE normalizeOrigin(fallback)
==============================================================================
