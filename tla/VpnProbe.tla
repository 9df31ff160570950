----------------------------- MODULE VpnProbe -----------------------------
(***************************************************************************)
(* What a VPN probe accepts and runs (internal/vpnprobe/probe.go): parsing *)
(* the link of a route, and the outbound of the temporary Xray made of it. *)
(* A link is what the code looks at: which parts of it are there and which *)
(* of the values told apart they have.                                     *)
(***************************************************************************)

CONSTANTS
    Links       \* the links the panel may send

Networks == {"tcp", "ws", "grpc", "httpupgrade", "xhttp", "splithttp", "http", "h2"}

ASSUME LinkAssumption ==
    Links \subseteq
        [scheme : {"vless", "hysteria2", "other"},
         address : BOOLEAN,     \* a host and a port within 1..65535
         user : BOOLEAN,        \* the UUID, or the password of Hysteria2
         security : {"reality", "tls", "none"},
         network : Networks \cup {"", "raw", "quic"},
         sni : BOOLEAN,
         key : BOOLEAN,         \* the public key of REALITY
         insecure : BOOLEAN,    \* parseBool
         pin : BOOLEAN,         \* pinSHA256
         obfs : {"", "salamander", "other"},
         mask : BOOLEAN]        \* obfs-password

NetworkOf(l) == IF l.network \in {"", "raw"} THEN "tcp" ELSE l.network

(* A slip: the public key is not asked for. *)
ParsesVLESSWithoutKey(l) ==
    /\ l.scheme = "vless" /\ l.address /\ l.user
    /\ l.security = "reality" /\ l.sni
    /\ NetworkOf(l) \in Networks

ParsesVLESS(l) ==
    /\ l.scheme = "vless" /\ l.address /\ l.user
    /\ l.security = "reality" /\ l.sni /\ l.key
    /\ NetworkOf(l) \in Networks

ParsesHysteria2(l) ==
    /\ l.scheme = "hysteria2" /\ l.address /\ l.user
    /\ l.obfs \in {"", "salamander"}
    /\ l.obfs = "salamander" => l.mask

ParsesRoute(l) == ParsesVLESS(l) \/ ParsesHysteria2(l)

(* A configuration is refused for a server that nothing would verify.      *)
BuildsConfig(l) ==
    l.scheme = "hysteria2" => ~l.insecure \/ l.pin

(* The settings of the transport that the network of a link calls for.     *)
StreamSettings(l) ==
    CASE NetworkOf(l) = "tcp" -> "none"
      [] NetworkOf(l) \in {"http", "h2"} -> "http"
      [] OTHER -> NetworkOf(l)

(* The outbound: insecure is not passed on, an empty pin neither.          *)
Outbound(l) ==
    IF l.scheme = "vless"
    THEN [protocol |-> "vless", security |-> "reality", trust |-> {"key"},
          stream |-> StreamSettings(l), masked |-> FALSE]
    ELSE [protocol |-> "hysteria", security |-> "tls",
          trust |-> IF l.pin THEN {"pin"} ELSE {"roots"},
          stream |-> "hysteria", masked |-> l.obfs = "salamander"]
===========================================================================
