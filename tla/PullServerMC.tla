--------------------------- MODULE PullServerMC ---------------------------
(* Links that differ in one thing from one that is accepted. *)
EXTENDS PullServer

Good ==
    [scheme |-> "vless", address |-> TRUE, user |-> TRUE, security |-> "reality",
     network |-> "raw", sni |-> TRUE, key |-> TRUE, insecure |-> FALSE,
     pin |-> FALSE, obfs |-> "", mask |-> FALSE]
Masked == [Good EXCEPT !.scheme = "hysteria2", !.obfs = "salamander", !.mask = TRUE]

MCLinks ==
    {Good, Masked,
     [Good EXCEPT !.key = FALSE],
     [Good EXCEPT !.security = "tls"],
     [Good EXCEPT !.network = "quic"],
     [Good EXCEPT !.scheme = "other"],
     [Masked EXCEPT !.insecure = TRUE],
     [Masked EXCEPT !.mask = FALSE]}
===========================================================================
