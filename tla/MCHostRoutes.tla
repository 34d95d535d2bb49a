---------------------------- MODULE MCHostRoutes ----------------------------
(***************************************************************************)
(* Instances of HostRoutes for TLC: AllowedIPs lists with and without a    *)
(* default route, and a prefix around the endpoint the host may have a     *)
(* route of its own to.                                                    *)
(***************************************************************************)
EXTENDS HostRoutes

CONSTANTS net, lan, wide

\* A full-tunnel profile, a split one and one that lists both.
Lists == {<<"default", "ipv6">>, <<net, lan>>, <<net, "default">>}
=============================================================================
