------------------------------ MODULE WgLimits ------------------------------
(***************************************************************************)
(* The limit that a session and the peer that owns it share                *)
(* (tailscale-core/src/wireguard/transport.rs, used by peer.rs).           *)
(***************************************************************************)
CONSTANT REJECT_AFTER_MESSAGES  \* first counter a key may not use
=============================================================================
