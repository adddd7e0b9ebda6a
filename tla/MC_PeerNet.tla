----------------------------- MODULE MC_PeerNet -----------------------------
(***************************************************************************)
(* PeerNet for TLC: two terminals running the chat demo, so that one can   *)
(* serve and the other call, or both do the same.                          *)
(***************************************************************************)
EXTENDS PeerNet
=============================================================================
