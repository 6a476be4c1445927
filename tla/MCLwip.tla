------------------------------- MODULE MCLwip ------------------------------
(***************************************************************************)
(* Two threads and interrupts at one mailbox, with three nodes.  A thread  *)
(* or an interrupt that takes a node while another thread gives one back   *)
(* finds the pool half linked.  (With the insertion in one step, Received  *)
(* holds in all 130,142 states.)                                           *)
(***************************************************************************)
EXTENDS RmpLwip, TLC

CONSTANTS a, b, x, y, z
MCThread == {a, b}
MCNode == {x, y, z}
============================================================================
