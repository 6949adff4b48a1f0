---------------------------- MODULE MCPluginVMs ----------------------------
(* Two calls, one retry, two VMs; the start of the thread and two reloads.     *)
EXTENDS PluginVMs

CONSTANTS c1, c2, k1
=============================================================================
