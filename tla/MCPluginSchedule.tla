-------------------------- MODULE MCPluginSchedule --------------------------
(* Two servers and one task of one plugin config. *)
EXTENDS PluginSchedule

CONSTANTS s1, s2, minute, plugin
=============================================================================
