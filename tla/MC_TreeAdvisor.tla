---------------------------- MODULE MC_TreeAdvisor ----------------------------
(* The instance of TreeAdvisor for TLC: the bar and the tolerance of the     *)
(* code in minutes, the day of the buffers shortened to a few steps.         *)
EXTENDS TreeAdvisor
===============================================================================
