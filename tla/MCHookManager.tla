---------------------------- MODULE MCHookManager ----------------------------
(* A small instance of HookManager: code long enough for two trampolines    *)
(* apart from each other, and for any way of overlapping them.              *)
EXTENDS HookManager

CONSTANTS on_open
MCHandler == {on_open}
=============================================================================
