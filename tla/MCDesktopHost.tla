-------------------------- MODULE MCDesktopHost ---------------------------
(* Two runs, so a close can meet the end of one and the start of the next;    *)
(* two helper changes, so one can be refused while the other operates.        *)
EXTENDS DesktopHost
============================================================================
