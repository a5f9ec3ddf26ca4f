------------------------------- MODULE MCRdmaEx -------------------------------
(* Both programs are finite: RdmaEx needs no bounds.  The programs end, so    *)
(* the system does.                                                           *)
EXTENDS RdmaEx
===============================================================================
