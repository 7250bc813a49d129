------------------------------- MODULE MCAsk --------------------------------
(* Ticks of ten seconds: a budget of 40, a timeout and an agent of 30, and *)
(* a minimum of 8, rounded up.  The playbook calls each tool once and the  *)
(* provider may pick them again, so the repeat limit, the tool limit and   *)
(* the pick limit are all met.                                             *)
EXTENDS Ask
MCPlaybook == << "lookup", "evidence" >>
=============================================================================
