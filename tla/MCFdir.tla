-------------------------------- MODULE MCFdir --------------------------------
(***************************************************************************)
(* Descriptors for TLC's instances.                                         *)
(***************************************************************************)
EXTENDS Fdir

Desc(max, wd, exhausted, sub, decide) ==
  [max_restarts |-> max, max_watchdog_restarts |-> wd, on_exhausted |-> exhausted,
   linked_subsystem |-> sub, restart |-> TRUE, decide |-> decide]
Critical(policy) == [is_critical_path |-> TRUE, on_entity_exhausted |-> policy]

Empty == <<>>

\* Two critical paths, as in examples/dual_path.
TwoPaths == << Desc(1, 1, "UNAVAILABLE", 0, {"NONE"}),
               Desc(0, 1, "UNAVAILABLE", 1, {"NONE"}) >>
TwoCritical == << Critical({"NONE"}), Critical({"NONE"}) >>

\* One entity of one critical subsystem.
OnePath == << Desc(1, 1, "UNAVAILABLE", 0, {"NONE"}) >>
OneCritical == << Critical({"NONE"}) >>

\* An entity that is never restarted after a fault of its own.
NoBudget == << Desc(0, 1, "UNAVAILABLE", 0, {"NONE"}) >>

\* An entity whose watchdog budget is unlimited and whose hook may escalate, and
\* a subsystem whose handler may overrule it.
Hooked == << Desc(0, FDIR_RESTART_UNLIMITED, "DEGRADE", 0, {"NONE", "SAFE"}) >>
Overruling == << Critical({"NONE", "REBOOT"}) >>

\* Registered while the tasks run: with and without a restart hook, and one that
\* fdir_entity_register refuses.
LateDesc == Desc(1, 0, "NONE", SUBSYSTEM_NONE, {"NONE"})
Late == { LateDesc, [LateDesc EXCEPT !.restart = FALSE],
          Desc(0, 0, "RESTART", 0, {"NONE"}) }
LateCritical == { Critical({"NONE"}) }
=============================================================================
