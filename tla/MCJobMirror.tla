----------------------------- MODULE MCJobMirror -----------------------------
(* JobMirror with the setups the run goes through: a job whose writers race,
   one followed from its creation, one whose row may be removed, two of which
   an absence batch holds one, and more jobs than a page of the sweep holds. *)
EXTENDS JobMirror

CONSTANTS j1, j2, j3

Setup(old, new, until, writers, absence, kinds) ==
  [old |-> old, new |-> new, until |-> until, open |-> writers, absence |-> absence,
   faults |-> kinds]

MixedSetups ==
  { Setup({j1}, {}, 4, 2, FALSE, {"trim", "duplicate", "restart"}),
    Setup({}, {j1}, 6, 1, FALSE, {"db_down", "abort"}),
    Setup({j1}, {}, 3, 1, TRUE, {"trim", "no_answer"}),
    Setup({j1, j2}, {}, 0, 0, TRUE, {"no_answer"}),
    Setup({j1, j2, j3}, {}, 4, 1, FALSE, {"restart"}) }
=============================================================================
