------------------------------- MODULE MCLabGrader -------------------------------
(* Bounds for LabGrader. *)
EXTENDS LabGrader

CONSTANTS g1, g2

Limit(graders, e, l, c, s) ==
    [graders |-> graders, edits |-> e, cleans |-> l, crashes |-> c, submits |-> s]

(* One grade and all that may happen to it and to a submit; two grades     *)
(* beside an edit and a clean; two grades, one of them killed, and a       *)
(* submit.                                                                 *)
MCLimits ==
    {Limit({g1}, 1, 1, 1, 1), Limit({g1, g2}, 1, 1, 0, 0), Limit({g1, g2}, 1, 0, 1, 1)}

MCSubmitOnly == {Limit({g1}, 2, 0, 0, 1)}
================================================================================
