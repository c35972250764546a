--------------------------- MODULE MCGuardedApply ---------------------------
(***************************************************************************)
(* Small instances of GuardedApply for TLC: two calls with a backup        *)
(* directory each or a shared one, two paths the player may own, one path  *)
(* outside.                                                                *)
(***************************************************************************)
EXTENDS GuardedApplyRefinement

CONSTANTS p1, p2, out, a, b, m1, m2, c1, c2, d1, d2

MCChange(p, v) == [path |-> p, data |-> v]

\* One file written twice by one plan (two metafiles of one slug); a deletion
\* and a write; a plan with an escaping path behind a good one.
MCPlans == {
    <<MCChange(p1, b), MCChange(p1, a)>>,
    <<MCChange(p2, NoFile), MCChange(p1, b)>>,
    <<MCChange(p1, a), MCChange(out, b)>> }

\* The second call may share the directory of the first, or may not.
MCDirsOf == [c \in {c1, c2} |-> IF c = c1 THEN {d1} ELSE {d1, d2}]
MCOwnDirs == [c \in {c1, c2} |-> IF c = c1 THEN {d1} ELSE {d2}]

=============================================================================
