------------------------ MODULE MCInstanceLifecycle ------------------------
(***************************************************************************)
(* A small instance for TLC: two packs over two mods.  The second, which   *)
(* is blocked, changes the first mod's pin, to a file of the same name,    *)
(* and adds the second mod.                                                *)
(***************************************************************************)
EXTENDS InstanceLifecycle

CONSTANTS s1, s2, q1, q2, q3, j1, j2, b1, b2

MCJarOf == [p \in {q1, q2, q3} |-> IF p = q3 THEN j2 ELSE j1]

MCMod(s, p) == [slug |-> s, pin |-> p]
MCModsOf == [b \in {b1, b2} |->
    IF b = b1 THEN <<MCMod(s1, q1)>> ELSE <<MCMod(s1, q2), MCMod(s2, q3)>>]

MCPlayerFiles == {Jar(j1), Marker}

=============================================================================
