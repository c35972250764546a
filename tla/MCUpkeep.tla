------------------------------ MODULE MCUpkeep ------------------------------
(***************************************************************************)
(* Two projects of two releases each, which exclude or require each other  *)
(* in every way a version range tells apart, by project or by mod id, and  *)
(* a library that a newer release may start to require.                    *)
(***************************************************************************)
EXTENDS Upkeep, TLC

CONSTANTS pa, pb, lib, here, there, nowhere, shared

MCProjects == {pa, pb, lib}
MCTargets == {here, there, nowhere}
MCMinecraft == here :> <<20, 1>> @@ there :> <<21, 1>> @@ nowhere :> <<16, 5>>
MCModId == pa :> NoModId @@ pb :> shared @@ lib :> shared
MCSideOf == pa :> "both" @@ pb :> "client" @@ lib :> "both"
MCKnownBad == {[mods |-> {pa, lib}, certainty |-> "suspected"]}

On(kind, p, range) == [kind |-> kind, on |-> p, id |-> NoModId, range |-> range]
OnId(kind, id, range) == [kind |-> kind, on |-> NoProject, id |-> id, range |-> range]

MCDepsA == {<<>>,
    <<On("breaks", pb, Exactly(1))>>, <<On("incompatible", pb, AtLeast(2))>>,
    <<On("breaks", pb, Unreadable), On("required", lib, NoRange)>>,
    <<On("required", pb, AtLeast(2))>>,
    <<OnId("required", shared, AtLeast(2))>>, <<OnId("breaks", shared, Exactly(2))>>}
MCDepsB == {<<>>,
    <<On("breaks", pa, Below(2))>>, <<On("incompatible", pa, NoRange)>>,
    <<On("required", pa, Exactly(1))>>}

Out(n, targets, deps, hashed) ==
    [number |-> n, targets |-> targets, deps |-> deps, hashed |-> hashed]

MCCatalogs ==
    {[p \in MCProjects |->
        IF p = pa THEN <<Out(1, {here}, a1, TRUE),
                         Out(2, {here, there, nowhere}, a2, TRUE)>>
        ELSE IF p = pb THEN <<Out(1, {here, there}, b1, TRUE), b2>>
        ELSE <<Out(1, {here, there}, <<>>, TRUE)>>] :
            a1 \in {<<>>, <<On("breaks", pb, Exactly(1))>>,
                    <<On("breaks", pb, Unreadable)>>},
            a2 \in MCDepsA,
            b1 \in {<<>>, <<On("breaks", pa, Below(2))>>},
            b2 \in [number : {2}, deps : MCDepsB, hashed : BOOLEAN,
                    targets : {{here}, {here, there, nowhere}}]
                   \cup {Out(NoNumber, {here, there}, <<>>, TRUE)}}
Ask(kind, environment, include, to) ==
    [kind |-> kind, environment |-> environment, include |-> include, to |-> to]
MCCommands ==
    {Ask("updates", environment, <<pa, pb>>, here) : environment \in Environments}
    \cup {Ask("migrate", "client", include, there) : include \in {<<pa, pb>>, <<pb, lib>>}}
    \cup {Ask("migrate", "server", <<pb>>, nowhere)}

=============================================================================
