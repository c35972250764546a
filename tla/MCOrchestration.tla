-------------------------- MODULE MCOrchestration --------------------------
(***************************************************************************)
(* Small catalogs for TLC: three projects that may require and exclude     *)
(* each other in every way two entries per file allow.                     *)
(***************************************************************************)
EXTENDS Orchestration

CONSTANTS pa, pb, pc1

MCProjects == {pa, pb, pc1}
Slug(p) == [by |-> "slug", project |-> p]

\* None, one or two required dependencies; in one file, one without an id.
MCRequired(p) ==
    {<<>>, <<NoId, pb>>} \cup {<<q>> : q \in MCProjects}
        \cup {<<q, r>> : q \in MCProjects \ {p}, r \in MCProjects \ {p}}
MCFiles(p) ==
    [required : MCRequired(p), incompatible : {{}, {pc1}}] \cup {NoFile}
MCCatalogs ==
    {c \in [MCProjects -> UNION {MCFiles(p) : p \in MCProjects}] :
        \A p \in MCProjects : c[p] \in MCFiles(p)}

MCSeedLists == {
    <<Slug(pa)>>,
    <<Slug(pa), Slug(pb)>>,
    <<Id(pb), Slug(pb), Slug(pa)>> }

=============================================================================
