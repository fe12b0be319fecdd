-------------------------- MODULE MCManifestApply --------------------------
(***************************************************************************)
(* ManifestApply for TLC: every manifest of at most MaxObjects objects     *)
(* whose authors kept to the conventions, and every one of two objects.    *)
(***************************************************************************)
EXTENDS ManifestApply

CONSTANT MaxObjects

\* An object depends on objects it names; a second statement is a view's grant.
SmallObjects ==
    {o \in Objects : /\ o.id \notin o.names
                     /\ o.depends_on \subseteq o.names
                     /\ (o.statements = 2) = ~o.optional}

SmallManifests(n) == UNION {[1..k -> SmallObjects] : k \in 1..n}

MCManifests ==
    {m \in SmallManifests(MaxObjects) : DependsOnNamed(m) /\ RequiredStandAlone(m)}
    \cup SmallManifests(2)
=============================================================================
