----------------------------- MODULE MCPlatform -----------------------------
(***************************************************************************)
(* Platform for TLC.                                                       *)
(***************************************************************************)
EXTENDS Platform

\* merge_max_dynamic_subcolumns_in_wide_part on every JSON table,
\* write_marks_for_substreams_in_compact_parts on self-hosted alone; then a
\* release with another value, one that moves the second setting to Cloud, and
\* one that sets the first for one platform and leaves the second alone.
MCNames == {"merge_max", "write_marks", "other"}
SetTo(n, v) == [m \in MCNames |-> IF m = n THEN v ELSE Unset]
Carries(json, cloud, self_hosted) ==
    [json |-> json, platform |-> [p \in Platforms |-> IF p = "cloud" THEN cloud ELSE self_hosted]]
None == [n \in MCNames |-> Unset]
MCReleases ==
    {Carries(SetTo("merge_max", "64"), None, SetTo("write_marks", "0")),
     Carries(SetTo("merge_max", "0"), SetTo("write_marks", "64"), None),
     Carries(SetTo("merge_max", "64"), SetTo("merge_max", "0"), None)}

\* What a Replicated database needs, one thing missing, and each order of the
\* access storages on a cluster of one and of two servers.
Storages == {<<"users_xml", "replicated">>, <<"local_directory", "replicated">>,
             <<"replicated", "local_directory">>, <<"users_xml">>}
Complete == [keeper |-> TRUE, macros |-> Macros, servers |-> 1,
             directories |-> <<"users_xml", "local_directory">>]
MCConfigs ==
    {Complete, [Complete EXCEPT !.keeper = FALSE], [Complete EXCEPT !.macros = {"cluster"}],
     [Complete EXCEPT !.servers = 0]}
    \cup {[Complete EXCEPT !.servers = 2, !.directories = d] : d \in Storages}
=============================================================================
