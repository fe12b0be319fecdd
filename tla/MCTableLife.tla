---------------------------- MODULE MCTableLife ----------------------------
(***************************************************************************)
(* TableLife for TLC: the landing table and edits of its definition.       *)
(***************************************************************************)
EXTENDS TableLife

Col(n, t, order) ==
    [name |-> n, type |-> t, exact |-> FALSE, attribute |-> {}, order |-> order]

\* load stands for _timestamp_load, event for _timestamp, whose text is in the
\* other's, and seen for a time column with a name of its own.
MCNames == {"load", "event", "org", "doc"}
MCInside == {<<n, n>> : n \in MCNames} \cup {<<"event", "load">>}
MCHeader == <<Col("load", "timestamp", 0), Col("event", "timestamp", 1)>>
MCJsonSettings == {<<"merge_max", 64>>}
MCPlatformSettings ==
    [p \in Platforms |-> IF p = "self_hosted" THEN {<<"write_marks", 0>>} ELSE {}]

\* The landing table.
Main == [engine |-> "MergeTree", header |-> TRUE, exclude |-> {}, extra |-> <<>>,
         ttl_days |-> None, ttl_columns |-> {"load"}, partition_by |-> {},
         partition_column |-> "load", order_by |-> {}]

Org(attribute, order) == [Col("org", "string", order) EXCEPT !.attribute = attribute]
Doc(attribute, order) == [Col("doc", "json", order) EXCEPT !.attribute = attribute]

MCCandidates ==
    {[Main EXCEPT !.ttl_days = n] : n \in {None, 0, 1, 2}}
    \cup {[Main EXCEPT !.ttl_columns = t] : t \in {{}, {"event"}, {"load", "event"}}}
    \cup {[Main EXCEPT !.partition_by = {"event"}], [Main EXCEPT !.partition_column = "event"],
          [Main EXCEPT !.ttl_columns = {"event"}, !.partition_column = "org"],
          [Main EXCEPT !.ttl_columns = {"load", "event"}, !.partition_by = {"event"}]}
    \cup {[Main EXCEPT !.extra = <<Org(a, o)>>] :
            a \in {{}, {"not_null"}, {"nullable", "not_null"}}, o \in {None, 2}}
    \cup {[Main EXCEPT !.extra = <<Doc(a, o)>>] : a \in {{}, {"not_null"}}, o \in {None, 2}}
    \cup {[Main EXCEPT !.exclude = {"load"}],
          [Main EXCEPT !.exclude = {"load"}, !.ttl_columns = {"event"}],
          [Main EXCEPT !.engine = "Merge"],
          [Main EXCEPT !.engine = "Merge", !.ttl_columns = {}]}

\* Rows and deployments take turns.  No step of a row reads the deployment, and no
\* edit changes what one reads of the table: its TTL, its partition and whether its
\* parts drop whole.
Turns ==
    /\ deployment' # deployment => parts = {}
    /\ Cardinality(Stored') > Cardinality(Stored) =>
           origin = [definition |-> release, default |-> default]

TurnsSpec == Init /\ [][Next /\ Turns]_vars /\ Fairness
=============================================================================
