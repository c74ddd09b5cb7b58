----------------------------- MODULE MCPipeline -----------------------------
(* Pipeline on small instances. *)
EXTENDS Pipeline

CONSTANT k1

Healthy     == [status |-> "True", reason |-> ""]
BuildFailed == [status |-> "False", reason |-> "BuildFailed"]

MCConds == {Healthy, BuildFailed}

\* One condition, there from the start, that fails and recovers.
FewVersions == {[Ready |-> c, Synced |-> NoCond] : c \in MCConds}
=============================================================================
