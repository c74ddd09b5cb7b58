------------------------- MODULE MCConditionTracker -------------------------
(* ConditionTracker on small instances. *)
EXTENDS ConditionTracker

CONSTANTS k1, k2

\* The profile of the README: ignoreReasons [Progressing], and a failure with
\* one of two reasons.
Healthy     == [status |-> "True", reason |-> ""]
BuildFailed == [status |-> "False", reason |-> "BuildFailed"]
NotReady    == [status |-> "False", reason |-> ""]
Lost        == [status |-> "Unknown", reason |-> ""]
Progressing == [status |-> "Unknown", reason |-> "Progressing"]
Settling    == [status |-> "True", reason |-> "Progressing"]

MCConds == {Healthy, BuildFailed, NotReady, Lost, Progressing, Settling}

OneCondition(C)  == {[Ready |-> c, Synced |-> NoCond] : c \in C}
TwoConditions(C) == {[Ready |-> c, Synced |-> d] : c \in C, d \in C}

\* Every way one condition can change.
ReadyVersions == OneCondition(MCConds \cup {NoCond})
\* Two conditions whose failures overlap.
PairVersions  == TwoConditions({Healthy, BuildFailed, Progressing})
\* A lone failure.
FewVersions   == OneCondition({Healthy, BuildFailed})
\* A failure, and a healthy state with an ignored reason.
SettlingVersions == OneCondition({Healthy, BuildFailed, Settling})
=============================================================================
