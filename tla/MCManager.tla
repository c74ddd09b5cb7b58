------------------------------ MODULE MCManager ------------------------------
(* Two informers that watch kinds of the same name, of different groups.    *)
EXTENDS Manager, TLC

CONSTANTS k1

Condition(status) == [status |-> status, reason |-> ""]

\* cert-manager's Certificates, and Knative's.
Certificate(group, status) ==
  [group |-> group, kind |-> "Certificate", type |-> "", reason |-> "", subject |-> NoSubject,
   generation |-> 1,
   conds |-> [t \in {"Ready", "Synced"} |-> IF t = "Ready" THEN Condition(status) ELSE NoCond]]

Certificates(group) == {Certificate(group, status) : status \in {"True", "False"}}
Claims1Def == Certificates("cert-manager.io")
Claims2Def == Certificates("networking.internal.knative.dev")

FlipsSpec ==
  [resource |-> "certificates", events |-> {"update"}, pitchInitialList |-> FALSE,
   namespace |-> "", updates |-> "flips", deleteSeverity |-> "", types |-> {}, reasons |-> {},
   excludeReasons |-> {}, ignoreStatuses |-> {}, ignoreReasons |-> {}, minDuration |-> 0]

SpecsDef == {FlipsSpec}
NamespaceOfDef == k1 :> "own"
=============================================================================
