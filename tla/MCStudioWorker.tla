--------------------------- MODULE MCStudioWorker ---------------------------
(***************************************************************************)
(* One event: events share nothing but the height and the worker's turn.   *)
(***************************************************************************)
EXTENDS StudioWorker

CONSTANTS w1, w2, e1, n1, n2, r1, r2

OneConfig == {[namespace |-> n1, rate |-> r1]}
AnotherRate == {[namespace |-> n1, rate |-> r1], [namespace |-> n1, rate |-> r2]}
AnotherNamespace == {[namespace |-> n1, rate |-> r1], [namespace |-> n2, rate |-> r1]}
Reconfigured == AnotherRate \cup AnotherNamespace

AllContents == [namespace : Namespaces, content : Contents]
SameRate == {[namespace |-> n1, content |-> r1]}

LaggingSecond == [p \in {"primary", "second"} |->
                    IF p = "primary" THEN "monotone" ELSE "erratic"]
LaggingPrimary == [p \in {"primary", "second"} |->
                     IF p = "primary" THEN "erratic" ELSE "current"]
OneCurrent == {LaggingSecond, LaggingPrimary}
SecondLags == {LaggingSecond}
CurrentAlone == {[p \in {"primary"} |-> "current"]}
=============================================================================
