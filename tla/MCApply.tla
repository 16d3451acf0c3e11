------------------------------ MODULE MCApply ------------------------------
(***************************************************************************)
(* An instance of Apply: a cluster of one node with a pod on it, a pod on  *)
(* a node that is gone and a DaemonSet; an application that may not fit,   *)
(* one with storage, and two that are not valid: the last pod of one, the  *)
(* DaemonSet of the other.  Goroutines take two pods each, so the last one *)
(* of a list has one or none.                                              *)
(***************************************************************************)
EXTENDS Apply

CONSTANTS base, elsewhere,                  \* nodes
          m1, here, gone, sts, disk, bad,   \* manifests
          agent, plain, rogue               \* DaemonSets

Nothing == [kind \in Kinds |-> <<>>]
TheCluster == [Nothing EXCEPT !["Pod"] = <<here, gone>>]
Web == [Nothing EXCEPT !["StatefulSet"] = <<sts>>]
Disk == [Nothing EXCEPT !["Deployment"] = <<disk>>]
Broken == [Nothing EXCEPT !["Pod"] = <<m1, m1, bad>>]
App(name, resource) == [name |-> name, resource |-> resource]
TheApps == <<App("web", Web), App("broken", Broken), App("agents", Nothing), App("disk", Disk)>>

ReplicasOfEach == [m \in Manifests |-> IF m = sts THEN 2 ELSE None]
AgentsOf == <<{plain}, {}, {rogue}, {}>>
DaemonSetsOfEach == [i \in 0..4 |-> IF i = 0 THEN {agent} ELSE AgentsOf[i]]
SuitsEach == [d \in DaemonSets |-> IF d = plain THEN {base} ELSE {"new"}]

NodeNameOfEach == [m \in Manifests \cup DaemonSets |->
                      CASE m = here -> base
                        [] m = gone -> elsewhere
                        [] OTHER -> None]
DemandOfEach == [m \in Manifests \cup DaemonSets |->
                    [res \in ResourceNames |->
                        IF m \in {agent, plain} THEN 0 ELSE IF m = sts THEN 2 ELSE 1]]
Three == [n \in {base, "new"} |-> [res \in ResourceNames |-> 3]]
Limits == [res \in ResourceNames \cup {"vg"} |-> 60]
Percents == {0, 70}
Typed == {-1, 1, 2}
=============================================================================
