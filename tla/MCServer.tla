------------------------------ MODULE MCServer ------------------------------
(***************************************************************************)
(* An instance of Server: a Deployment "web" in the middle of a rollout    *)
(* (web2 is its new ReplicaSet), a StatefulSet "db" whose pod may be       *)
(* created anew under its name, and a DaemonSet.  s1 scales all three, s2  *)
(* a StatefulSet that is not there.                                        *)
(***************************************************************************)
EXTENDS Server, TLC

CONSTANTS w2, db0, db1, dp,     \* pods
          web2, db, ds,         \* workloads
          d1, s1, s2            \* requests

Names == [p \in Pods |-> CASE p = w2 -> "w2" [] p = dp -> "dp" [] OTHER -> "db-0"]
Owners == [p \in Pods |-> CASE p = w2 -> web2 [] p = dp -> ds [] OTHER -> db]
KindOfEach == web2 :> "ReplicaSet" @@ db :> "StatefulSet" @@ ds :> "DaemonSet"
NameOfEach == web2 :> "web-2" @@ db :> "db" @@ ds :> "ds"
OneNamespace == [w \in Workloads |-> "prod"]
Webs == [w \in Workloads |-> IF w = web2 THEN "web" ELSE "none"]

InRollout == [p \in Pods |-> IF p \in {db0, dp} THEN "Running" ELSE "Absent"]

HandlerOfEach == [r \in Requests |-> IF r = d1 THEN "deploy" ELSE "scale"]

Prod(kind, name) == [kind |-> kind, name |-> name, namespace |-> "prod"]
Apps == [r \in Requests |->
            CASE r = s1 -> {Prod("Deployment", "web"), Prod("StatefulSet", "db"),
                            Prod("DaemonSet", "ds")}
              [] r = s2 -> {Prod("StatefulSet", "gone")}
              [] OTHER -> {}]
=============================================================================
