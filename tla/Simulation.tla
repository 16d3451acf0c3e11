----------------------------- MODULE Simulation -----------------------------
(***************************************************************************)
(* What a call of Simulate promises, with no goroutine in sight: the pods  *)
(* of the workload are decided one after the other, in the order given;    *)
(* each gets a node with room for it or joins the list of unscheduled      *)
(* pods, and no decision is ever revised.                                  *)
(***************************************************************************)
EXTENDS Integers, Sequences, FiniteSetsExt

CONSTANTS Pod, Node, Workload, NodeName, Cpu, CpuCap, Unbound

VARIABLES
    next,      \* the position of the next pod to decide
    home,      \* the node of each placed pod
    rejected,  \* the unscheduled pods
    result     \* "none" while Simulate runs, then "ok" or "error"

vars == <<next, home, rejected, result>>

Used(n) == MapThenSumSet(LAMBDA p : Cpu[p], {p \in Pod : home[p] = n})

Deciding(p) ==
    /\ result = "none" /\ next <= Len(Workload) /\ p = Workload[next]
    /\ next' = next + 1
    /\ UNCHANGED result

(* A pod that names its node is taken as it is.                            *)
Adopt(p) ==
    /\ Deciding(p) /\ NodeName[p] # Unbound
    /\ home' = [home EXCEPT ![p] = NodeName[p]]
    /\ UNCHANGED rejected

Place(p, n) ==
    /\ Deciding(p) /\ NodeName[p] = Unbound
    /\ Cpu[p] = 0 \/ Used(n) + Cpu[p] <= CpuCap[n]
    /\ home' = [home EXCEPT ![p] = n]
    /\ UNCHANGED rejected

Reject(p) ==
    /\ Deciding(p) /\ NodeName[p] = Unbound
    /\ rejected' = Append(rejected, p)
    /\ UNCHANGED home

(* Every pod is decided: return the list and the nodes.                    *)
Succeed ==
    /\ result = "none" /\ next > Len(Workload)
    /\ result' = "ok"
    /\ UNCHANGED <<next, home, rejected>>

Fail ==
    /\ result = "none" /\ result' = "error"
    /\ UNCHANGED <<next, home, rejected>>

Init ==
    /\ next = 1 /\ home = [p \in Pod |-> Unbound]
    /\ rejected = <<>> /\ result = "none"

Next ==
    \/ \E p \in Pod : Adopt(p) \/ Reject(p) \/ \E n \in Node : Place(p, n)
    \/ Succeed \/ Fail

Spec == Init /\ [][Next]_vars
=============================================================================
