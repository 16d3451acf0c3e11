----------------------------- MODULE MCGpuShare -----------------------------
(* Instances of GpuShare for TLC: a takes most of a device, b four pieces   *)
(* of a third, c asks for device 0, e for storage only; f runs on big.      *)
EXTENDS GpuShare

CONSTANTS a, b, c, e, f, big, small

Five == <<a, b, f, c, e>>
FOnBig == [p \in Pod |-> IF p = f THEN big ELSE Unbound]
Memory == [p \in Pod |-> CASE p = b -> 1 [] p = e -> 0 [] OTHER -> 2]
Pieces == [p \in Pod |-> CASE p = b -> 4 [] p = e -> 0 [] OTHER -> 1]
Named == [p \in Pod |-> CASE p = c -> <<0>> [] p = f -> <<1>> [] OTHER -> <<>>]
Devices == [n \in Node |-> IF n = big THEN 2 ELSE 1]
Memories == [n \in Node |-> IF n = big THEN 7 ELSE 2]
=============================================================================
