--------------------------- MODULE WorkGroupSlots ---------------------------
(***************************************************************************)
(* What a compute unit promises the GPU about its work-group slots,       *)
(* whatever vector or list holds them: a work-group is mapped into one of *)
(* WGPerCU slots that no running work-group holds, keeps that slot until  *)
(* it is unmapped, and while a slot is free a waiting work-group is        *)
(* eventually mapped.  WorkGroupMap implements it (wg_map).                *)
(***************************************************************************)
EXTENDS Integers

CONSTANTS WorkGroups, WGPerCU, NoSlot

VARIABLES slotOf, waiting, running, finished

avars == << slotOf, waiting, running, finished >>

SlotIds == 0 .. WGPerCU - 1

Free == SlotIds \ { slotOf[w] : w \in running }

Init ==
  /\ slotOf = [w \in WorkGroups |-> NoSlot]
  /\ waiting = WorkGroups
  /\ running = {}
  /\ finished = {}

(* A waiting work-group takes a free slot.                                 *)
Map(wg, s) ==
  /\ wg \in waiting
  /\ s \in Free
  /\ slotOf' = [slotOf EXCEPT ![wg] = s]
  /\ waiting' = waiting \ {wg}
  /\ running' = running \cup {wg}
  /\ UNCHANGED finished

(* A running work-group ends and gives its slot back.                      *)
Unmap(wg) ==
  /\ wg \in running
  /\ running' = running \ {wg}
  /\ finished' = finished \cup {wg}
  /\ UNCHANGED << slotOf, waiting >>

MapSome == \E wg \in WorkGroups, s \in SlotIds : Map(wg, s)
UnmapSome == \E wg \in WorkGroups : Unmap(wg)

Next == MapSome \/ UnmapSome

Spec == Init /\ [][Next]_avars /\ WF_avars(MapSome) /\ WF_avars(UnmapSome)
=============================================================================
