---------------------------- MODULE WorkGroupMap ----------------------------
(***************************************************************************)
(* The work-group lifecycle of one compute unit (ComputeUnit.cc):          *)
(* MapWorkGroup finds a free work-group slot, stores the work-group in the *)
(* work_groups vector, puts the compute unit back on the GPU's list of     *)
(* available compute units if it still has room, and picks the wavefront  *)
(* pool by slot; UnmapWorkGroup empties the slot and puts the compute unit *)
(* back on the list.  The vector grows by push_back and never shrinks.    *)
(*                                                                         *)
(* The GPU side is a collaborator outside src/ (spec 4.5, 6): it takes an  *)
(* available compute unit off its list and maps a waiting work-group onto *)
(* it, and unmaps a work-group once all its wavefronts have finished.      *)
(* MapWavefronts / UnmapWavefronts (the wavefront pool side) and the       *)
(* statistics counters are left out.                                       *)
(***************************************************************************)
EXTENDS Integers, Sequences, FiniteSets

CONSTANTS
  WorkGroups,     \* the work-groups of the NDRange
  WGPerCU,        \* gpu->getWorkGroupsPerComputeUnit()
  NumPools,       \* num_wavefront_pools
  PoolCap,        \* max_wavefronts_per_wavefront_pool
  WavefrontsPerWG,\* work_group->getWavefrontsInWorkgroup()
  NoWorkGroup     \* nullptr in work_groups

ASSUME /\ WorkGroups \subseteq Nat            \* work-group ids
       /\ WGPerCU \in Nat \ {0} /\ NumPools \in Nat \ {0}
       /\ PoolCap \in Nat /\ WavefrontsPerWG \in Nat \ {0}
       /\ NoWorkGroup \notin WorkGroups

VARIABLES
  workGroups,     \* work_groups: slot -> work-group or nullptr, as a sequence
  idInCU,         \* work-group -> id_in_compute_unit
  poolOf,         \* work-group -> index of work_group->wavefront_pool
  available,      \* in_available_compute_units: on the GPU's available list
  waiting,        \* work-groups the GPU has not mapped yet
  running,        \* work-groups mapped to the compute unit
  finished,       \* work-groups unmapped
  failed          \* an assert of MapWorkGroup / AddWorkGroup / UnmapWorkGroup failed

vars == << workGroups, idInCU, poolOf, available, waiting, running, finished, failed >>

Size == Len(workGroups)

(* Mutant: the slot search drops the nullptr test and stops at the end. *)
FindSlotEnd(id) == IF Size < WGPerCU THEN Size ELSE WGPerCU

(* The slot search of MapWorkGroup: while id < WGPerCU, id < size and    *)
(* work_groups[id] != nullptr, id++.  The first empty slot, or the size.  *)
RECURSIVE FindSlot(_)
FindSlot(id) ==
  IF id < WGPerCU /\ id < Size /\ workGroups[id + 1] # NoWorkGroup
    THEN FindSlot(id + 1) ELSE id

(* AddWorkGroup: a slot one past the end is pushed back while the vector *)
(* is below WGPerCU; any other slot must be empty and is overwritten.     *)
AddFails(id) ==
  ~(id = Size /\ Size < WGPerCU) /\ (id >= Size \/ workGroups[id + 1] # NoWorkGroup)
AddWorkGroup(wg, id) ==
  IF id = Size /\ Size < WGPerCU
    THEN Append(workGroups, wg)
    ELSE [workGroups EXCEPT ![id + 1] = wg]

(* Mutants of the pool choice: the modulo dropped, or the work-group's   *)
(* global id taken for its slot.                                          *)
PoolIndexNoModulo(wg, id) == id
PoolIndexGlobal(wg, id) == wg % NumPools

(* wavefront_pool_id = id_in_compute_unit % num_wavefront_pools           *)
PoolIndex(wg, id) == id % NumPools

(* MapWorkGroup, entered with the compute unit off the available list:   *)
(* the asserts, the slot, AddWorkGroup, the compute unit back on the list *)
(* if the vector is still below WGPerCU, the pool, and the assert that    *)
(* the work-group's wavefronts fit one pool.                              *)
MapWorkGroup(wg) ==
  LET id == FindSlot(0)
      wgs == AddWorkGroup(wg, id)
  IN
  /\ workGroups' = wgs
  /\ idInCU' = [idInCU EXCEPT ![wg] = id]
  /\ poolOf' = [poolOf EXCEPT ![wg] = PoolIndex(wg, id)]
  /\ available' = (Len(wgs) < WGPerCU)
  /\ failed' = \/ failed \/ Size > WGPerCU \/ idInCU[wg] # 0
               \/ id >= WGPerCU \/ AddFails(id)
               \/ WavefrontsPerWG > PoolCap

(* Gpu: take an available compute unit off the list and map a waiting    *)
(* work-group onto it.                                                     *)
Dispatch ==
  /\ available
  /\ ~failed
  /\ \E wg \in waiting :
        /\ MapWorkGroup(wg)
        /\ waiting' = waiting \ {wg}
        /\ running' = running \cup {wg}
  /\ UNCHANGED finished

(* Mutant: UnmapWorkGroup leaves the available list alone.                *)
UnmapKeepsList(wg) ==
  /\ workGroups' = [workGroups EXCEPT ![idInCU[wg] + 1] = NoWorkGroup]
  /\ failed' = (failed \/ Size = 0)
  /\ UNCHANGED available

(* UnmapWorkGroup: RemoveWorkGroup empties the slot (the vector keeps its *)
(* size), and the compute unit goes back on the available list.           *)
UnmapWorkGroup(wg) ==
  /\ workGroups' = [workGroups EXCEPT ![idInCU[wg] + 1] = NoWorkGroup]
  /\ failed' = (failed \/ Size = 0)
  /\ available' = TRUE

(* Gpu: a mapped work-group whose wavefronts have all finished.           *)
Finish ==
  /\ ~failed
  /\ \E wg \in running :
        /\ UnmapWorkGroup(wg)
        /\ running' = running \ {wg}
        /\ finished' = finished \cup {wg}
  /\ UNCHANGED << idInCU, poolOf, waiting >>

Init ==
  /\ workGroups = << >>
  /\ idInCU = [wg \in WorkGroups |-> 0]
  /\ poolOf = [wg \in WorkGroups |-> 0]
  /\ available = TRUE
  /\ waiting = WorkGroups
  /\ running = {}
  /\ finished = {}
  /\ failed = FALSE

Next == Dispatch \/ Finish

(* The GPU maps work onto an available compute unit every cycle it can,  *)
(* and a mapped work-group runs to its end.                               *)
Spec == Init /\ [][Next]_vars /\ WF_vars(Dispatch) /\ WF_vars(Finish)

(***************************************************************************)
(* Properties                                                              *)
(***************************************************************************)
TypeOK ==
  /\ workGroups \in Seq(WorkGroups \cup {NoWorkGroup})
  /\ idInCU \in [WorkGroups -> Nat]
  /\ poolOf \in [WorkGroups -> 0 .. NumPools - 1]
  /\ available \in BOOLEAN /\ failed \in BOOLEAN
  /\ {waiting, running, finished} \subseteq SUBSET WorkGroups

(* No assert of the lifecycle fails, and the work_groups vector holds    *)
(* exactly the mapped work-groups, each in the slot it was given, so two *)
(* work-groups never share a slot (spec 3: a slot holds at most one).     *)
SlotsExact ==
  /\ ~failed
  /\ Size <= WGPerCU
  /\ \A k \in 1 .. Size : workGroups[k] # NoWorkGroup =>
        workGroups[k] \in running /\ idInCU[workGroups[k]] = k - 1
  /\ \A wg \in running : idInCU[wg] < Size /\ workGroups[idInCU[wg] + 1] = wg

(* The compute unit is on the available list whenever it has room for    *)
(* another work-group (spec 4.5: MapWorkGroup registers the compute unit *)
(* as available if it still has capacity).                                *)
AvailableWhenFree == Cardinality(running) < WGPerCU => available

(* The wavefronts of the work-groups sharing a pool fit in it: the pool  *)
(* choice spreads the slots evenly, and MapWorkGroup's assert only checks *)
(* one work-group against the pool's capacity.                            *)
PoolsFit ==
  \A p \in 0 .. NumPools - 1 :
     Cardinality({ wg \in running : poolOf[wg] = p }) * WavefrontsPerWG <= PoolCap

(* Every work-group of the NDRange is eventually mapped and finishes.     *)
AllWorkGroupsRun == <>(finished = WorkGroups)

(* The lifecycle implements WorkGroupSlots, with a work-group's slot its *)
(* id_in_compute_unit from the time it is mapped: MapWorkGroup only hands *)
(* out a slot below WGPerCU that no running work-group holds, the slot   *)
(* stays put until UnmapWorkGroup, and while a slot is free the compute   *)
(* unit comes back on the available list in time to take a waiting       *)
(* work-group, although the vector never shrinks.                          *)
Abs == INSTANCE WorkGroupSlots
         WITH slotOf <- [w \in WorkGroups |-> IF w \in waiting THEN -1 ELSE idInCU[w]],
              NoSlot <- -1
WorkGroupSlotsRefined == Abs!Spec
=============================================================================
