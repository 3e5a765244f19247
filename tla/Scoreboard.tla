----------------------------- MODULE Scoreboard -----------------------------
(***************************************************************************)
(* The register scoreboard of one wavefront pool (Scoreboard.cc): for each *)
(* wavefront-pool slot, the scalar and vector registers that have a write  *)
(* in flight.                                                              *)
(*                                                                         *)
(* A uop's register footprint is four index arrays as in Uop, 0-based    *)
(* functions of 4/16/6/4 entries (UopDecode): source and destination,     *)
(* scalar and vector, -1 marking an unused position.  The loops of        *)
(* ReserveRegisters and of CheckCollision's destination part run over the *)
(* whole destination arrays.                                               *)
(*                                                                         *)
(* The long-latency tables (long_operation_*_register_table) hold the     *)
(* destinations of the uops of a long-latency memory format (MTBUF, MUBUF, *)
(* MIMG); they feed IsLongOpCollision and so the long_operation_wait flag. *)
(***************************************************************************)
EXTENDS Integers

CONSTANTS
  Slots    \* wavefront pool entry indices

VARIABLES
  scalarTable,   \* scalar_register_table: slot -> reserved scalar registers
  vectorTable,   \* vector_register_table: slot -> reserved vector registers
  longScalarTable, \* long_operation_scalar_register_table
  longVectorTable, \* long_operation_vector_register_table
  fatal          \* a misc::Panic or failed assert has ended the simulation

(* The registers an index array names: the loops of ReserveRegisters and   *)
(* ReleaseRegisters take only indices > 0, so register 0 is never tracked. *)
RegsOf(arr) == { arr[p] : p \in { q \in DOMAIN arr : arr[q] > 0 } }

(* ReserveScalarRegister / ReserveVectorRegister panic when the register   *)
(* is already reserved; ReserveRegisters calls them position by position,  *)
(* so a repeated destination within one uop panics as well.               *)
ReservePanics(table, arr) ==
  \E p \in DOMAIN arr :
     /\ arr[p] > 0
     /\ \/ arr[p] \in table
        \/ \E q \in DOMAIN arr : q < p /\ arr[q] = arr[p]

(* The registers an index array names, register 0 included.              *)
UsedRegs(arr) == { arr[p] : p \in { q \in DOMAIN arr : arr[q] >= 0 } }

ReserveFails(s, u) ==
  ReservePanics(scalarTable[s], u.dstS) \/ ReservePanics(vectorTable[s], u.dstV)

(* The instruction's format is MTBUF, MUBUF or MIMG.                      *)
LongLatency(u) == u.fmt \in {"MTBUF", "MUBUF", "MIMG"}

(* Mutant: the long-latency destinations are not tracked.                 *)
ReserveRegistersShortOnly(s, u) ==
  /\ scalarTable' = [scalarTable EXCEPT ![s] = @ \cup RegsOf(u.dstS)]
  /\ vectorTable' = [vectorTable EXCEPT ![s] = @ \cup RegsOf(u.dstV)]
  /\ UNCHANGED << longScalarTable, longVectorTable >>

(* The caller records ReserveFails(s, u) in fatal.                        *)
ReserveRegisters(s, u) ==
  /\ scalarTable' = [scalarTable EXCEPT ![s] = @ \cup RegsOf(u.dstS)]
  /\ vectorTable' = [vectorTable EXCEPT ![s] = @ \cup RegsOf(u.dstV)]
  /\ longScalarTable' = [longScalarTable EXCEPT ![s] =
                           IF LongLatency(u) THEN @ \cup RegsOf(u.dstS) ELSE @]
  /\ longVectorTable' = [longVectorTable EXCEPT ![s] =
                           IF LongLatency(u) THEN @ \cup RegsOf(u.dstV) ELSE @]

(* Fault-injection variant: the vector destinations are not released.     *)
ReleaseRegistersScalarOnly(s, u, past) ==
  /\ scalarTable' = [scalarTable EXCEPT ![s] = @ \ RegsOf(u.dstS)]
  /\ longScalarTable' = [longScalarTable EXCEPT ![s] =
                           IF LongLatency(u) THEN @ \ RegsOf(u.dstS) ELSE @]
  /\ UNCHANGED << vectorTable, longVectorTable, fatal >>

(* Release ignores registers that are not reserved.  For a long-latency   *)
(* format the long tables are released too; the vector loop runs i < 14   *)
(* over the four-entry destination_vector_register_index, so it also      *)
(* erases the indices > 0 found in the ten words after the array, past.   *)
ReleaseRegisters(s, u, past) ==
  /\ scalarTable' = [scalarTable EXCEPT ![s] = @ \ RegsOf(u.dstS)]
  /\ vectorTable' = [vectorTable EXCEPT ![s] = @ \ RegsOf(u.dstV)]
  /\ longScalarTable' = [longScalarTable EXCEPT ![s] =
                           IF LongLatency(u) THEN @ \ RegsOf(u.dstS) ELSE @]
  /\ longVectorTable' = [longVectorTable EXCEPT ![s] =
                           IF LongLatency(u) THEN @ \ (RegsOf(u.dstV) \cup past) ELSE @]
  /\ UNCHANGED fatal

(* The sets CheckCollision builds.  Its source loops insert the            *)
(* DESTINATION index at every position whose source index is > 0, so a    *)
(* source register itself is never looked up.  Both source loops run      *)
(* i < 4, and the destination index is inserted even when it is -1.       *)
SourceLoop == 0 .. 3

CollisionScalarRegs(u) ==
  RegsOf(u.dstS) \cup { u.dstS[p] : p \in { q \in SourceLoop : u.srcS[q] > 0 } }

CollisionVectorRegs(u) ==
  RegsOf(u.dstV) \cup { u.dstV[p] : p \in { q \in SourceLoop : u.srcV[q] > 0 } }

CheckCollision(s, u) ==
  \/ CollisionScalarRegs(u) \cap scalarTable[s] # {}
  \/ CollisionVectorRegs(u) \cap vectorTable[s] # {}

(* IsLongOpCollision: the same check against the long-latency tables.    *)
IsLongOpCollision(s, u) ==
  \/ CollisionScalarRegs(u) \cap longScalarTable[s] # {}
  \/ CollisionVectorRegs(u) \cap longVectorTable[s] # {}

Init ==
  /\ scalarTable = [s \in Slots |-> {}]
  /\ vectorTable = [s \in Slots |-> {}]
  /\ longScalarTable = [s \in Slots |-> {}]
  /\ longVectorTable = [s \in Slots |-> {}]
  /\ fatal = FALSE

=============================================================================
