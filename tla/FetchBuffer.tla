---------------------------- MODULE FetchBuffer ----------------------------
(***************************************************************************)
(* A FetchBuffer (FetchBuffer.h, FetchBuffer.cc): one list of uops per    *)
(* wavefront-pool entry, oldest first, a sequence here, and the issue     *)
(* flags of the execution units, the set of units whose flag is set.      *)
(* ComputeUnit keeps three of them per pool: the fetch buffer, the        *)
(* speculation fetch buffer and the pre-execution buffer.                 *)
(***************************************************************************)
EXTENDS Integers, Sequences
LOCAL INSTANCE SequencesExt

(* The constructor: every entry list empty, no wavefront fetched or      *)
(* issued yet (last_issued_wavefront_index = -1), no flag set.            *)
EmptyBuffer(entries) == [s \in entries |-> << >>]
LastFetchedInit == 0
LastIssuedInit == -1

(* addUop: push_back onto the entry's list.                               *)
AddUop(b, s, u) == [b EXCEPT ![s] = Append(@, u)]

(* Remove(index, it): erase the uop at position k of the entry; the      *)
(* assert rules out end(), so k is a position of the list.                *)
RemoveUop(b, s, k) == [b EXCEPT ![s] = RemoveAt(@, k)]

(* ResetExecutionUnitIssueFlag: clear the flags of all five units.        *)
ResetExecutionUnitIssueFlag == {}

(* set...IssuedFlag(true), and get...IssuedFlag.                           *)
SetIssuedFlag(flags, un) == flags \cup {un}
IssuedFlag(flags, un) == un \in flags
=============================================================================
