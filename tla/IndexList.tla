----------------------------- MODULE IndexList -----------------------------
(***************************************************************************)
(* The two wavefront index lists of a WavefrontPool (WavefrontPool.h):    *)
(* std::list<int> as libstdc++ builds it.  A list is its nodes in order   *)
(* and the size counter the header node keeps: size() returns the         *)
(* counter, and erase(it) decrements the counter of the list it is called *)
(* on while unhooking the node from whatever list the node is in.         *)
(*                                                                         *)
(* The nodes and the header form a ring.  Dereferencing the header reads  *)
(* the storage after its two links, which is the size counter; that is    *)
(* what the build returns when getNormalListIndexValue walks onto it.     *)
(***************************************************************************)
EXTENDS Integers, Sequences
LOCAL INSTANCE SequencesExt

EmptyList == [elems |-> << >>, size |-> 0]

(* getNormalListSize / getSpeculationListSize                             *)
SizeOf(l) == l.size

(* get...ListIndexValue(k): k steps round the ring from begin(); a step   *)
(* onto the header yields the counter.                                    *)
IndexValue(l, k) ==
  LET j == k % (Len(l.elems) + 1)
  IN IF j < Len(l.elems) THEN l.elems[j + 1] ELSE l.size

(* push_backNormalList / push_backSpeculationList                         *)
PushBack(l, v) == [elems |-> Append(l.elems, v), size |-> l.size + 1]

(* eraseNormalList: unhook the first node holding v, if any.              *)
EraseNormalList(l, v) ==
  IF \E k \in 1 .. Len(l.elems) : l.elems[k] = v
    THEN [elems |-> RemoveFirst(l.elems, v), size |-> l.size - 1]
    ELSE l

(* eraseSpeculationList: the node is searched for in the speculation     *)
(* list and erased through the normal list.  Returns the pair            *)
(* << normal list, speculation list >> after the call.                    *)
EraseSpeculationList(normal, spec, v) ==
  IF \E k \in 1 .. Len(spec.elems) : spec.elems[k] = v
    THEN << [normal EXCEPT !.size = @ - 1],
            [spec EXCEPT !.elems = RemoveFirst(@, v)] >>
    ELSE << normal, spec >>

=============================================================================
