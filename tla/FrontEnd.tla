------------------------------ MODULE FrontEnd ------------------------------
(***************************************************************************)
(* What the fetch and issue stages promise each wavefront when no hint     *)
(* file is loaded: the wavefront's instructions are fetched one at a time *)
(* along a path of the program, and they leave the front end in the order *)
(* they were fetched.                                                      *)
(***************************************************************************)
EXTENDS Integers, Sequences

CONSTANTS
  Slots,   \* wavefronts, one per wavefront pool entry
  Prog     \* the program every wavefront runs

VARIABLES
  pc,        \* slot -> next instruction of the wavefront
  finished,  \* slot -> the wavefront has executed s_endpgm
  pending    \* slot -> instructions fetched and not yet issued, oldest first

vars == << pc, finished, pending >>

(* A branch may fall through or jump; any other instruction falls through. *)
Successors(p) ==
  IF Prog[p].target > 0 THEN {p + 1, Prog[p].target} ELSE {p + 1}

Init ==
  /\ pc = [s \in Slots |-> 1]
  /\ finished = [s \in Slots |-> FALSE]
  /\ pending = [s \in Slots |-> << >>]

Fetch(s) ==
  /\ ~finished[s]
  /\ \E n \in Successors(pc[s]) : pc' = [pc EXCEPT ![s] = n]
  /\ finished' = [finished EXCEPT ![s] = Prog[pc[s]].endpgm]
  /\ pending' = [pending EXCEPT ![s] = Append(@, pc[s])]

Issue(s) ==
  /\ pending[s] # << >>
  /\ pending' = [pending EXCEPT ![s] = Tail(@)]
  /\ UNCHANGED << pc, finished >>

Next == \E s \in Slots : Fetch(s) \/ Issue(s)

Spec == Init /\ [][Next]_vars

=============================================================================
