---------------------------- MODULE ComputeUnit ----------------------------
(***************************************************************************)
(* The front end of one Southern Islands compute unit (ComputeUnit.cc),   *)
(* seen from the wavefront pool that holds the mapped work-group, in the  *)
(* list or index issue mode (Timing::issue_mode), with or without a hint *)
(* file.                                                                   *)
(*                                                                         *)
(* ComputeUnit::Run is one cycle: the execution units run (uops complete), *)
(* the issue flags of the active pool are reset, the active pool (cycle   *)
(* mod NumPools) issues, and every pool fetches.  Issue and Fetch are     *)
(* loops over the pool's entries; each loop iteration is one step here,   *)
(* and so is each iteration of the pre-execution loop of a speculative    *)
(* fetch, so phase, i and loop play the role of the program counter.      *)
(*                                                                         *)
(* The execution units and the emulator are collaborators outside this    *)
(* core: a unit accepts a uop while it holds fewer than UnitCap uops and  *)
(* completes its uops in any order; Wavefront::Execute steps the program. *)
(* Instructions are four bytes, so instruction p sits at byte pc Addr(p). *)
(***************************************************************************)
EXTENDS Integers, Sequences, FiniteSets

CONSTANTS
  NumPools,      \* num_wavefront_pools
  PoolSize,      \* max_wavefronts_per_wavefront_pool: entries of the pool
  NSlots,        \* wavefronts of the work-group, mapped to entries 0 .. NSlots-1
  BufCap,        \* FetchBuffer::num_slots_per_entry
  FetchWidth,    \* fetch_width
  IssueWidth,    \* issue_width
  FetchLatency,  \* fetch_latency
  UnitCap,       \* uops an execution unit accepts before canIssue() fails
  Kernel,        \* the kernel: a sequence of decoded instructions
  Hints,         \* Timing::instruction_hint: byte pc -> [mode, offset1, offset2]
  IssueMode      \* Timing::issue_mode: 0 the index lists, 1 the pool indices

ASSUME NumPools \in Nat \ {0} /\ NSlots \in Nat \ {0} /\ PoolSize >= NSlots
ASSUME BufCap \in Nat \ {0} /\ FetchWidth \in Nat \ {0} /\ IssueWidth \in Nat \ {0}
ASSUME FetchLatency \in Nat \ {0} /\ UnitCap \in Nat \ {0} /\ IssueMode \in {0, 1}

(* The kernel as a definition, so that TLC evaluates it once.           *)
Prog == Kernel

Entries == 0 .. PoolSize - 1
Slots == 0 .. NSlots - 1
PCs == 1 .. Len(Prog)
Units == {"branch", "scalar", "simd", "vmem", "lds"}

Addr(p) == 4 * (p - 1)

(* Every target a hint can produce lies inside the kernel, so the         *)
(* pre-execution loop, which never checks finished, stops at s_endpgm.    *)
ASSUME \A a \in DOMAIN Hints :
         /\ Hints[a].mode \in {0, 1}
         /\ {a + Hints[a].offset1, a + Hints[a].offset2} \subseteq {Addr(p) : p \in PCs}

(* Timing::IsHintFileEmpty                                                *)
HintEmpty == DOMAIN Hints = {}

VARIABLES
  phase,        \* where Run is: "units", "issue", "fetch" or "prex"
  cycle,        \* timing->getCycle() mod NumPools
  i,            \* loop index of the running Issue or Fetch pass
  processed,    \* instructions_processed of the running pass
  loop,         \* the running pre-execution loop: its entry and target_pc
  wf,           \* slot -> emulator state of its wavefront: pc, finished, next uop id
  entry,        \* entry -> WavefrontPoolEntry: mem_wait, wait_for_barrier, cnt, done,
                \*          execution_mode, pre_fetch_pc, long_operation_wait
  fbuf,         \* entry -> fetch buffer entry: uops [pc, id, lat], oldest first
  sbuf,         \* entry -> speculation fetch buffer entry
  pbuf,         \* entry -> pre-execution buffer entry
  units,        \* execution unit -> uops it holds [slot, pc, id]
  portFlags,    \* units the pool's fetch buffer has issued to this cycle
  normalList,   \* normal_wavefront_index_list (IndexList)
  specList,     \* speculation_wavefront_index_list (IndexList)
  toSpec,       \* normal_to_speculation_value of the running pass
  toNormal,     \* speculation_to_normal_value of the running pass
  lastNormal,   \* last issued normal list index
  lastSpec,     \* last issued speculation list index
  lastIssued,   \* last_issued_wavefront_index of the fetch buffer (index mode)
  lastFetched,  \* last_fetched_wavefront_index
  arrived,      \* slots whose s_barrier has completed (barrier bookkeeping)
  released,     \* history: the barriers the work-group has been released from
  lastWaitcnt,  \* history: id of the last s_waitcnt each slot issued, 0 if none
  retired,      \* history: ids of the uops of each slot the units have completed
  scalarTable, vectorTable, longScalarTable, longVectorTable, fatal

(* The scoreboard's tables (Scoreboard).                                  *)
sbVars == << scalarTable, vectorTable, longScalarTable, longVectorTable >>

vars == << phase, cycle, i, processed, loop, wf, entry, fbuf, sbuf, pbuf, units,
           portFlags, normalList, specList, toSpec, toNormal, lastNormal,
           lastSpec, lastIssued, lastFetched, arrived, released, lastWaitcnt, retired, sbVars,
           fatal >>

SB == INSTANCE Scoreboard
IL == INSTANCE IndexList
FB == INSTANCE FetchBuffer
Seqs == INSTANCE SequencesExt

(* Wavefront::Execute: the next pc of the emulated instruction.           *)
Successors(p) ==
  IF Prog[p].target > 0 THEN {p + 1, Prog[p].target} ELSE {p + 1}

(* ExecutionUnit::canIssue                                                *)
CanIssue(un) == Cardinality(units[un]) < UnitCap

InFlight(s) == { x \in UNION { units[un] : un \in Units } : x.slot = s }

(* FetchBuffer::IsEmptyEntry, and the entry Issue and Fetch use: the     *)
(* speculation buffer in speculative mode with a hint file, else the      *)
(* normal fetch buffer.                                                    *)
IsEmptyEntry(b, s) == b[s] = << >>
Speculative(e) == ~HintEmpty /\ e.mode = 1
ModeBuf(s, e) == IF Speculative(e) THEN sbuf[s] ELSE fbuf[s]

(* What the vector long-latency release loop reads past the destination *)
(* array: words of the Uop object that Uop.h lays out there, any value;   *)
(* only the registers the kernel names matter to the tables.              *)
PastWords == UNION { SB!RegsOf(Prog[p].dstV) \cup SB!RegsOf(Prog[p].srcV) : p \in PCs }

(***************************************************************************)
(* Run, first part: the execution units complete uops (their Run).  The   *)
(* unit releases the uop's registers, decrements the wavefront's          *)
(* outstanding-access counters for a memory access, marks the entry done  *)
(* at s_endpgm, and releases the barrier once every wavefront of the      *)
(* work-group has reached it.                                              *)
(***************************************************************************)
(* Mutant: the unit decrements the counter for every uop it completes,  *)
(* not only for memory accesses.                                           *)
CompleteCountsAll(un, x) ==
  LET inst == Prog[x.pc]
      now  == IF inst.barrier THEN arrived \cup {x.slot} ELSE arrived
      free == now = Slots
  IN
  /\ phase = "units"
  /\ x \in units[un]
  /\ units' = [units EXCEPT ![un] = @ \ {x}]
  /\ \E past \in SUBSET PastWords : SB!ReleaseRegisters(x.slot, inst, past)
  /\ entry' = [t \in Entries |->
                 [entry[t] EXCEPT
                    !.cnt = @ - (IF t = x.slot THEN 1 ELSE 0),
                    !.done = @ \/ (t = x.slot /\ inst.endpgm),
                    !.barrierWait = @ /\ ~free]]
  /\ arrived' = IF free THEN {} ELSE now
  /\ released' = IF free THEN released + 1 ELSE released
  /\ retired' = [retired EXCEPT ![x.slot] = @ \cup {x.id}]
  /\ UNCHANGED << phase, cycle, i, processed, loop, wf, fbuf, sbuf, pbuf,
                  portFlags, normalList, specList, toSpec, toNormal, lastNormal,
                  lastSpec, lastIssued, lastFetched, lastWaitcnt >>

Complete(un, x) ==
  LET inst == Prog[x.pc]
      now  == IF inst.barrier THEN arrived \cup {x.slot} ELSE arrived
      free == now = Slots
  IN
  /\ phase = "units"
  /\ x \in units[un]
  /\ units' = [units EXCEPT ![un] = @ \ {x}]
  /\ \E past \in SUBSET PastWords : SB!ReleaseRegisters(x.slot, inst, past)
  /\ entry' = [t \in Entries |->
                 [entry[t] EXCEPT
                    !.cnt = @ - (IF t = x.slot /\ inst.mem THEN 1 ELSE 0),
                    !.done = @ \/ (t = x.slot /\ inst.endpgm),
                    !.barrierWait = @ /\ ~free]]
  /\ arrived' = IF free THEN {} ELSE now
  /\ released' = IF free THEN released + 1 ELSE released
  /\ retired' = [retired EXCEPT ![x.slot] = @ \cup {x.id}]
  /\ UNCHANGED << phase, cycle, i, processed, loop, wf, fbuf, sbuf, pbuf,
                  portFlags, normalList, specList, toSpec, toNormal, lastNormal,
                  lastSpec, lastIssued, lastFetched, lastWaitcnt >>

(* Run: reset the issue flags of the active pool and start its Issue.     *)
RunIssue ==
  /\ phase = "units"
  /\ cycle = 0
  /\ phase' = "issue"
  /\ portFlags' = FB!ResetExecutionUnitIssueFlag
  /\ i' = 0
  /\ processed' = 0
  /\ UNCHANGED << cycle, loop, wf, entry, fbuf, sbuf, pbuf, units, normalList,
                  specList, toSpec, toNormal, lastNormal, lastSpec, lastIssued, lastFetched,
                  arrived, released, lastWaitcnt, retired, sbVars, fatal >>

(* Run: another pool issues this cycle; go on to Fetch.                   *)
RunNoIssue ==
  /\ phase = "units"
  /\ cycle # 0
  /\ phase' = "fetch"
  /\ i' = 0
  /\ processed' = 0
  /\ UNCHANGED << cycle, loop, wf, entry, fbuf, sbuf, pbuf, units, portFlags,
                  normalList, specList, toSpec, toNormal, lastNormal, lastSpec, lastIssued,
                  lastFetched, arrived, released, lastWaitcnt, retired, sbVars,
                  fatal >>

(***************************************************************************)
(* Issue, list mode.  The list sizes are read once, before the loop; the  *)
(* moves between the lists are collected and applied after it.            *)
(***************************************************************************)
NSize == IL!SizeOf(normalList)
SSize == IL!SizeOf(specList)
Total == NSize + SSize

(* C++ % of a non-negative dividend: the sign of the divisor is dropped.  *)
CMod(a, b) == a % (IF b < 0 THEN -b ELSE b)

(* C++ % of an int by a positive int: the result has the dividend's sign. *)
CRem(a, b) == IF a >= 0 THEN a % b ELSE -((-a) % b)

(* The entry index of iteration i: getNormalListIndexValue or             *)
(* getSpeculationListIndexValue of the rotated list index.                *)
(* In index mode, (last_issued_wavefront_index + i) % pool size, an int, *)
(* converted to unsigned: a negative value stands for 2^32 plus it, far   *)
(* past the pool.                                                         *)
Candidate ==
  IF IssueMode = 1 THEN CRem(lastIssued + i, PoolSize)
  ELSE IF i < NSize THEN IL!IndexValue(normalList, (lastNormal + i) % NSize)
  ELSE IL!IndexValue(specList, CMod(lastSpec + (i - NSize), SSize))

(* The iterations of a pass: the pool's entries in index mode, the two   *)
(* list sizes read before the loop in list mode.                          *)
IssueBound == IF IssueMode = 1 THEN PoolSize ELSE Total

IssueRunning == phase = "issue" /\ i < IssueBound /\ processed < IssueWidth

(* Fault-injection variant: mem_wait clears with accesses outstanding.    *)
MemWaitClearsEarly(e) == e.memWait

(* No outstanding accesses: mem_wait is cleared.                          *)
MemWaitClears(e) == e.memWait /\ e.cnt = 0

(* Fault-injection variant: the stall ignores the counters.               *)
MemStallAlways(e) == e.memWait

(* A normal-mode wavefront still waiting on memory stalls the whole pass; *)
(* a speculative one goes on to the checks below.                         *)
MemStall(e) == e.memWait /\ ~MemWaitClears(e) /\ e.mode = 0

(* Clearing mem_wait returns a speculative entry to normal mode and       *)
(* queues it on speculation_to_normal_value in list mode.  (Index mode    *)
(* sets the entry's specuation_to_normal flag, which nothing reads.)      *)
AfterMemWait(e) ==
  IF MemWaitClears(e) THEN [e EXCEPT !.memWait = FALSE, !.mode = 0] ELSE e
BackToNormal(s) ==
  IF IssueMode = 0 /\ MemWaitClears(entry[s]) /\ entry[s].mode = 1
    THEN Append(toNormal, s) ELSE toNormal

(* Mutant: the barrier skip is left out.                                  *)
NotIssuableNoBarrier(s, e) ==
  \/ IssueMode = 0 /\ NSize > 0 /\ i >= NSize
  \/ ModeBuf(s, e) = << >>
  \/ s \notin Slots

(* The continue statements between the mem_wait check and the collision  *)
(* check: in list mode a speculation-list entry while normal entries     *)
(* exist; an entry at a barrier, an empty buffer entry, an entry with no  *)
(* wavefront.                                                              *)
NotIssuable(s, e) ==
  \/ IssueMode = 0 /\ NSize > 0 /\ i >= NSize
  \/ e.barrierWait
  \/ ModeBuf(s, e) = << >>
  \/ s \notin Slots

(* The entry reached by the pass and not stalled by it.                   *)
Visiting == Candidate \in Entries /\ ~MemStall(entry[Candidate])

HeadUop(s) == Head(ModeBuf(s, AfterMemWait(entry[s])))
HeadInst(s) == Prog[HeadUop(s).pc]

(* IssueToExecutionUnit hands the uop over only once it is fetch-ready.   *)
FetchReady(u) == u.lat = 0

(* The guard of every port block: the unit accepts a uop and the fetch    *)
(* buffer has not issued to it this cycle.                                *)
PortAccepts(un) == CanIssue(un) /\ ~FB!IssuedFlag(portFlags, un)

IssueStall ==
  /\ IssueRunning
  /\ Candidate \in Entries
  /\ MemStall(entry[Candidate])
  /\ i' = IssueBound
  /\ UNCHANGED << phase, cycle, processed, loop, wf, entry, fbuf, sbuf, pbuf,
                  units, portFlags, normalList, specList, toSpec, toNormal,
                  lastNormal, lastSpec, lastIssued, lastFetched, arrived, released, lastWaitcnt,
                  retired, sbVars, fatal >>

IssueSkip ==
  /\ IssueRunning
  /\ Visiting
  /\ LET s == Candidate
         e == AfterMemWait(entry[s])
     IN /\ NotIssuable(s, e)
        /\ entry' = [entry EXCEPT ![s] = e]
        /\ toNormal' = BackToNormal(s)
  /\ i' = i + 1
  /\ UNCHANGED << phase, cycle, processed, loop, wf, fbuf, sbuf, pbuf, units,
                  portFlags, normalList, specList, toSpec, lastNormal, lastSpec, lastIssued,
                  lastFetched, arrived, released, lastWaitcnt, retired, sbVars,
                  fatal >>

(* A collision skips the entry; one with a long-latency write in flight  *)
(* also sets long_operation_wait.                                          *)
IssueCollide ==
  /\ IssueRunning
  /\ Visiting
  /\ LET s == Candidate
         e == AfterMemWait(entry[s])
     IN /\ ~NotIssuable(s, e)
        /\ SB!CheckCollision(s, HeadInst(s))
        /\ entry' = [entry EXCEPT ![s] =
                       [e EXCEPT !.longWait = @ \/ SB!IsLongOpCollision(s, HeadInst(s))]]
        /\ toNormal' = BackToNormal(s)
  /\ i' = i + 1
  /\ UNCHANGED << phase, cycle, processed, loop, wf, fbuf, sbuf, pbuf, units,
                  portFlags, normalList, specList, toSpec, lastNormal, lastSpec, lastIssued,
                  lastFetched, arrived, released, lastWaitcnt, retired, sbVars,
                  fatal >>

(* The five port blocks: the uop's unit accepts it and has not issued     *)
(* this cycle.  IssueToExecutionUnit moves the uop, from the speculation  *)
(* buffer in speculative mode, only once it is fetch-ready, but the       *)
(* caller sets the flag, counts the instruction, reserves the registers   *)
(* and arms mem_wait / wait_for_barrier either way.  An s_waitcnt with a  *)
(* hint file also switches the entry to speculative mode and queues it on *)
(* normal_to_speculation_value.  The unit's Issue counts a memory access  *)
(* as outstanding.                                                         *)
IssueUop ==
  /\ IssueRunning
  /\ Visiting
  /\ LET s     == Candidate
         e     == AfterMemWait(entry[s])
         u     == HeadUop(s)
         inst  == Prog[u.pc]
         un    == inst.unit
         moved == FetchReady(u)
         wait  == un = "scalar" /\ inst.memWait
         bar   == un = "scalar" /\ inst.barrier
     IN /\ ~NotIssuable(s, e)
        /\ ~SB!CheckCollision(s, inst)
        /\ PortAccepts(un)
        /\ IF Speculative(e)
             THEN /\ sbuf' = IF moved THEN FB!RemoveUop(sbuf, s, 1) ELSE sbuf
                  /\ UNCHANGED fbuf
             ELSE /\ fbuf' = IF moved THEN FB!RemoveUop(fbuf, s, 1) ELSE fbuf
                  /\ UNCHANGED sbuf
        /\ units' = IF moved
                      THEN [units EXCEPT ![un] = @ \cup {[slot |-> s, pc |-> u.pc, id |-> u.id]}]
                      ELSE units
        /\ entry' = [entry EXCEPT ![s] =
                       [e EXCEPT !.cnt = @ + (IF moved /\ inst.mem THEN 1 ELSE 0),
                                 !.memWait = @ \/ wait,
                                 !.mode = IF wait /\ ~HintEmpty THEN 1 ELSE @,
                                 !.barrierWait = @ \/ bar]]
        /\ toSpec' = IF wait /\ ~HintEmpty /\ IssueMode = 0 THEN Append(toSpec, s) ELSE toSpec
        /\ toNormal' = BackToNormal(s)
        /\ portFlags' = FB!SetIssuedFlag(portFlags, un)
        /\ processed' = processed + 1
        /\ SB!ReserveRegisters(s, inst)
        /\ fatal' = (fatal \/ SB!ReserveFails(s, inst) \/ (bar /\ e.barrierWait))
        /\ lastWaitcnt' = IF moved /\ inst.memWait
                            THEN [lastWaitcnt EXCEPT ![s] = u.id] ELSE lastWaitcnt
  /\ i' = i + 1
  /\ UNCHANGED << phase, cycle, loop, wf, pbuf, normalList, specList, lastNormal,
                  lastSpec, lastIssued, lastFetched, arrived, released, retired >>

(* No port took the uop.  In list mode without a hint file the pass ends *)
(* here once one instruction has issued.                                  *)
IssueNoPort ==
  /\ IssueRunning
  /\ Visiting
  /\ LET s  == Candidate
         e  == AfterMemWait(entry[s])
         un == HeadInst(s).unit
     IN /\ ~NotIssuable(s, e)
        /\ ~SB!CheckCollision(s, HeadInst(s))
        /\ ~PortAccepts(un)
        /\ entry' = [entry EXCEPT ![s] = e]
        /\ toNormal' = BackToNormal(s)
  /\ i' = IF IssueMode = 0 /\ HintEmpty /\ processed = 1 THEN Total ELSE i + 1
  /\ UNCHANGED << phase, cycle, processed, loop, wf, fbuf, sbuf, pbuf, units,
                  portFlags, normalList, specList, toSpec, lastNormal, lastSpec, lastIssued,
                  lastFetched, arrived, released, lastWaitcnt, retired, sbVars,
                  fatal >>

(* The deferred moves: each entry of normal_to_speculation_value is       *)
(* erased from the normal list and appended to the speculation list, then *)
(* each entry of speculation_to_normal_value is erased from the           *)
(* speculation list and appended to the normal list.  A pair of lists    *)
(* << normal, speculation >> is threaded through the two loops.            *)
MoveToSpeculation(ls, v) == << IL!EraseNormalList(ls[1], v), IL!PushBack(ls[2], v) >>
MoveToNormal(ls, v) ==
  LET r == IL!EraseSpeculationList(ls[1], ls[2], v)
  IN << IL!PushBack(r[1], v), r[2] >>
ApplyMoves(ls) ==
  Seqs!FoldLeft(MoveToNormal, Seqs!FoldLeft(MoveToSpeculation, ls, toSpec), toNormal)

(* After the pass, in list mode: apply the moves, then rotate the list   *)
(* cursors by the new sizes.  In index mode: advance                      *)
(* last_issued_wavefront_index by one, modulo the pool size.  Then Fetch. *)
IssueEnd ==
  /\ phase = "issue"
  /\ i >= IssueBound \/ processed = IssueWidth
  /\ IF IssueMode = 1
       THEN /\ lastIssued' = CRem(lastIssued + 1, PoolSize)
            /\ UNCHANGED << normalList, specList, lastNormal, lastSpec >>
       ELSE LET ls == ApplyMoves(<< normalList, specList >>)
            IN /\ normalList' = ls[1]
               /\ specList' = ls[2]
               /\ lastNormal' = IF IL!SizeOf(ls[1]) > 0
                                  THEN (lastNormal + 1) % IL!SizeOf(ls[1]) ELSE 0
               /\ lastSpec' = IF IL!SizeOf(ls[2]) > 0
                                THEN (lastSpec + 1) % IL!SizeOf(ls[2]) ELSE 0
               /\ UNCHANGED lastIssued
  /\ toSpec' = << >>
  /\ toNormal' = << >>
  /\ phase' = "fetch"
  /\ i' = 0
  /\ processed' = 0
  /\ UNCHANGED << cycle, loop, wf, entry, fbuf, sbuf, pbuf, units, portFlags,
                  lastFetched, arrived, released, lastWaitcnt, retired, sbVars,
                  fatal >>

(***************************************************************************)
(* Fetch.  Every pool fetches every cycle; an iteration visits one entry. *)
(***************************************************************************)

(* Fault-injection variant: IsFullEntry one slot too late.                *)
FullLate(s) == Len(ModeBuf(s, entry[s])) > BufCap

(* FetchBuffer::IsFullEntry of the entry's buffer for its mode.           *)
Full(s) == Len(ModeBuf(s, entry[s])) = BufCap

FetchRunning == phase = "fetch" /\ i < PoolSize /\ processed < FetchWidth

(* The entry of iteration i; at i = 0 a full entry is passed over once.   *)
FetchSlot ==
  LET first == (lastFetched + i) % PoolSize
  IN IF Full(first) /\ i = 0 THEN (first + 1) % PoolSize ELSE first

(* The entry has a running wavefront and room in its buffer.              *)
Fetchable(s) ==
  /\ ~Full(s)
  /\ IF s \in Slots THEN ~entry[s].done /\ ~wf[s].finished ELSE FALSE

(* Wavefront::Execute, taking the branch to n.                            *)
Execute(s, n) ==
  [pc |-> n, finished |-> Prog[wf[s].pc].endpgm, nextId |-> wf[s].nextId + 1]
NewUop(s) == [pc |-> wf[s].pc, id |-> wf[s].nextId, lat |-> FetchLatency]

(* fetch_ready = cycle + fetch_latency, set when a uop enters the fetch   *)
(* or speculation buffer; in the pre-execution buffer it is never read.  *)
Ready(u) == [u EXCEPT !.lat = FetchLatency]
Parked(u) == [u EXCEPT !.lat = 0]

FetchFull ==
  /\ FetchRunning
  /\ Full(FetchSlot)
  /\ lastFetched' = FetchSlot
  /\ i' = PoolSize
  /\ UNCHANGED << phase, cycle, processed, loop, wf, entry, fbuf, sbuf, pbuf,
                  units, portFlags, normalList, specList, toSpec, toNormal,
                  lastNormal, lastSpec, lastIssued, arrived, released, lastWaitcnt, retired,
                  sbVars, fatal >>

FetchSkip ==
  /\ FetchRunning
  /\ LET s == FetchSlot
     IN ~Full(s) /\ ~Fetchable(s)
  /\ i' = i + 1
  /\ UNCHANGED << phase, cycle, processed, loop, wf, entry, fbuf, sbuf, pbuf,
                  units, portFlags, normalList, specList, toSpec, toNormal,
                  lastNormal, lastSpec, lastIssued, lastFetched, arrived, released, lastWaitcnt,
                  retired, sbVars, fatal >>

(* Fault-injection variant: the uop records the pc after the step.        *)
FetchUopLatePC ==
  /\ FetchRunning
  /\ HintEmpty
  /\ LET s == FetchSlot
     IN /\ Fetchable(s)
        /\ \E n \in Successors(wf[s].pc) :
              /\ wf' = [wf EXCEPT ![s] = Execute(s, n)]
              /\ fbuf' = FB!AddUop(fbuf, s, [NewUop(s) EXCEPT !.pc = n])
        /\ lastFetched' = s
  /\ processed' = processed + 1
  /\ i' = i + 1
  /\ UNCHANGED << phase, cycle, loop, entry, sbuf, pbuf, units, portFlags,
                  normalList, specList, toSpec, toNormal, lastNormal, lastSpec, lastIssued,
                  arrived, released, lastWaitcnt, retired, sbVars, fatal >>

(* No hint file: emulate one instruction and append its uop, ready        *)
(* FetchLatency cycles later.                                             *)
FetchUop ==
  /\ FetchRunning
  /\ HintEmpty
  /\ LET s == FetchSlot
     IN /\ Fetchable(s)
        /\ \E n \in Successors(wf[s].pc) : wf' = [wf EXCEPT ![s] = Execute(s, n)]
        /\ fbuf' = FB!AddUop(fbuf, s, NewUop(s))
        /\ lastFetched' = s
  /\ processed' = processed + 1
  /\ i' = i + 1
  /\ UNCHANGED << phase, cycle, loop, entry, sbuf, pbuf, units, portFlags,
                  normalList, specList, toSpec, toNormal, lastNormal, lastSpec, lastIssued,
                  arrived, released, lastWaitcnt, retired, sbVars, fatal >>

(***************************************************************************)
(* Fetch with a hint file, speculative mode (execution_mode 1).  The     *)
(* uops in the fetch buffer entry are drained to the pre-execution        *)
(* buffer, the hint of pre_fetch_pc gives target_pc, and then: a target   *)
(* at or ahead of the wavefront's pc starts the pre-execution loop; a    *)
(* target of 0 (no hint) ends the iteration with continue; a target      *)
(* behind the pc moves the pre-executed uop at that pc to the            *)
(* speculation buffer.                                                    *)
(***************************************************************************)
(* Mutant: the drain removes the uops from the fetch buffer without      *)
(* adding them to the pre-execution buffer.                               *)
DrainedDrops(s) == pbuf[s]

Drained(s) == pbuf[s] \o [k \in 1 .. Len(fbuf[s]) |-> Parked(fbuf[s][k])]

(* The hint lookup: a pc without a hint gives mode 0, offset 0 and a      *)
(* pre_fetch_pc of 0; mode 1 takes offset1 when the wavefront's pc is     *)
(* the one after pre_fetch_pc, offset2 otherwise.                         *)
SpecTarget(s) ==
  LET pf   == entry[s].preFetchPc
      hit  == pf \in DOMAIN Hints
      base == IF hit THEN pf ELSE 0
      h    == IF hit THEN Hints[pf] ELSE [mode |-> 0, offset1 |-> 0, offset2 |-> 0]
      off  == IF h.mode = 1 /\ Addr(wf[s].pc) # base + 4 THEN h.offset2 ELSE h.offset1
  IN base + off

SpecFetching(s) ==
  /\ FetchRunning
  /\ s = FetchSlot
  /\ Fetchable(s)
  /\ Speculative(entry[s])

FetchSpecAhead ==
  \E s \in Slots :
     /\ SpecFetching(s)
     /\ SpecTarget(s) >= Addr(wf[s].pc)
     /\ pbuf' = [pbuf EXCEPT ![s] = Drained(s)]
     /\ fbuf' = [fbuf EXCEPT ![s] = << >>]
     /\ loop' = [slot |-> s, target |-> SpecTarget(s)]
     /\ phase' = "prex"
     /\ UNCHANGED << cycle, i, processed, wf, entry, sbuf, units, portFlags,
                     normalList, specList, toSpec, toNormal, lastNormal, lastSpec, lastIssued,
                     lastFetched, arrived, released, lastWaitcnt, retired, sbVars,
                     fatal >>

(* while (wavefront->getPC() <= target_pc): execute; the uop at target_pc *)
(* goes to the speculation buffer, every other one to the pre-execution  *)
(* buffer, with no capacity check.                                        *)
PrexStep ==
  LET s == loop.slot
      u == NewUop(s)
  IN
  /\ phase = "prex"
  /\ Addr(wf[s].pc) <= loop.target
  /\ \E n \in Successors(wf[s].pc) : wf' = [wf EXCEPT ![s] = Execute(s, n)]
  /\ IF Addr(u.pc) = loop.target
       THEN sbuf' = FB!AddUop(sbuf, s, Ready(u)) /\ UNCHANGED pbuf
       ELSE pbuf' = FB!AddUop(pbuf, s, Parked(u)) /\ UNCHANGED sbuf
  /\ UNCHANGED << phase, cycle, i, processed, loop, entry, fbuf, units, portFlags,
                  normalList, specList, toSpec, toNormal, lastNormal, lastSpec, lastIssued,
                  lastFetched, arrived, released, lastWaitcnt, retired, sbVars,
                  fatal >>

(* The loop is done: pre_fetch_pc = target_pc, and the iteration ends.    *)
PrexEnd ==
  LET s == loop.slot
  IN
  /\ phase = "prex"
  /\ Addr(wf[s].pc) > loop.target
  /\ entry' = [entry EXCEPT ![s].preFetchPc = loop.target]
  /\ loop' = [slot |-> 0, target |-> 0]
  /\ phase' = "fetch"
  /\ processed' = processed + 1
  /\ lastFetched' = s
  /\ i' = i + 1
  /\ UNCHANGED << cycle, wf, fbuf, sbuf, pbuf, units, portFlags, normalList,
                  specList, toSpec, toNormal, lastNormal, lastSpec, lastIssued, arrived, released,
                  lastWaitcnt, retired, sbVars, fatal >>

FetchSpecNone ==
  \E s \in Slots :
     /\ SpecFetching(s)
     /\ SpecTarget(s) < Addr(wf[s].pc)
     /\ SpecTarget(s) = 0
     /\ pbuf' = [pbuf EXCEPT ![s] = Drained(s)]
     /\ fbuf' = [fbuf EXCEPT ![s] = << >>]
     /\ i' = i + 1
     /\ UNCHANGED << phase, cycle, processed, loop, wf, entry, sbuf, units,
                     portFlags, normalList, specList, toSpec, toNormal,
                     lastNormal, lastSpec, lastIssued, lastFetched, arrived, released, lastWaitcnt,
                     retired, sbVars, fatal >>

FetchSpecBehind ==
  \E s \in Slots :
     LET t   == SpecTarget(s)
         pre == Drained(s)
         k   == Seqs!SelectInSeq(pre, LAMBDA u : Addr(u.pc) = t)
     IN
     /\ SpecFetching(s)
     /\ t < Addr(wf[s].pc)
     /\ t # 0
     /\ pbuf' = [pbuf EXCEPT ![s] = IF k > 0 THEN Seqs!RemoveAt(pre, k) ELSE pre]
     /\ sbuf' = IF k > 0 THEN FB!AddUop(sbuf, s, Ready(pre[k])) ELSE sbuf
     /\ fbuf' = [fbuf EXCEPT ![s] = << >>]
     /\ entry' = [entry EXCEPT ![s].preFetchPc = t]
     /\ processed' = processed + 1
     /\ lastFetched' = s
     /\ i' = i + 1
     /\ UNCHANGED << phase, cycle, loop, wf, units, portFlags, normalList,
                     specList, toSpec, toNormal, lastNormal, lastSpec, lastIssued, arrived, released,
                     lastWaitcnt, retired, sbVars, fatal >>

(***************************************************************************)
(* Fetch with a hint file, normal mode (execution_mode 0).  While the     *)
(* pre-execution or speculation buffer holds uops, one of them moves to   *)
(* the fetch buffer: with both non-empty, the oldest pre-executed uop if  *)
(* its pc is below the lowest pc of the speculation buffer (the first of  *)
(* equal lowest pcs), else that speculative uop; with one non-empty, the  *)
(* oldest pre-executed or the lowest speculative uop.  Only with both     *)
(* empty is an instruction emulated, and an s_waitcnt fetched so records  *)
(* its pc as pre_fetch_pc.                                                 *)
(***************************************************************************)
NormalFetching(s) ==
  /\ FetchRunning
  /\ ~HintEmpty
  /\ s = FetchSlot
  /\ Fetchable(s)
  /\ entry[s].mode = 0

LowestSpec(s) ==
  Seqs!SelectInSeq(sbuf[s], LAMBDA u : \A k \in 1 .. Len(sbuf[s]) : u.pc <= sbuf[s][k].pc)

(* Mutant: the comparison of the two candidates' pcs is the wrong way.  *)
TakesPreSwapped(s) == Head(pbuf[s]).pc > sbuf[s][LowestSpec(s)].pc

(* Both buffers hold uops: the pre-executed one goes first if its pc is  *)
(* below the lowest speculative pc.                                        *)
TakesPre(s) == Head(pbuf[s]).pc < sbuf[s][LowestSpec(s)].pc

(* The moves into the fetch buffer, fetch-ready fetch_latency cycles on. *)
FromPre(s) ==
  /\ fbuf' = FB!AddUop(fbuf, s, Ready(Head(pbuf[s])))
  /\ pbuf' = FB!RemoveUop(pbuf, s, 1)
FromSpec(s) ==
  /\ fbuf' = FB!AddUop(fbuf, s, Ready(sbuf[s][LowestSpec(s)]))
  /\ sbuf' = FB!RemoveUop(sbuf, s, LowestSpec(s))

(* The end of an iteration that fetched: instructions_processed++ and    *)
(* setLastFetchedWavefrontIndex(index).                                    *)
Fetched(s) ==
  /\ processed' = processed + 1
  /\ lastFetched' = s
  /\ i' = i + 1

FetchReconcilePre ==
  \E s \in Slots :
     /\ NormalFetching(s)
     /\ ~IsEmptyEntry(pbuf, s) /\ ~IsEmptyEntry(sbuf, s)
     /\ TakesPre(s)
     /\ FromPre(s) /\ Fetched(s)
     /\ UNCHANGED << phase, cycle, loop, wf, entry, sbuf, units, portFlags,
                     normalList, specList, toSpec, toNormal, lastNormal,
                     lastSpec, lastIssued, arrived, released, lastWaitcnt, retired,
                     sbVars, fatal >>

FetchReconcileSpec ==
  \E s \in Slots :
     /\ NormalFetching(s)
     /\ ~IsEmptyEntry(pbuf, s) /\ ~IsEmptyEntry(sbuf, s)
     /\ ~TakesPre(s)
     /\ FromSpec(s) /\ Fetched(s)
     /\ UNCHANGED << phase, cycle, loop, wf, entry, pbuf, units, portFlags,
                     normalList, specList, toSpec, toNormal, lastNormal,
                     lastSpec, lastIssued, arrived, released, lastWaitcnt, retired,
                     sbVars, fatal >>

FetchPreOnly ==
  \E s \in Slots :
     /\ NormalFetching(s)
     /\ ~IsEmptyEntry(pbuf, s) /\ IsEmptyEntry(sbuf, s)
     /\ FromPre(s) /\ Fetched(s)
     /\ UNCHANGED << phase, cycle, loop, wf, entry, sbuf, units, portFlags,
                     normalList, specList, toSpec, toNormal, lastNormal,
                     lastSpec, lastIssued, arrived, released, lastWaitcnt, retired,
                     sbVars, fatal >>

FetchSpecOnly ==
  \E s \in Slots :
     /\ NormalFetching(s)
     /\ IsEmptyEntry(pbuf, s) /\ ~IsEmptyEntry(sbuf, s)
     /\ FromSpec(s) /\ Fetched(s)
     /\ UNCHANGED << phase, cycle, loop, wf, entry, pbuf, units, portFlags,
                     normalList, specList, toSpec, toNormal, lastNormal,
                     lastSpec, lastIssued, arrived, released, lastWaitcnt, retired,
                     sbVars, fatal >>

(* Mutant: an emulated s_waitcnt does not record pre_fetch_pc.           *)
FetchExecute ==
  \E s \in Slots :
     /\ NormalFetching(s)
     /\ IsEmptyEntry(pbuf, s)
     /\ IsEmptyEntry(sbuf, s)
     /\ \E n \in Successors(wf[s].pc) : wf' = [wf EXCEPT ![s] = Execute(s, n)]
     /\ fbuf' = FB!AddUop(fbuf, s, NewUop(s))
     /\ entry' = IF Prog[wf[s].pc].memWait
                   THEN [entry EXCEPT ![s].preFetchPc = Addr(wf[s].pc)] ELSE entry
     /\ processed' = processed + 1
     /\ lastFetched' = s
     /\ i' = i + 1
     /\ UNCHANGED << phase, cycle, loop, sbuf, pbuf, units, portFlags,
                     normalList, specList, toSpec, toNormal, lastNormal,
                     lastSpec, lastIssued, arrived, released, lastWaitcnt, retired, sbVars,
                     fatal >>

(* The cycle ends: the clock advances, bringing the uops of the fetch    *)
(* and speculation buffers closer to their fetch_ready cycle.             *)
Tick(b) ==
  [s \in Entries |-> [k \in 1 .. Len(b[s]) |->
                        [b[s][k] EXCEPT !.lat = IF @ > 0 THEN @ - 1 ELSE 0]]]

FetchEnd ==
  /\ phase = "fetch"
  /\ i >= PoolSize \/ processed = FetchWidth
  /\ cycle' = (cycle + 1) % NumPools
  /\ fbuf' = Tick(fbuf)
  /\ sbuf' = Tick(sbuf)
  /\ phase' = "units"
  /\ i' = 0
  /\ processed' = 0
  /\ UNCHANGED << loop, wf, entry, pbuf, units, portFlags, normalList, specList,
                  toSpec, toNormal, lastNormal, lastSpec, lastIssued, lastFetched, arrived, released,
                  lastWaitcnt, retired, sbVars, fatal >>

(***************************************************************************)
(* The state right after MapWorkGroup has bound the wavefronts of the     *)
(* work-group to the first entries of the pool and listed them as normal. *)
(***************************************************************************)
(* A WavefrontPoolEntry as its member initialisers leave it: no memory  *)
(* wait, no barrier, no outstanding access, not finished, normal mode,   *)
(* pre_fetch_pc 0, no long-operation wait.                                *)
NewEntry ==
  [memWait |-> FALSE, barrierWait |-> FALSE, cnt |-> 0, done |-> FALSE,
   mode |-> 0, preFetchPc |-> 0, longWait |-> FALSE]

Init ==
  /\ phase = "units"
  /\ cycle = 0
  /\ i = 0
  /\ processed = 0
  /\ loop = [slot |-> 0, target |-> 0]
  /\ wf = [s \in Slots |-> [pc |-> 1, finished |-> FALSE, nextId |-> 1]]
  /\ entry = [s \in Entries |-> NewEntry]
  /\ fbuf = FB!EmptyBuffer(Entries)
  /\ sbuf = FB!EmptyBuffer(Entries)
  /\ pbuf = FB!EmptyBuffer(Entries)
  /\ units = [un \in Units |-> {}]
  /\ portFlags = {}
  /\ normalList = [elems |-> [k \in 1 .. NSlots |-> k - 1], size |-> NSlots]
  /\ specList = IL!EmptyList
  /\ toSpec = << >>
  /\ toNormal = << >>
  /\ lastNormal = 0
  /\ lastSpec = 0
  /\ lastIssued = FB!LastIssuedInit
  /\ lastFetched = FB!LastFetchedInit
  /\ arrived = {}
  /\ released = 0
  /\ lastWaitcnt = [s \in Slots |-> 0]
  /\ retired = [s \in Slots |-> {}]
  /\ SB!Init

Pipeline ==
  \/ RunIssue \/ RunNoIssue
  \/ IssueStall \/ IssueSkip \/ IssueCollide \/ IssueUop
  \/ IssueNoPort \/ IssueEnd
  \/ FetchFull \/ FetchSkip \/ FetchUop
  \/ FetchSpecAhead \/ PrexStep \/ PrexEnd \/ FetchSpecNone \/ FetchSpecBehind
  \/ FetchReconcilePre \/ FetchReconcileSpec \/ FetchPreOnly \/ FetchSpecOnly
  \/ FetchExecute
  \/ FetchEnd

CompleteAny == \E un \in Units : \E x \in units[un] : Complete(un, x)

Next == Pipeline \/ CompleteAny

(* The simulator loop always runs its next step; every uop an execution  *)
(* unit holds completes after a finite latency.                          *)
Fairness == WF_vars(Pipeline) /\ SF_vars(CompleteAny)

Spec == Init /\ [][Next]_vars /\ Fairness

(***************************************************************************)
(* Properties                                                              *)
(***************************************************************************)

Uops == [pc : PCs, id : 1 .. Len(Prog), lat : 0 .. FetchLatency]

TypeOK ==
  /\ phase \in {"units", "issue", "fetch", "prex"}
  /\ cycle \in 0 .. NumPools - 1
  /\ wf \in [Slots -> [pc : 1 .. Len(Prog) + 1, finished : BOOLEAN,
                       nextId : 1 .. Len(Prog) + 1]]
  /\ entry \in [Entries -> [memWait : BOOLEAN, barrierWait : BOOLEAN, cnt : Nat,
                            done : BOOLEAN, mode : {0, 1}, preFetchPc : Nat,
                            longWait : BOOLEAN]]
  /\ \A s \in Entries : /\ fbuf[s] \in Seq(Uops) /\ sbuf[s] \in Seq(Uops)
                        /\ pbuf[s] \in Seq(Uops)
  /\ \A un \in Units : units[un] \subseteq [slot : Slots, pc : PCs, id : 1 .. Len(Prog)]
  /\ portFlags \subseteq Units
  /\ {normalList, specList} \subseteq [elems : Seq(Int), size : Int]
  /\ {toSpec, toNormal} \subseteq Seq(Entries)
  /\ lastIssued \in -1 .. PoolSize - 1
  /\ released \in 0 .. Len(Prog)

(* Every staging buffer entry holds at most num_slots_per_entry uops      *)
(* (spec 3): Fetch checks IsFullEntry of the fetch or speculation buffer  *)
(* before it adds a uop; the pre-execution buffer takes what the drain    *)
(* and the pre-execution loop give it.                                     *)
BuffersBounded ==
  \A s \in Entries :
     Len(fbuf[s]) <= BufCap /\ Len(sbuf[s]) <= BufCap /\ Len(pbuf[s]) <= BufCap

(* A uop is owned by exactly one place at a time (spec 3, 9): every uop  *)
(* the emulator has produced for a wavefront is in exactly one of its     *)
(* fetch, speculation and pre-execution buffer entries, an execution      *)
(* unit, or completed.  The drain, the pre-execution loop, the moves of   *)
(* reconcile and of a target behind the pc, and issue must all move.      *)
Ids(q) == [k \in 1 .. Len(q) |-> q[k].id]
UopConservation ==
  \A s \in Slots :
     LET owned  == Ids(fbuf[s] \o sbuf[s] \o pbuf[s])
         placed == {owned[k] : k \in 1 .. Len(owned)}
         issued == {x.id : x \in InFlight(s)}
     IN /\ \A j, k \in 1 .. Len(owned) : j # k => owned[j] # owned[k]
        /\ placed \cap (issued \cup retired[s]) = {}
        /\ issued \cap retired[s] = {}
        /\ placed \cup issued \cup retired[s] = 1 .. wf[s].nextId - 1

(* Within one buffer entry the uops are in ascending fetch order (spec   *)
(* 3), so the normal fetch buffer hands them to Issue in program order    *)
(* (spec 8).  A uop's id is the emulator's count, hence its fetch order.  *)
(* Reconcile chooses by pc and the drain appends the fetch buffer to the  *)
(* pre-execution buffer: both must keep the order.                         *)
InOrder(q) == \A j \in 1 .. Len(q) - 1 : q[j].id < q[j + 1].id
BuffersInFetchOrder ==
  \A s \in Slots : InOrder(fbuf[s]) /\ InOrder(sbuf[s]) /\ InOrder(pbuf[s])

(* The index a pass reads, from a list in list mode or computed from     *)
(* last_issued_wavefront_index in index mode, names an entry of the pool: *)
(* *(wavefront_pool->begin() + index) stays inside the vector.              *)
CandidateInPool == IssueRunning => Candidate \in Entries

(* The two index lists partition the wavefronts of the pool (spec 4.2):  *)
(* one pass visits every wavefront exactly once, counting through the    *)
(* normal list from its cursor and then through the speculation list.    *)
ListsPartition ==
  LET visitN == {IL!IndexValue(normalList, (lastNormal + k) % NSize) : k \in 0 .. NSize - 1}
      visitS == {IL!IndexValue(specList, CMod(lastSpec + k, SSize)) : k \in 0 .. SSize - 1}
  IN Total = NSlots /\ visitN \cup visitS = Slots

(* A register is in a slot's scoreboard exactly while a uop of that slot *)
(* that writes it is held by an execution unit: Issue reserves what it    *)
(* hands over, and completion releases it (spec 3, 8).                    *)
ScoreboardExact ==
  \A s \in Slots :
     /\ scalarTable[s] = UNION { SB!RegsOf(Prog[x.pc].dstS) : x \in InFlight(s) }
     /\ vectorTable[s] = UNION { SB!RegsOf(Prog[x.pc].dstV) : x \in InFlight(s) }

(* The long-latency tables hold exactly the destinations of the          *)
(* long-latency memory uops of the slot that an execution unit holds      *)
(* (spec 3, 4.1): ReserveRegisters adds them at issue and ReleaseRegisters *)
(* removes the same sets when the unit completes the uop, and nothing     *)
(* else.  A release that removed more would clear the long-operation      *)
(* collision of a load still in flight.                                    *)
LongOpExact ==
  \A s \in Slots :
     LET long == { x \in InFlight(s) : SB!LongLatency(Prog[x.pc]) }
     IN /\ longScalarTable[s] = UNION { SB!RegsOf(Prog[x.pc].dstS) : x \in long }
        /\ longVectorTable[s] = UNION { SB!RegsOf(Prog[x.pc].dstV) : x \in long }

(* s_waitcnt: no uop after an issued s_waitcnt is in an execution unit   *)
(* together with a memory access of the same wavefront from before it.    *)
WaitcntHonoured ==
  \A s \in Slots : \A y, z \in InFlight(s) :
     ~(Prog[z.pc].mem /\ z.id < lastWaitcnt[s] /\ lastWaitcnt[s] < y.id)

(* The s_barriers before instruction p in program order.                 *)
BarriersBefore(p) == Cardinality({ q \in 1 .. p - 1 : Prog[q].barrier })

(* s_barrier: no wavefront has an instruction past an s_barrier in an   *)
(* execution unit before the whole work-group has been released from     *)
(* that barrier (spec 4.4).  Issue enforces it alone: Fetch's barrier     *)
(* check is commented out (1273), so the emulator runs past s_barrier,    *)
(* and every issue path must skip an entry whose wait_for_barrier the     *)
(* issue of the s_barrier set (896-901, the skip at 727-728).  Every path *)
(* of the kernels goes through each of their barriers.                    *)
BarrierHonoured ==
  \A un \in Units : \A x \in units[un] : released >= BarriersBefore(x.pc)

(* When a uop is handed to a unit, no uop of the same wavefront still in *)
(* a unit writes a register it reads (read-after-write, spec 4.1).        *)
RAWSafe ==
  \A s \in Slots : \A y, z \in InFlight(s) :
     z.id < y.id =>
        /\ SB!RegsOf(Prog[y.pc].srcS) \cap SB!RegsOf(Prog[z.pc].dstS) = {}
        /\ SB!RegsOf(Prog[y.pc].srcV) \cap SB!RegsOf(Prog[z.pc].dstV) = {}

(* No two uops of one wavefront in the units write the same register      *)
(* (write-after-write, spec 4.1), register 0 included.                    *)
NoDoubleWrite ==
  \A s \in Slots : \A y, z \in InFlight(s) :
     y.id # z.id =>
        /\ SB!UsedRegs(Prog[y.pc].dstS) \cap SB!UsedRegs(Prog[z.pc].dstS) = {}
        /\ SB!UsedRegs(Prog[y.pc].dstV) \cap SB!UsedRegs(Prog[z.pc].dstV) = {}

(* Every wavefront runs to s_endpgm and all its uops complete.            *)
AllFinish ==
  <>(\A s \in Slots : wf[s].finished /\ fbuf[s] = << >> /\ InFlight(s) = {})

(* Fetch and issue refine the in-order front end.                         *)
FE == INSTANCE FrontEnd WITH
        pc <- [s \in Slots |-> wf[s].pc],
        finished <- [s \in Slots |-> wf[s].finished],
        pending <- [s \in Slots |-> [k \in 1 .. Len(fbuf[s]) |-> fbuf[s][k].pc]]

FrontEndRefined == FE!Spec

=============================================================================
