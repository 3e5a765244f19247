# TLA+ models of the Southern Islands compute-unit front end

These modules model the per-cycle front end of a Multi2Sim Southern Islands
compute unit with the speculation extension (`src/multi2sim/src/arch/southern-islands/timing`):
fetch with and without a hint file, issue in list and index mode, the
wavefront pool with its two index lists, the register scoreboard, the
decode of an instruction into its register footprint (Uop.cc), and the
mapping of work-groups onto the compute unit's slots and pools.

## The system

Each cycle, `ComputeUnit::Run` (ComputeUnit.cc 2254-2306) does four things in order:

1. It runs the execution units, where uops complete, release their scoreboard
   registers and decrement the wavefront's outstanding-access counters.
2. It resets the per-unit "issued this cycle" flags of the active pool
   (`cycle % num_wavefront_pools`).
3. It calls `Issue` for the active pool.
4. It calls `Fetch` for every pool.

Each pool has a `WavefrontPool`. Its entries hold `mem_wait`,
`wait_for_barrier`, the counters, the finished flag, `execution_mode` and
`pre_fetch_pc`. In list mode it also keeps two `std::list<int>` of entry
indices: the normal list and the speculation list.

Each pool has three `FetchBuffer`s, with per-slot queues of
`num_slots_per_entry` uops:
- the normal fetch buffer;
- the speculation fetch buffer;
- the pre-execution buffer.

There is one `ScoreBoard` per pool. Besides the short tables it keeps long
tables of the destinations of MTBUF/MUBUF/MIMG uops, which feed
`IsLongOpCollision` and the entry's `long_operation_wait`.

The GPU (not under src/) maps the work-groups of an NDRange onto compute
units that are on its available list: it takes the unit off the list and
calls `MapWorkGroup` (2030-2127), which picks the first free work-group slot
(`AddWorkGroup`, 2129-2163), puts the unit back on the list if the
`work_groups` vector is still below `WorkGroupsPerComputeUnit`, and places
the wavefronts in pool `slot % num_wavefront_pools`. When a work-group's
wavefronts have finished, `UnmapWorkGroup` (2166-2215) empties its slot and
puts the unit back on the list. The vector never shrinks.

- **Fetch** (1140-2027) walks the slots from `last_fetched_wavefront_index`.
  - **No hint file:** it emulates one instruction (`Wavefront::Execute`) and
    queues its uop with `fetch_ready = cycle + fetch_latency`.
  - **Hint file, speculative mode (`execution_mode` 1):**
    1. It drains the fetch buffer into the pre-execution buffer.
    2. It looks up the hint of `pre_fetch_pc`, giving `target_pc`.
    3. A target ahead of the pc runs the pre-execution loop. The uop at the
       target goes to the speculation buffer, the others to the
       pre-execution buffer.
    4. A target of 0 ends the iteration.
    5. A target behind the pc moves the pre-executed uop at the target to the
       speculation buffer.
  - **Hint file, normal mode:** while the pre-execution or speculation buffer
    holds uops, reconcile moves one of them to the fetch buffer. Otherwise it
    emulates, and an emulated `s_waitcnt` records its pc as `pre_fetch_pc`.
- **Issue** (145-1136) walks the slots.
  - Index mode (`issue_mode` 1) goes by pool index from
    `last_issued_wavefront_index`.
  - List mode (`issue_mode` 0) goes through the normal list, then the
    speculation list.

  At each slot it checks, in this order:
  1. the `mem_wait` stall or clear;
  2. the skips;
  3. `CheckCollision`.

  It then offers the head uop (from the speculation buffer in speculative
  mode) to the five ports. An issued `s_waitcnt` with a hint file switches the
  slot to speculative mode. In list mode the slot is queued for the
  speculation list; clearing `mem_wait` queues it back. The queued moves are
  applied after the pass.

## Modules

| Module | Models | State | Actions |
|---|---|---|---|
| `Scoreboard` | Scoreboard.cc | `scalarTable`, `vectorTable`, `longScalarTable`, `longVectorTable` per slot; `fatal` (a Panic was thrown) | `ReserveRegisters`, `ReleaseRegisters`, `CheckCollision`, `IsLongOpCollision` as operators used by ComputeUnit |
| `IndexList` | WavefrontPool.h 183-309: the two index lists | a list is `[elems, size]`: its nodes and the size counter of its header | `PushBack`, `EraseNormalList`, `EraseSpeculationList`, `IndexValue`, `SizeOf` as operators |
| `FrontEnd` | abstract: what fetch and issue promise each wavefront | `pc`, `finished`, `pending` per slot | `Fetch(s)`, `Issue(s)` in order |
| `ComputeUnit` | Run, Issue (both modes), Fetch (all paths) for the pool that holds the work-group; composes `Scoreboard`, `IndexList` and `FetchBuffer` (its three buffers) | see below | one action per loop iteration outcome |
| `UopDecode` | Uop.cc: the constructor's index arrays and `setInstructionRegistersIndex` | none: pure operators | `Decode(inst, m0)` gives the writes of the instruction's branch, `UopArrays` applies them to the four arrays |
| `MC_ComputeUnit` | kernels, written as encoded instructions with the register arrays their decode by `UopDecode` gives (checked by an ASSUME), and hint tables for TLC | | |
| `WorkGroupMap` | MapWorkGroup, AddWorkGroup, RemoveWorkGroup, UnmapWorkGroup (2030-2215) | `workGroups` (the slot vector), `idInCU`, `poolOf`, `available`; the GPU's `waiting`, `running`, `finished`; `failed` (an assert fired) | `Dispatch` (GPU takes the unit off the list, then `MapWorkGroup`), `Finish` (GPU, then `UnmapWorkGroup`) |
| `WorkGroupSlots` | abstract: what the lifecycle promises the GPU | `slotOf`, `waiting`, `running`, `finished` | `Map(wg, s)` into a free slot, `Unmap(wg)` |
| `FetchBuffer` | FetchBuffer.h, FetchBuffer.cc: the constructor, `addUop`, `Remove`, the issue flags and their reset | none: pure operators on an entry → sequence function and a set of units | `AddUop`, `RemoveUop`, `ResetExecutionUnitIssueFlag`, `SetIssuedFlag`, `IssuedFlag` |

`IndexList` follows libstdc++ with the C++11 ABI (the default since GCC 5).
There:
- `size()` returns a counter kept in the list header.
- `erase(it)` decrements the counter of the list it is called on, whichever
  list the node is in.
- Dereferencing the header reads the counter.

`eraseSpeculationList` calls `normal_wavefront_index_list.erase` on a node of
the speculation list. The model therefore unhooks the node from the
speculation list and decrements the normal list's counter.

`ReleaseRegisters` erases long-latency vector destinations for `i < 14`
(Scoreboard.cc 201) over the 4-entry `destination_vector_register_index`.
Uop.h, which would fix the layout behind the array, is not in the repository,
so the model lets the ten words read past it be any subset of the kernel's
vector register indices (`PastWords`). A run in which that choice decides
the outcome would show the model's choice, not the code's, so no run
checks what the over-read erases. `IsLongOpCollision` is called at
ComputeUnit.cc 293 and 772 but declared nowhere under src/; it is modelled
from spec 4.1 as a lookup of the uop's registers in the long tables.

`UopDecode` has one operator per instruction format, and separate operators
for groups such as the VOP3a compares, the v_movrel pair and the VOP2
carry-out subtractions. Opcodes with identical branches form one set. A
branch is a sequence of writes `[arr, idx, val]` in code order. An `if` in
the code is `When`, and `UopArrays` applies the writes to arrays of the
constructor's sizes: 4 source scalar, 16 destination scalar, 6 source vector
and 4 destination vector, all -1 at first. The setters, and
`setSourceRegisterIndex`, are in Uop.h, which is not in the repository.
`setSourceRegisterIndex` is modelled by the Southern Islands 9-bit operand
encoding: 256 and above is a vector register, below that a scalar register.
The special-register numbers of Instruction.h (SCC 253, VCC 106, VCCZ 251,
EXEC 126, EXECZ 252, M0 124) are given where MC_ComputeUnit instantiates
the module. The model keeps what the code does:
- the 32-bit SOP2 and SOPC branches test `ssrc0 != 0xFF` before recording
  `ssrc1`;
- the VCC branches read VCCZ, which no branch writes;
- the MUBUF loads record no address register;
- `buffer_store_byte` records `vdata` as a destination;
- `tbuffer_store_format_xyzw` records `vdata + 1` three times;
- MIMG records nothing.

The stores, the atomic and every MTBUF branch write source scalar position 4,
past the array (1733). Where that write lands depends on Uop.h, so
`OutOfBounds` names such writes and an ASSUME in MC_ComputeUnit keeps them
out of the kernels. The scoreboard now works on the real arrays. Its loops
run over the whole destination arrays, and `CheckCollision`'s two source
loops run `i < 4` (`SourceLoop`).

In MC_ComputeUnit each kernel instruction is written twice. It appears as
an encoded instruction record, and as the register arrays of its uop
(`...Fp`, built by `Footprint`). An ASSUME (`Decoded`) checks every pair:
the arrays must be exactly what `UD!UopArrays(UD!Decode(inst, 0))` gives.
The kernels carry the literal arrays, so TLC decodes each instruction once,
at start-up, and not at every state. With `-coverage`, TLC stops caching
constant definitions, and a decode at every access runs out of memory.
`ComputeUnit` takes the kernel as the constant `Kernel` and reads it
through the definition `Prog == Kernel`.

`WorkGroupMap` does not compose with `ComputeUnit`: what joins them is
`MapWavefronts`/`UnmapWavefronts` of WavefrontPool.cc, which is not under
src/. ComputeUnit starts in the state right after one `MapWorkGroup`.

### ComputeUnit state

- `phase`, `i` and `processed` are Run's position, the loop index of the
  running Issue or Fetch pass, and its `instructions_processed`. `phase` is
  "prex" while the pre-execution loop runs, and `loop` holds its slot and
  `target_pc`.
- `wf[s]` is the emulated wavefront: pc, finished, next uop id.
- `entry[s]` is the WavefrontPoolEntry:
  - `cnt` stands for `vm_cnt + exp_cnt + lgkm_cnt`;
  - `mode` is `execution_mode`;
  - `preFetchPc` is `pre_fetch_pc`;
  - every entry starts as `NewEntry`, the member initialisers of
    WavefrontPool.h.
- `fbuf`, `sbuf` and `pbuf` are the three buffers. They start as
  `FetchBuffer`'s constructor leaves them, and every move in or out goes
  through its `AddUop` and `RemoveUop`. Each uop records its pc,
  its id (the emulator's count, i.e. fetch order) and `lat`, the cycles left
  until `fetch_ready`.
- `units[u]` holds the uops an execution unit has, and `portFlags` the units
  issued to this cycle: the fetch buffer's issue flags, set with
  `SetIssuedFlag` and cleared by `ResetExecutionUnitIssueFlag`.
- The cursor and list state:
  - `normalList` and `specList` are the index lists;
  - `toSpec` and `toNormal` are the moves queued during the pass;
  - `lastNormal` and `lastSpec` are the list-mode cursors;
  - `lastIssued` is the index-mode cursor, starting at -1;
  - `lastFetched` is the fetch cursor.
- `arrived` is barrier bookkeeping, and `released` (a history variable)
  counts the barriers the work-group has been released from.
- `lastWaitcnt` and `retired` are history variables.

### ComputeUnit actions

| Action | Source (ComputeUnit.cc) |
|---|---|
| `Complete(un, x)` | Unit Run. Not under src/, modelled from the spec. |
| `RunIssue`, `RunNoIssue` | Run 2254-2306 |
| `IssueStall` | mem_wait stall 659-719; in index mode the same test at 180-226 |
| `IssueSkip` | the `continue`s at 721-748 |
| `IssueCollide` | 764-777, including `long_operation_wait` from `IsLongOpCollision` |
| `IssueUop` | the port blocks 779-1026; fetch_ready test in IssueToExecutionUnit 86-142 |
| `IssueNoPort` | 1027-1033 |
| `IssueEnd` | list moves and cursors 1064-1136; index-mode rotation at the end of its pass |
| `FetchFull`, `FetchSkip` | 1205-1271 |
| `FetchUop` | 1879-2025 (no hint file) |
| `FetchSpecAhead`, `PrexStep`, `PrexEnd` | 1277-1453 and 1514-1515 |
| `FetchSpecNone` | 1456-1460 |
| `FetchSpecBehind` | 1461-1513 |
| `FetchReconcilePre`, `FetchReconcileSpec` | 1520-1623 (both buffers hold uops) |
| `FetchPreOnly`, `FetchSpecOnly` | 1625-1730 |
| `FetchExecute` | 1731-1876 |
| `FetchEnd` | 2021-2027, plus the clock advancing |

Two collaborators are not under src/ and are modelled from the spec:
- The execution units: a unit accepts a uop while it holds fewer than
  `UnitCap`, and completes its uops in any order.
- `Wavefront::Execute`: a branch may go either way.

Index mode is not explored past its first read. The index is computed in
`int`, so `(-1 + 0) % PoolSize` is -1. Stored in an `unsigned`, it is
4294967295, and the model stops at that read (`cu_index_oob`).

## Runs

| Run | Checks | Result |
|---|---|---|
| `cu_nohint` | TypeOK, BuffersBounded, ScoreboardExact, WaitcntHonoured, LongOpExact, BarrierHonoured, AllFinish, FrontEndRefined | pass, about 54k states |
| `cu_hint` | BuffersBounded, ScoreboardExact, UopConservation, BuffersInFetchOrder | pass, about 81k states |
| `cu_raw` | RAWSafe | violation: Scoreboard.cc 243/249 look up destination indices in the source loops, so read-after-write is never detected. A `v_cndmask` that reads VCC joins, in the SIMD unit, the `v_cmp` that writes it. The unit takes two uops in this run. |
| `cu_reg0` | NoDoubleWrite | violation: the `index > 0` tests leave s0 and v0 untracked |
| `cu_latency` | AllFinish | violation: with `fetch_latency` 2, a uop that is not fetch-ready still reserves its registers (839-842) and then collides with itself forever |
| `cu_hint_lists` | ListsPartition | violation: after one round trip through speculative mode, the normal list holds both wavefronts with size 1. One wavefront is never issued again (WavefrontPool.h 305). |
| `cu_index_oob` | CandidateInPool | violation: the first index-mode pass reads entry (unsigned)(-1) (171) |
| `cu_hint_order` | BuffersInFetchOrder | violation: a target behind the pc appends an older pre-executed uop after a younger one in the speculation buffer (1505) |
| `cu_hint_prebuf` | BuffersBounded | violation: the pre-execution loop fills a pre-execution buffer entry past its capacity (1420) |
| `wg_map` | TypeOK, SlotsExact, PoolsFit, AllWorkGroupsRun, WorkGroupSlotsRefined | pass, about 15.7k states |
| `wg_available` | AvailableWhenFree | violation: after the slot vector has grown to its limit and two work-groups leave, mapping one leaves the unit off the available list with a slot free (2065) |

What the properties mean:
- **BuffersBounded**: no buffer entry holds more than `num_slots_per_entry` uops.
- **ScoreboardExact**: the reserved sets equal the destinations of the uops in
  the units.
- **WaitcntHonoured**: no uop after an issued s_waitcnt is in a unit together
  with an earlier memory access.
- **UopConservation**: every uop the emulator made is in exactly one of the
  three buffers, a unit, or completed. The drain, pre-execution, the moves
  and issue all move and never copy (spec 3).
- **BuffersInFetchOrder**: each buffer entry is in ascending fetch order
  (spec 3, 8).
- **ListsPartition**: one list-mode pass visits every wavefront exactly once (spec 4.2).
- **CandidateInPool**: the pool index a pass reads is an entry of the pool.
- **LongOpExact**: the long tables equal the destinations of the
  long-latency uops in the units.
- **BarrierHonoured**: no instruction after an `s_barrier` is in an
  execution unit before the work-group has been released from that
  barrier. Fetch's barrier check is commented out (1273), so the emulator
  runs ahead, and only issue's `wait_for_barrier` skip (728) holds the
  wavefront back.
- **SlotsExact** (WorkGroupMap): no lifecycle assert fires, and the slot
  vector holds exactly the running work-groups, each at its
  `id_in_compute_unit`.
- **PoolsFit**: the wavefronts of the running work-groups that share a pool
  fit in it. The assert at 2096 checks one work-group only.
- **AvailableWhenFree**: a unit with a free slot is on the available list
  (spec 4.5).
- **AllWorkGroupsRun**: every work-group of the NDRange is eventually mapped
  and finishes. It holds despite `wg_available`, because the next unmap puts
  the unit back on the list.
- **FrontEndRefined**: the buffers hand out each wavefront's fetched path in
  order. It is checked as `FE!Spec` under the mapping pc, finished, and
  pending ↦ the pcs in `fbuf`.
- **WorkGroupSlotsRefined**: `WorkGroupMap` implements `WorkGroupSlots`
  (checked as `Abs!Spec`). A work-group's abstract slot is its
  `id_in_compute_unit` from the time it is mapped, and -1 while it waits.
  Every Dispatch step must map a waiting work-group into a slot below
  WGPerCU that no running work-group holds. The slot stays put until the
  unmap, and while a slot is free a waiting work-group is eventually
  mapped. The unit can be off the available list with a free slot
  (`wg_available`), and the property shows that this only delays mapping.

### Bounds and kernels

- Two pools, so the pool issues every other cycle while fetch runs every cycle.
- Buffer capacity 2, `fetch_width` 1, `issue_width` 5 and `UnitCap` 1.

`cu_nohint` runs two slots in a two-entry pool on `MCProg`, an
eight-instruction kernel:
1. `buffer_load_dword v1`, with the resource in s[8:11];
2. `s_mov_b64 vcc, s[2:3]`;
3. `v_cmp_lt_i32 vcc, s4, v0`;
4. `s_waitcnt`;
5. `s_cbranch_vccz` to 7;
6. `v_cndmask_b32 v3, v1, v1, vcc`, a use of the load and of VCC;
7. `s_barrier`;
8. `s_endpgm`.

In this kernel the load is outstanding at the s_waitcnt, VCC is written by the
scalar and the SIMD unit and read by the SIMD unit, the barrier needs both
wavefronts, and buffers fill. The register arrays are what the decode gives:
`s_mov_b64 vcc` and `v_cmp` both write register 106, so they collide on
their destinations.

`cu_hint` runs three slots in a four-entry pool on `MCProgHint` and the
hint table `MCHints`. Three wavefronts take the list bug of `cu_hint_lists`
further: the normal list's counter reaches 0 while the speculation list's
counter reaches 3. A pass then reads the counter as an entry index. With
three entries that read lies outside the pool and the model stops there.
With four it reaches the empty entry 3, which issue skips.
- `MCProgHint` is a load, an `s_waitcnt`, an independent `v_mov_b32 v4, s2`,
  a use of the load (`v_add_f32 v3, v1, v1`), `s_mov_b32 s4, s2` and
  `s_endpgm`.
- In `MCHints`, the `s_waitcnt` points at the `v_mov`, which points past the
  use at the `s_mov`.

This drives every hint path:
- the drain;
- a pre-execution loop that puts one uop into the pre-execution buffer and
  one into the speculation buffer;
- a target of 0;
- speculative issue;
- the return to normal mode;
- all four reconcile branches.

The three-entry pool keeps a spare entry, so when the speculation cursor
walks onto the list header and reads its size counter as an entry index
(656), it lands on an empty entry (a skip) rather than past the pool, as it
would in a two-entry pool.
That lets the run go on to reach the other behaviours.
The list bug also limits what the run can show: a wavefront that returns
from speculative mode is never issued again, so in `cu_hint` no uop after
the speculatively issued ones (the `v_add` that reads the load, and
`s_endpgm`) ever reaches a unit. Properties about what happens after the
return to normal mode, such as the stale `pre_fetch_pc` of 1847 or a load
use after speculation, would hold there vacuously, so no run states them.

Between them, `cu_nohint` and `cu_hint` fire every action of ComputeUnit.

The violation runs use smaller pools or other hint tables:
- `MCHintsBack` has a target behind the pc.
- `MCHintsFar`, with the two-waitcnt `MCProgTwoWaits`, has a target three
  instructions ahead.

Each is the smallest instance that shows its behaviour. In the kernels
every vmem instruction is a MUBUF buffer load, so it is long-latency.
`cu_nohint` has one load in flight at a time, so `LongOpExact` holds there.

`wg_map` and `wg_available` run five work-groups (ids 0-4) on four slots over
two pools of two wavefronts, one wavefront per work-group. Four slots let the
vector fill, empty out of order and be reused; five work-groups keep one
waiting when it is full; two slots per pool make a pool exactly full, so any
pool choice that is not an even spread overfills one.

### Fairness

`WF_vars(Pipeline)` holds because Run always takes its next loop step.
`SF_vars(CompleteAny)` holds because every execution unit completes what it
holds after a finite latency.

In `WorkGroupMap`, `WF_vars(Dispatch)` stands for the GPU mapping a waiting
work-group whenever a unit is on its available list, which it tries each
cycle. `WF_vars(Finish)` stands for every mapped work-group running to its
end. The `wg_map` run ends when all work-groups have finished, so it does not
check for deadlock; `AllWorkGroupsRun` rules out any other stop. The
fairness of `WorkGroupSlots` (mapping while a slot is free, and unmapping)
is checked as part of `WorkGroupSlotsRefined`, not assumed.

## Not modelled

1. **Index mode past its first pass.** Every state after the out-of-pool read
   is undefined behaviour.
2. **Kernels with backward branches.** Uop ids are bounded by the kernel
   length. A loop needs a bound on the dynamic instructions of a wavefront.
   This is where the reconcile-by-pc hazard (1520) would show.
3. **Hint modes other than 0 and 1, and targets outside the kernel.** These
   are excluded by an ASSUME: the hint-file reader (Timing) and the emulator
   past `s_endpgm` are not under src/.
4. **The wavefront side of the work-group lifecycle.** `MapWavefronts`,
   `UnmapWavefronts` and the GPU are not under src/. The wavefront ids that
   MapWorkGroup assigns, and its statistics counters, change no control.
   The iterator that AddWorkGroup saves (2157) can be invalidated by a later
   `push_back`. Comparing it at 2177 is undefined, and a model of slots
   cannot express it.
5. **`long_operation_wait`.** It is set from `IsLongOpCollision` and never
   read, so it is modelled as state that no action reads.
6. **The layout of Uop.h.** The decode's writes past an array (1733), and the
   words the 14-entry release loop reads, depend on it. Kernels keep clear
   of the first, and the second is left free (`PastWords`), with no run
   whose outcome depends on that choice.
7. **Visualization and trace.** These write logs only.
