--------------------------- MODULE MC_ComputeUnit ---------------------------
(***************************************************************************)
(* Model values for ComputeUnit: a small kernel that exercises every      *)
(* front-end rule (a buffer load and its s_waitcnt, dependent vector ALU  *)
(* instructions, a branch, a work-group barrier and s_endpgm).            *)
(***************************************************************************)
EXTENDS ComputeUnit, TLC

(* Instruction::Register* of Instruction.h: the Southern Islands operand *)
(* encodings of SCC, VCC, VCCZ, EXEC, EXECZ and M0.                        *)
UD == INSTANCE UopDecode WITH RegisterScc <- 253, RegisterVcc <- 106, RegisterVccz <- 251,
                              RegisterExec <- 126, RegisterExecz <- 252, RegisterM0 <- 124

(* No hint file.                                                           *)
NoHints == [a \in {} |-> [mode |-> 0, offset1 |-> 0, offset2 |-> 0]]

(* A register index array of n entries from the writes the decode makes *)
(* to it, -1 elsewhere (Uop::Uop).                                         *)
Arr(n, w) == [k \in 0 .. n - 1 |-> IF k \in DOMAIN w THEN w[k] ELSE -1]
Footprint(sS, dS, sV, dV) ==
  [srcS |-> Arr(4, sS), dstS |-> Arr(16, dS), srcV |-> Arr(6, sV), dstV |-> Arr(4, dV)]

(* The instructions of the kernels, with s[8:11] as the buffer resource,  *)
(* each with the register arrays its decode gives (no kernel reads M0);  *)
(* the ASSUME at the end checks every footprint against UopDecode.        *)
BufferLoad(v) == [fmt |-> "MUBUF", op |-> "BUFFER_LOAD_DWORD", srsrc |-> 2, vdata |-> v,
                  vaddr |-> 0, soffset |-> 0, idxen |-> FALSE, offen |-> FALSE, glc |-> FALSE]
BufferLoadFp(v) == Footprint(0 :> 8 @@ 1 :> 9 @@ 2 :> 10 @@ 3 :> 11, << >>, << >>, 0 :> v)
SMovB64Vcc   == [fmt |-> "SOP1", op |-> "S_MOV_B64", ssrc0 |-> 2, sdst |-> 106]
SMovB64VccFp == Footprint(0 :> 2 @@ 1 :> 3, 0 :> 106 @@ 1 :> 107, << >>, << >>)
VCmpVcc      == [fmt |-> "VOPC", op |-> "V_CMP_LT_I32", src0 |-> 4, vsrc1 |-> 0]
VCmpVccFp    == Footprint(1 :> 4, 0 :> 106, 0 :> 0, << >>)
Waitcnt      == [fmt |-> "SOPP", op |-> "S_WAITCNT"]
BranchVccz   == [fmt |-> "SOPP", op |-> "S_CBRANCH_VCCZ"]
BranchVcczFp == Footprint(0 :> 251, << >>, << >>, << >>)
Barrier      == [fmt |-> "SOPP", op |-> "S_BARRIER"]
Endpgm       == [fmt |-> "SOPP", op |-> "S_ENDPGM"]
NoRegsFp     == Footprint(<< >>, << >>, << >>, << >>)
VCndmask     == [fmt |-> "VOP2", op |-> "V_CNDMASK_B32", src0 |-> 257, vsrc1 |-> 1, vdst |-> 3]
VCndmaskFp   == Footprint(0 :> 106, << >>, 0 :> 1 @@ 1 :> 1, 0 :> 3)
VAdd         == [fmt |-> "VOP2", op |-> "V_ADD_F32", src0 |-> 257, vsrc1 |-> 1, vdst |-> 3]
VAddFp       == Footprint(<< >>, << >>, 0 :> 1 @@ 1 :> 1, 0 :> 3)
VMov(v)      == [fmt |-> "VOP1", op |-> "V_MOV_B32", src0 |-> 2, vdst |-> v]
VMovFp(v)    == Footprint(0 :> 2, << >>, << >>, 0 :> v)
SMovB32      == [fmt |-> "SOP1", op |-> "S_MOV_B32", ssrc0 |-> 2, sdst |-> 4]
SMovB32Fp    == Footprint(0 :> 2, 0 :> 4, << >>, << >>)

(* A kernel instruction: its execution unit, format and register arrays, *)
(* and the flags and branch target the emulator gives it.                 *)
I(unit, inst, fp, mem, wait, bar, end, tgt) ==
  [unit |-> unit, fmt |-> inst.fmt, srcS |-> fp.srcS, dstS |-> fp.dstS,
   srcV |-> fp.srcV, dstV |-> fp.dstV, mem |-> mem, memWait |-> wait,
   barrier |-> bar, endpgm |-> end, target |-> tgt]

Scalar(inst, fp) == I("scalar", inst, fp, FALSE, FALSE, FALSE, FALSE, 0)
Simd(inst, fp) == I("simd", inst, fp, FALSE, FALSE, FALSE, FALSE, 0)
Load(v) == I("vmem", BufferLoad(v), BufferLoadFp(v), TRUE, FALSE, FALSE, FALSE, 0)
Wait == I("scalar", Waitcnt, NoRegsFp, FALSE, TRUE, FALSE, FALSE, 0)
End == I("scalar", Endpgm, NoRegsFp, FALSE, FALSE, FALSE, TRUE, 0)

(* 1 buffer_load_dword v1          2 s_mov_b64 vcc, s[2:3]              *)
(* 3 v_cmp_lt_i32 vcc, s4, v0      4 s_waitcnt                           *)
(* 5 s_cbranch_vccz 7              6 v_cndmask_b32 v3, v1, v1, vcc       *)
(* 7 s_barrier                     8 s_endpgm                            *)
(* VCC is written by the scalar and the SIMD unit and read by the SIMD    *)
(* unit; the branch reads VCCZ, which the decode of v_cmp does not write. *)
MCProg ==
  << Load(1), Scalar(SMovB64Vcc, SMovB64VccFp), Simd(VCmpVcc, VCmpVccFp), Wait,
     I("branch", BranchVccz, BranchVcczFp, FALSE, FALSE, FALSE, FALSE, 7), Simd(VCndmask, VCndmaskFp),
     I("scalar", Barrier, NoRegsFp, FALSE, FALSE, TRUE, FALSE, 0), End >>

(* 1 v_mov_b32 v0, s2   2 buffer_load_dword v0   3 s_endpgm: two writes  *)
(* of register 0.                                                          *)
MCProgReg0 ==
  << Simd(VMov(0), VMovFp(0)), Load(0), End >>

(* 1 buffer_load_dword v1   2 s_waitcnt   3 v_mov_b32 v4, s2              *)
(* 4 v_add_f32 v3, v1, v1   5 s_mov_b32 s4, s2   6 s_endpgm                *)
MCProgHint ==
  << Load(1), Wait, Simd(VMov(4), VMovFp(4)), Simd(VAdd, VAddFp), Scalar(SMovB32, SMovB32Fp), End >>

(* The hints name the instructions that do not need the load: the        *)
(* s_waitcnt (pc 4) points at v_mov v4 (pc 8), a branch hint with both    *)
(* offsets equal, and pc 8 points at s_mov s4 (pc 16), past the v_add.    *)
(* pc 16 has no hint, which ends the chain.                                *)
MCHints ==
  (4 :> [mode |-> 1, offset1 |-> 4, offset2 |-> 4]) @@
  (8 :> [mode |-> 0, offset1 |-> 8, offset2 |-> 0])

(* A chain whose second hint points back: the s_waitcnt (pc 4) points at  *)
(* s_mov s4 (pc 16), and pc 16 points back at v_mov v4 (pc 8), which the *)
(* pre-execution loop has already executed into the pre-execution buffer. *)
MCHintsBack ==
  (4 :> [mode |-> 0, offset1 |-> 12, offset2 |-> 0]) @@
  (16 :> [mode |-> 0, offset1 |-> -8, offset2 |-> 0])

(* 1 buffer_load_dword v1   2 s_waitcnt   3 v_mov_b32 v4, s2              *)
(* 4 buffer_load_dword v5   5 s_waitcnt   6 v_add_f32 v3, v1, v1   7 s_endpgm *)
MCProgTwoWaits ==
  << Load(1), Wait, Simd(VMov(4), VMovFp(4)), Load(5), Wait, Simd(VAdd, VAddFp), End >>

(* The first s_waitcnt (pc 4) points past the second one at v_add        *)
(* (pc 20); the pre-execution loop runs through pcs 8 to 20.              *)
MCHintsFar == 4 :> [mode |-> 0, offset1 |-> 16, offset2 |-> 0]

(* Every footprint above is the one the decode of its instruction gives, *)
(* and no instruction of the kernels writes past a register index array, *)
(* so the footprints do not depend on the layout of Uop.h.                *)
Decoded == { << BufferLoad(v), BufferLoadFp(v) >> : v \in {0, 1, 5} } \cup
           { << VMov(v), VMovFp(v) >> : v \in {0, 4} } \cup
           { << SMovB64Vcc, SMovB64VccFp >>, << VCmpVcc, VCmpVccFp >>,
             << Waitcnt, NoRegsFp >>, << BranchVccz, BranchVcczFp >>,
             << Barrier, NoRegsFp >>, << Endpgm, NoRegsFp >>,
             << VCndmask, VCndmaskFp >>, << VAdd, VAddFp >>, << SMovB32, SMovB32Fp >> }
ASSUME \A d \in Decoded :
         /\ UD!OutOfBounds(UD!Decode(d[1], 0)) = {}
         /\ UD!UopArrays(UD!Decode(d[1], 0)) = d[2]
=============================================================================
