------------------------------ MODULE UopDecode ------------------------------
(***************************************************************************)
(* Uop::setInstructionRegistersIndex (Uop.cc): the register footprint of   *)
(* a decoded instruction.  The constructor fills the four index arrays     *)
(* with -1; then one branch per opcode, selected by format and opcode,     *)
(* writes source and destination indices taken from the instruction's     *)
(* fields or from fixed special registers.  An opcode the branch chain     *)
(* does not name writes nothing.                                           *)
(*                                                                         *)
(* Each branch is a sequence of writes [arr, idx, val] in the order the    *)
(* code makes them; UopArrays applies them to the constructor's arrays.   *)
(* Opcodes whose branches are identical are one set.  An instruction is a *)
(* record: fmt, op, and the fields of its format with the code's names.   *)
(***************************************************************************)
EXTENDS Integers, Sequences

CONSTANTS                 \* Instruction::Register* (Instruction.h)
  RegisterScc, RegisterVcc, RegisterVccz, RegisterExec, RegisterExecz, RegisterM0

(* 0xFF: the operand is the literal constant that follows the instruction. *)
Lit == 255

(* The sizes of source/destination scalar/vector register index arrays. *)
ArraySize == [srcS |-> 4, dstS |-> 16, srcV |-> 6, dstV |-> 4]

W(arr, idx, val) == [arr |-> arr, idx |-> idx, val |-> val]
SrcS(idx, val) == W("srcS", idx, val)   \* setSourceScalarRegisterIndex
DstS(idx, val) == W("dstS", idx, val)   \* setDestinationScalarRegisterIndex
SrcV(idx, val) == W("srcV", idx, val)   \* setSourceVectorRegisterIndex
DstV(idx, val) == W("dstV", idx, val)   \* setDestinationVectorRegisterIndex

(* setSourceRegisterIndex (Uop.h, not in the repository) takes a 9-bit   *)
(* operand: 256 and above name vector register v - 256, below 256 a      *)
(* scalar register or special operand.                                    *)
Src(idx, v) == IF v >= 256 THEN SrcV(idx, v - 256) ELSE SrcS(idx, v)

(* The writes of an if (c) statement.                                      *)
When(c, ws) == IF c THEN ws ELSE << >>

(* dst[i] = base + i for i < n: the for loops of the SMRD loads.         *)
DstSRun(n, base) == [k \in 1 .. n |-> DstS(k - 1, base + k - 1)]

(* The writes applied in order, each overwriting one entry.               *)
RECURSIVE Apply(_, _)
Apply(arrs, ws) ==
  IF ws = << >> THEN arrs
  ELSE Apply([arrs EXCEPT ![Head(ws).arr][Head(ws).idx] = Head(ws).val], Tail(ws))

(* Uop::Uop sets every entry to -1, then the decode writes.  The arrays   *)
(* are 0-based functions of their real sizes.                              *)
UopArrays(ws) ==
  Apply([a \in DOMAIN ArraySize |-> [k \in 0 .. ArraySize[a] - 1 |-> -1]], ws)

(* The writes that land past their array (setSourceScalarRegisterIndex(4, *)
(* soffset) in MUBUF and MTBUF): which Uop member they overwrite depends  *)
(* on the layout Uop.h gives, which is not in the repository.             *)
OutOfBounds(ws) == { n \in DOMAIN ws : ws[n].idx >= ArraySize[ws[n].arr] }

-----------------------------------------------------------------------------
(* Scalar formats.                                                         *)

SOP2Alu == {"S_ADD_U32", "S_ADD_I32", "S_SUB_I32", "S_MIN_U32", "S_MAX_I32",
            "S_MAX_U32", "S_AND_B32", "S_OR_B32", "S_LSHL_B32", "S_LSHR_B32",
            "S_ASHR_I32", "S_MUL_I32"}
SOP2Wide == {"S_AND_B64", "S_OR_B64", "S_XOR_B64", "S_ANDN2_B64", "S_NAND_B64"}

(* The 32-bit forms test ssrc0 against the literal for both sources.     *)
DecodeSOP2(f) ==
  LET srcs == When(f.ssrc0 # Lit, << SrcS(0, f.ssrc0) >>)
              \o When(f.ssrc0 # Lit, << SrcS(1, f.ssrc1) >>)
  IN CASE f.op \in SOP2Alu -> srcs \o << DstS(0, f.sdst), DstS(1, RegisterScc) >>
       [] f.op = "S_CSELECT_B32" ->
             srcs \o << SrcS(2, RegisterScc), DstS(0, f.sdst) >>
       [] f.op \in SOP2Wide ->
             << SrcS(0, f.ssrc0), SrcS(1, f.ssrc0 + 1), SrcS(2, f.ssrc1),
                SrcS(3, f.ssrc1 + 1), DstS(0, f.sdst), DstS(1, f.sdst + 1),
                DstS(2, RegisterScc) >>
       [] f.op = "S_BFE_I32" ->
             << SrcS(0, f.ssrc0), SrcS(1, f.ssrc1), DstS(0, f.sdst), DstS(1, RegisterScc) >>
       [] OTHER -> << >>

DecodeSOPK(f) ==
  CASE f.op = "S_MOVK_I32" -> << DstS(0, f.sdst) >>
    [] f.op \in {"S_ADDK_I32", "S_MULK_I32"} ->
          << SrcS(0, f.sdst), DstS(0, f.sdst), DstS(1, RegisterScc) >>
    [] OTHER -> << >>                               \* S_CMPK_LE_U32 included

DecodeSOP1(f) ==
  CASE f.op \in {"S_MOV_B64", "S_SWAPPC_B64"} ->
          << SrcS(0, f.ssrc0), SrcS(1, f.ssrc0 + 1), DstS(0, f.sdst), DstS(1, f.sdst + 1) >>
    [] f.op = "S_MOV_B32" -> When(f.ssrc0 # Lit, << SrcS(0, f.ssrc0) >>) \o << DstS(0, f.sdst) >>
    [] f.op = "S_NOT_B32" ->
          When(f.ssrc0 # Lit, << SrcS(0, f.ssrc0) >>) \o << DstS(0, f.sdst), DstS(1, RegisterScc) >>
    [] f.op = "S_AND_SAVEEXEC_B64" ->
          << SrcS(0, RegisterExec), SrcS(1, RegisterExec + 1), SrcS(2, f.ssrc0),
             SrcS(3, f.ssrc0 + 1), DstS(0, f.sdst), DstS(1, f.sdst + 1),
             DstS(2, RegisterExec), DstS(3, RegisterExec + 1), DstS(4, RegisterScc) >>
    [] OTHER -> << >>                               \* S_WQM_B64 included

SOPCCompare == {"S_CMP_EQ_I32", "S_CMP_GT_I32", "S_CMP_GE_I32", "S_CMP_LT_I32",
                "S_CMP_LE_I32", "S_CMP_GT_U32", "S_CMP_GE_U32", "S_CMP_LE_U32"}

DecodeSOPC(f) ==
  IF f.op \in SOPCCompare
    THEN When(f.ssrc0 # Lit, << SrcS(0, f.ssrc0) >>)
         \o When(f.ssrc0 # Lit, << SrcS(1, f.ssrc1) >>) \o << DstS(0, RegisterScc) >>
    ELSE << >>

(* The conditional branches read SCC, VCCZ, or EXEC and EXECZ; the       *)
(* others (s_endpgm, s_branch, s_barrier, s_waitcnt) read nothing.        *)
DecodeSOPP(f) ==
  CASE f.op \in {"S_CBRANCH_SCC0", "S_CBRANCH_SCC1"} -> << SrcS(0, RegisterScc) >>
    [] f.op \in {"S_CBRANCH_VCCZ", "S_CBRANCH_VCCNZ"} -> << SrcS(0, RegisterVccz) >>
    [] f.op = "S_CBRANCH_EXECZ" -> << SrcS(0, RegisterExec), SrcS(1, RegisterExecz) >>
    [] f.op = "S_CBRANCH_EXECNZ" -> << SrcS(0, RegisterExecz) >>
    [] OTHER -> << >>

SMRDBufferLoad == [S_BUFFER_LOAD_DWORD |-> 1, S_BUFFER_LOAD_DWORDX2 |-> 2,
                   S_BUFFER_LOAD_DWORDX4 |-> 4, S_BUFFER_LOAD_DWORDX8 |-> 8,
                   S_BUFFER_LOAD_DWORDX16 |-> 16]
SMRDLoad == [S_LOAD_DWORDX2 |-> 2, S_LOAD_DWORDX4 |-> 4, S_LOAD_DWORDX8 |-> 8,
             S_LOAD_DWORDX16 |-> 16]

(* The buffer loads read the offset register when imm is 0; neither form  *)
(* records sbase.                                                          *)
DecodeSMRD(f) ==
  CASE f.op \in DOMAIN SMRDBufferLoad ->
          When(f.imm = 0, << SrcS(0, f.offset) >>) \o DstSRun(SMRDBufferLoad[f.op], f.sdst)
    [] f.op \in DOMAIN SMRDLoad -> DstSRun(SMRDLoad[f.op], f.sdst)
    [] OTHER -> << >>

-----------------------------------------------------------------------------
(* Vector ALU formats.  src0 is a 9-bit operand (Src); vsrc1 and vdst     *)
(* are vector registers.                                                   *)

VOP2Alu == {"V_ADD_F32", "V_SUB_F32", "V_SUBREV_F32", "V_MUL_LEGACY_F32", "V_MUL_F32",
            "V_MUL_I32_I24", "V_MIN_F32", "V_MAX_F32", "V_MAX_I32", "V_MIN_I32",
            "V_MIN_U32", "V_MAX_U32", "V_LSHRREV_B32", "V_ASHRREV_I32", "V_LSHL_B32",
            "V_LSHLREV_B32", "V_AND_B32", "V_OR_B32", "V_XOR_B32", "V_ADD_I32",
            "V_CVT_PKRTZ_F16_F32"}

(* v_mac_f32 reads its accumulator vdst as well; v_madmk_f32 records     *)
(* src0 even when it is the literal.                                       *)
DecodeVOP2Mac(f) ==
  IF f.op = "V_MAC_F32"
    THEN << SrcV(0, f.vsrc1), SrcV(1, f.vdst) >> \o When(f.src0 # Lit, << Src(2, f.src0) >>)
         \o << DstV(0, f.vdst) >>
    ELSE << SrcV(0, f.vsrc1), Src(1, f.src0), DstV(0, f.vdst) >>

(* The subtractions with carry out write VCC.                              *)
DecodeVOP2Carry(f) ==
  << SrcV(0, f.vsrc1) >> \o When(f.src0 # Lit, << Src(1, f.src0) >>)
  \o << DstV(0, f.vdst), DstS(0, RegisterVcc) >>

DecodeVOP2(f) ==
  CASE f.op = "V_CNDMASK_B32" ->
          << SrcV(0, f.vsrc1), SrcS(0, RegisterVcc) >> \o When(f.src0 # Lit, << Src(1, f.src0) >>)
          \o << DstV(0, f.vdst) >>
    [] f.op \in VOP2Alu ->
          << SrcV(0, f.vsrc1) >> \o When(f.src0 # Lit, << Src(1, f.src0) >>) \o << DstV(0, f.vdst) >>
    [] f.op \in {"V_MAC_F32", "V_MADMK_F32"} -> DecodeVOP2Mac(f)
    [] f.op \in {"V_SUB_I32", "V_SUBREV_I32"} -> DecodeVOP2Carry(f)
    [] OTHER -> << >>                   \* V_MAC_LEGACY_F32, V_BFM_B32 included

VOP1Unary == {"V_MOV_B32", "V_CVT_F32_I32", "V_CVT_F32_U32", "V_CVT_U32_F32",
              "V_CVT_I32_F32", "V_TRUNC_F32", "V_RCP_F32", "V_SQRT_F32", "V_SIN_F32",
              "V_COS_F32", "V_NOT_B32"}

(* v_movreld / v_movrels address a vector register relative to the value *)
(* of M0, which the decode reads from the wavefront (m0).                 *)
DecodeVOP1Rel(f, m0) ==
  IF f.op = "V_MOVRELD_B32"
    THEN When(f.src0 # Lit, << Src(0, f.src0) >>) \o << Src(1, RegisterM0), DstV(0, f.vdst + m0) >>
    ELSE << Src(0, RegisterM0), Src(1, f.src0 + m0), DstV(0, f.vdst) >>

DecodeVOP1(f, m0) ==
  CASE f.op \in VOP1Unary -> When(f.src0 # Lit, << Src(0, f.src0) >>) \o << DstV(0, f.vdst) >>
    [] f.op = "V_READFIRSTLANE_B32" -> << Src(0, f.src0), DstV(0, f.vdst) >>
    [] f.op = "V_CVT_F64_I32" ->
          When(f.src0 # Lit, << Src(0, f.src0) >>) \o << DstV(0, f.vdst), DstV(1, f.vdst + 1) >>
    [] f.op = "V_CVT_F32_F64" -> << Src(0, f.src0), Src(1, f.src0 + 1), DstV(0, f.vdst) >>
    [] f.op = "V_CVT_F64_F32" -> << Src(0, f.src0), DstV(0, f.vdst), DstV(1, f.vdst + 1) >>
    [] f.op \in {"V_MOVRELD_B32", "V_MOVRELS_B32"} -> DecodeVOP1Rel(f, m0)
    [] OTHER -> << >>

VOPCCompare == {"V_CMP_LT_F32", "V_CMP_GT_F32", "V_CMP_NGT_F32", "V_CMP_NEQ_F32",
                "V_CMP_LT_I32", "V_CMP_EQ_I32", "V_CMP_LE_I32", "V_CMP_GT_I32",
                "V_CMP_NE_I32", "V_CMP_GE_I32", "V_CMP_LT_U32", "V_CMP_LE_U32",
                "V_CMP_GT_U32"}

(* The compares write VCC; the other VOPC opcodes record nothing.         *)
DecodeVOPC(f) ==
  IF f.op \in VOPCCompare
    THEN << SrcV(0, f.vsrc1) >> \o When(f.src0 # Lit, << Src(1, f.src0) >>)
         \o << DstS(0, RegisterVcc) >>
    ELSE << >>

VOP3aBinary == {"V_ADD_F32_VOP3a", "V_SUBREV_F32_VOP3a", "V_MUL_LEGACY_F32_VOP3a",
                "V_MUL_F32_VOP3a", "V_MUL_I32_I24_VOP3a", "V_MAX_F32_VOP3a",
                "V_MUL_LO_U32", "V_MUL_HI_U32", "V_MUL_LO_I32"}
VOP3aTernary == {"V_MAD_F32", "V_MAD_U32_U24", "V_BFE_U32", "V_BFE_I32", "V_BFI_B32",
                 "V_FMA_F32", "V_ALIGNBIT_B32", "V_MAX3_I32", "V_MED3_I32"}
VOP3aCompare == {"V_CMP_LT_F32_VOP3a", "V_CMP_EQ_F32_VOP3a", "V_CMP_GT_F32_VOP3a",
                 "V_CMP_NEQ_F32_VOP3a", "V_CMP_NLT_F32_VOP3a", "V_CMP_LT_I32_VOP3a",
                 "V_CMP_EQ_I32_VOP3a", "V_CMP_LE_I32_VOP3a", "V_CMP_GT_I32_VOP3a",
                 "V_CMP_NE_I32_VOP3a", "V_CMP_GE_I32_VOP3a", "V_CMP_LT_U32_VOP3a",
                 "V_CMP_LE_U32_VOP3a", "V_CMP_GT_U32_VOP3a", "V_CMP_LG_U32_VOP3a",
                 "V_CMP_GE_U32_VOP3a"}

(* The VOP3a compares write the scalar register pair named by vdst;       *)
(* v_cmpx also writes EXEC.  Other compares of the range record nothing.  *)
DecodeVOP3aCompare(f) ==
  CASE f.op \in VOP3aCompare -> << Src(0, f.src0), Src(1, f.src1), DstS(0, f.vdst) >>
    [] f.op = "V_CMPX_EQ_I32_VOP3a" ->
          << Src(0, f.src0), Src(1, f.src1), DstS(0, f.vdst), DstS(1, RegisterExec) >>
    [] OTHER -> << >>

(* VOP3a operands are all 9-bit; the 64-bit forms add the next register. *)
DecodeVOP3a(f) ==
  CASE f.op = "V_CNDMASK_B32_VOP3a" ->
          << SrcS(0, f.src2), Src(1, f.src0), Src(2, f.src1), DstV(0, f.vdst) >>
    [] f.op \in VOP3aBinary -> << Src(0, f.src0), Src(1, f.src1), DstV(0, f.vdst) >>
    [] f.op \in VOP3aTernary ->
          << Src(0, f.src0), Src(1, f.src1), Src(2, f.src2), DstV(0, f.vdst) >>
    [] f.op \in {"V_LSHL_B64", "V_ADD_F64", "V_MUL_F64"} ->
          << Src(0, f.src0), Src(1, f.src0 + 1), Src(2, f.src1), Src(3, f.src1 + 1),
             DstV(0, f.vdst), DstV(1, f.vdst + 1) >>
    [] f.op = "V_FRACT_F32_VOP3a" -> << Src(0, f.src0), DstV(0, f.vdst) >>
    [] f.op \in VOP3aCompare \cup {"V_CMPX_EQ_I32_VOP3a"} -> DecodeVOP3aCompare(f)
    [] f.op \in {"V_LSHR_B64", "V_ASHR_I64"} ->
          << Src(0, f.src0), Src(1, f.src0 + 1), Src(2, f.src1),
             DstV(0, f.vdst), DstV(1, f.vdst + 1) >>
    [] OTHER -> << >>

DecodeVOP3b(f) ==
  IF f.op = "V_ADDC_U32_VOP3b"
    THEN << SrcS(0, f.src2), Src(1, f.src0), Src(2, f.src1), DstV(0, f.vdst), DstS(0, f.sdst) >>
    ELSE << >>                                    \* V_DIV_SCALE_F64 included

DecodeVINTRP(f) ==
  CASE f.op = "V_INTERP_P1_F32" -> << SrcV(0, f.vsrc), Src(1, RegisterM0), DstV(0, f.vdst) >>
    [] f.op = "V_INTERP_P2_F32" ->
          << SrcV(0, f.vsrc), SrcV(1, f.vdst), Src(2, RegisterM0), DstV(0, f.vdst) >>
    [] OTHER -> << >>

-----------------------------------------------------------------------------
(* Memory formats.                                                         *)

DSRead == {"DS_READ_B32", "DS_READ_I8", "DS_READ_U8", "DS_READ_I16", "DS_READ_U16"}

(* The LDS atomics record nothing.                                         *)
DecodeDS(f) ==
  CASE f.op = "DS_WRITE2_B32" -> << SrcV(0, f.addr), SrcV(1, f.data0), SrcV(2, f.data1) >>
    [] f.op \in {"DS_WRITE_B32", "DS_WRITE_B8", "DS_WRITE_B16"} ->
          << SrcV(0, f.addr), SrcV(1, f.data0) >>
    [] f.op \in DSRead -> << SrcV(0, f.addr), DstV(0, f.vdst) >>
    [] f.op = "DS_READ2_B32" -> << SrcV(0, f.addr), DstV(0, f.vdst), DstV(1, f.vdst + 1) >>
    [] OTHER -> << >>

(* The four scalar registers of the resource descriptor srsrc.            *)
Rsrc(f) == [k \in 1 .. 4 |-> SrcS(k - 1, f.srsrc * 4 + k - 1)]

(* The buffer loads record no address register, and buffer_store_byte    *)
(* records vdata as a destination.  The stores and the atomic record      *)
(* soffset at source scalar position 4.                                    *)
DecodeMUBUF(f) ==
  LET store == Rsrc(f) \o << SrcS(4, f.soffset), SrcV(0, f.vaddr), SrcV(1, f.vdata) >>
               \o When(f.idxen /\ f.offen, << SrcV(2, f.vaddr + 1) >>)
  IN CASE f.op \in {"BUFFER_LOAD_SBYTE", "BUFFER_LOAD_DWORD", "BUFFER_STORE_BYTE"} ->
            Rsrc(f) \o << DstV(0, f.vdata) >>
       [] f.op = "BUFFER_STORE_DWORD" -> store
       [] f.op = "BUFFER_ATOMIC_ADD" -> store \o When(f.glc, << DstV(0, f.vdata) >>)
       [] OTHER -> << >>

MTBUFLoad == [TBUFFER_LOAD_FORMAT_X |-> 1, TBUFFER_LOAD_FORMAT_XY |-> 2,
              TBUFFER_LOAD_FORMAT_XYZW |-> 4]

(* The stores record vdata + 1 for every data register past the first:   *)
(* tbuffer_store_format_xyzw names vdata + 1 three times.                  *)
MTBUFStoreData == [TBUFFER_STORE_FORMAT_X |-> << >>,
                   TBUFFER_STORE_FORMAT_XY |-> << 1 >>,
                   TBUFFER_STORE_FORMAT_XYZW |-> << 1, 1, 1 >>]

DecodeMTBUF(f) ==
  LET head == Rsrc(f) \o << SrcS(4, f.soffset), SrcV(0, f.vaddr) >>
  IN CASE f.op \in DOMAIN MTBUFLoad ->
            head \o When(f.idxen /\ f.offen, << SrcV(1, f.vaddr + 1) >>)
            \o [k \in 1 .. MTBUFLoad[f.op] |-> DstV(k - 1, f.vdata + k - 1)]
       [] f.op \in DOMAIN MTBUFStoreData ->
            LET d == MTBUFStoreData[f.op]
            IN head \o << SrcV(1, f.vdata) >>
               \o [k \in DOMAIN d |-> SrcV(k + 1, f.vdata + d[k])]
               \o When(f.idxen /\ f.offen, << SrcV(Len(d) + 2, f.vaddr + 1) >>)
       [] OTHER -> << >>                     \* TBUFFER_LOAD_FORMAT_XYZ included

-----------------------------------------------------------------------------
(* setInstructionRegistersIndex: the branch of the instruction's format;  *)
(* MIMG, EXP and the invalid format record nothing.  m0 is the value of   *)
(* the wavefront's M0 register, read by v_movreld / v_movrels.            *)
Decode(f, m0) ==
  CASE f.fmt = "SOP2" -> DecodeSOP2(f)
    [] f.fmt = "SOPK" -> DecodeSOPK(f)
    [] f.fmt = "SOP1" -> DecodeSOP1(f)
    [] f.fmt = "SOPC" -> DecodeSOPC(f)
    [] f.fmt = "SOPP" -> DecodeSOPP(f)
    [] f.fmt = "SMRD" -> DecodeSMRD(f)
    [] f.fmt = "VOP2" -> DecodeVOP2(f)
    [] f.fmt = "VOP1" -> DecodeVOP1(f, m0)
    [] f.fmt = "VOPC" -> DecodeVOPC(f)
    [] f.fmt = "VOP3a" -> DecodeVOP3a(f)
    [] f.fmt = "VOP3b" -> DecodeVOP3b(f)
    [] f.fmt = "VINTRP" -> DecodeVINTRP(f)
    [] f.fmt = "DS" -> DecodeDS(f)
    [] f.fmt = "MUBUF" -> DecodeMUBUF(f)
    [] f.fmt = "MTBUF" -> DecodeMTBUF(f)
    [] OTHER -> << >>

=============================================================================
