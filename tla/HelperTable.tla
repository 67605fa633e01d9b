---------------------------- MODULE HelperTable ----------------------------
(***************************************************************************)
(* The tables of decode_inst_helper.h (input/instruction_decoder/llvm/     *)
(* amd64): for each instruction of LLVM the low-level opcode, the          *)
(* condition and the sizes of the operands srcA, srcB and dstA; for each   *)
(* register of LLVM its number.                                            *)
(*                                                                         *)
(* An instruction is known by the number of its row, which the comments of *)
(* the table give; its name only serves to find the row, and no two rows   *)
(* have the same.  Four rows of five are all zero, for instructions not    *)
(* supported yet; they are not listed.  The others come in blocks of rows  *)
(* that are alike.  A block is                                             *)
(*                                                                         *)
(*   <<first, last, opcode, condition, srcA_size, srcB_size, dstA_size>>   *)
(*                                                                         *)
(* so a set of blocks below stands for its rows and the zero rows between. *)
(***************************************************************************)
EXTENDS Rtl

\* The conditions: an odd number, and the opposite is the next one.
Overflow == 1
NotOverflow == 2
Below == 3
NotBelow == 4
Equal == 5
NotEqual == 6
BelowEqual == 7
Above == 8
Signed == 9
NotSigned == 10
Parity == 11
NotParity == 12
Less == 13
GreaterEqual == 14
LessEqual == 15
Greater == 16

\* Blocks without sizes, <<first, last, opcode>>, and blocks with one size for all
\* operands, <<first, last, opcode, size>>.
NoSize(blocks) == {<<b[1], b[2], b[3], 0, 0, 0, 0>> : b \in blocks}
OneSize(blocks) == {<<b[1], b[2], b[3], 0, b[4], b[4], b[4]>> : b \in blocks}

RowsAdcAdd ==
  NoSize({<<29, 55, "ADC">>, <<57, 62, "ADC">>})
  \cup OneSize({<<56, 56, "ADC", 8>>, <<67, 78, "ADD", 16>>, <<79, 90, "ADD", 32>>,
              <<91, 102, "ADD", 64>>, <<103, 109, "ADD", 8>>})

RowsAnd == NoSize({<<167, 200, "AND">>})

\* Calls, and CBW, CDQ and CDQE, which extend AX in place.
RowsCall ==
  { <<355, 355, "CALLM", 0, 64, 0, 0>>, <<356, 356, "CALL", 0, 32, 0, 0>>,
    <<357, 357, "CALLM", 0, 64, 0, 0>>, <<360, 360, "SEX", 0, 0, 8, 16>>,
    <<361, 361, "SEX", 0, 0, 16, 32>>, <<362, 362, "SEX", 0, 0, 32, 64>> }

\* Conditional moves, <<first row, condition>>: from memory and from a register for
\* 16, 32 and 64 bits.  The floating point ones have the condition and no opcode.
Cmov(moves) ==
  UNION { {<<c[1], c[1] + 1, "CMOV", c[2], 16, 16, 16>>,
           <<c[1] + 2, c[1] + 3, "CMOV", c[2], 32, 32, 32>>,
           <<c[1] + 4, c[1] + 5, "CMOV", c[2], 64, 64, 64>>} : c \in moves }
CmovFloat(moves) == {<<c[1], c[1] + 3, "NONE", c[2], 0, 0, 0>> : c \in moves}

RowsCmov ==
  Cmov({ <<375, Above>>, <<381, NotBelow>>, <<387, Below>>, <<393, BelowEqual>>,
         <<407, Equal>>, <<417, Greater>>, <<423, GreaterEqual>>, <<429, Less>>,
         <<435, LessEqual>>, <<449, NotEqual>>, <<459, NotOverflow>>, <<465, NotParity>>,
         <<475, NotSigned>>, <<481, Overflow>>, <<487, Parity>>, <<497, Signed>> })
  \cup CmovFloat({ <<399, BelowEqual>>, <<403, Below>>, <<413, Equal>>, <<441, Above>>,
                   <<445, NotBelow>>, <<455, NotEqual>>, <<471, NotParity>>, <<493, Parity>> })

\* CMP and TEST have no destination.
RowsCmp ==
  { <<517, 525, "CMP", 0, 16, 16, 0>>, <<526, 534, "CMP", 0, 32, 32, 0>>,
    <<535, 543, "CMP", 0, 64, 64, 0>>, <<544, 550, "CMP", 0, 8, 8, 0>> }

\* DEC of 16 and of 32 bits is there twice, for 32-bit and for 64-bit code.
RowsDecDiv ==
  OneSize({ <<655, 656, "DEC", 16>>, <<657, 658, "DEC", 32>>, <<659, 660, "DEC", 16>>,
          <<661, 662, "DEC", 32>>, <<663, 664, "DEC", 64>>, <<665, 666, "DEC", 8>> })
  \cup NoSize({<<667, 674, "DIV">>})

\* 877 is IMUL32r, of EAX into EDX:EAX.  Of the increments INC64_32r (910) alone
\* has its size.
RowsImulInc ==
  NoSize({<<848, 855, "IDIV">>, <<903, 909, "INC">>, <<911, 914, "INC">>})
  \cup OneSize({ <<868, 875, "IMUL", 16>>, <<876, 876, "IMUL", 32>>, <<877, 877, "IMULD", 32>>,
               <<878, 883, "IMUL", 32>>, <<884, 891, "IMUL", 64>>, <<892, 893, "IMUL", 8>>,
               <<910, 910, "INC", 32>> })

\* Conditional jumps, <<first row, condition>>: for 1 and 4 bytes of displacement.
Jcc(jumps) == {<<c[1], c[1] + 1, "IF", c[2], 0, 0, 0>> : c \in jumps}

\* JLE_1 (1051) has a size, unlike JLE_4.
RowsJump ==
  Jcc({ <<1034, NotBelow>>, <<1036, Above>>, <<1038, BelowEqual>>, <<1040, Below>>,
        <<1045, Equal>>, <<1047, GreaterEqual>>, <<1049, Greater>>, <<1053, Less>>,
        <<1062, NotEqual>>, <<1064, NotOverflow>>, <<1066, NotParity>>, <<1068, NotSigned>>,
        <<1070, Overflow>>, <<1072, Parity>>, <<1075, Signed>> })
  \cup { <<1051, 1051, "IF", LessEqual, 0, 64, 0>>, <<1052, 1052, "IF", LessEqual, 0, 0, 0>>,
         <<1057, 1057, "JMPM", 0, 64, 0, 0>>, <<1058, 1058, "JMP", 0, 0, 0, 0>>,
         <<1059, 1059, "JMPT", 0, 0, 0, 0>>, <<1060, 1060, "JMP", 0, 8, 0, 0>>,
         <<1061, 1061, "JMP", 0, 32, 0, 0>> }

RowsLea ==
  NoSize({<<1133, 1134, "LEA">>, <<1136, 1136, "LEA">>})
  \cup {<<1135, 1135, "LEA", 0, 64, 0, 32>>, <<1138, 1138, "LEAVE", 0, 64, 0, 0>>}

\* Moves, without MOV32ri64 (1512).  The ones with an absolute address name the size
\* of one side only (1519 to 1522, 1528 to 1531).
RowsMov ==
  OneSize({ <<1489, 1500, "MOV", 16>>, <<1501, 1511, "MOV", 32>>, <<1513, 1518, "MOV", 32>>,
          <<1523, 1527, "MOV", 64>>, <<1530, 1530, "MOV", 64>>, <<1532, 1541, "MOV", 64>>,
          <<1545, 1555, "MOV", 8>> })
  \cup { <<1519, 1519, "MOV", 0, 0, 16, 64>>, <<1520, 1520, "MOV", 0, 0, 32, 64>>,
         <<1521, 1521, "MOV", 0, 0, 64, 64>>, <<1522, 1522, "MOV", 0, 0, 8, 64>>,
         <<1528, 1528, "MOV", 0, 64, 16, 64>>, <<1529, 1529, "MOV", 0, 64, 32, 64>>,
         <<1531, 1531, "MOV", 0, 64, 8, 64>> }
  \cup NoSize({<<1542, 1544, "MOV">>})

\* Moves that extend, <<first, last, opcode, srcB_size, dstA_size>>.
Extend(moves) == {<<b[1], b[2], b[3], 0, 0, b[4], b[5]>> : b \in moves}

RowsMovExtend ==
  OneSize({<<1626, 1626, "MOVS", 64>>, <<1630, 1630, "MOV", 128>>})
  \cup Extend({ <<1634, 1635, "SEX", 8, 16>>, <<1636, 1636, "SEX", 16, 32>>,
                <<1637, 1637, "SEX", 8, 32>>, <<1638, 1638, "SEX", 16, 32>>,
                <<1639, 1639, "SEX", 8, 32>>, <<1640, 1640, "SEX", 16, 64>>,
                <<1641, 1641, "SEX", 32, 64>>, <<1642, 1642, "SEX", 8, 64>>,
                <<1643, 1643, "SEX", 16, 64>>, <<1644, 1644, "SEX", 32, 64>>,
                <<1645, 1645, "SEX", 8, 64>>, <<1660, 1661, "MOV", 8, 16>>,
                <<1662, 1663, "MOV", 8, 32>>, <<1664, 1664, "MOV", 16, 32>>,
                <<1665, 1665, "MOV", 8, 32>>, <<1666, 1666, "MOV", 16, 32>>,
                <<1667, 1667, "MOV", 8, 32>>, <<1668, 1668, "MOV", 16, 64>>,
                <<1669, 1669, "MOV", 8, 64>>, <<1670, 1670, "MOV", 16, 64>>,
                <<1671, 1671, "MOV", 8, 64>> })
  \cup NoSize({<<1674, 1676, "MUL">>, <<1677, 1677, "MULD">>, <<1678, 1681, "MUL">>})

RowsNegOr ==
  NoSize({<<1720, 1727, "NEG">>, <<1728, 1730, "NOP">>, <<1731, 1738, "NOT">>,
         <<1739, 1773, "OR">>})

RowsPop ==
  { <<2017, 2019, "POP", 0, 16, 0, 16>>, <<2020, 2022, "POP", 0, 32, 0, 32>>,
    <<2023, 2025, "POP", 0, 64, 0, 64>>, <<2026, 2047, "POP", 0, 0, 0, 0>> }

\* Of the pushes PUSH64r (2143) alone has its size.
RowsPush ==
  NoSize({<<2134, 2142, "PUSH">>, <<2144, 2166, "PUSH">>, <<2169, 2192, "RCL">>})
  \cup {<<2143, 2143, "PUSH", 0, 64, 0, 0>>}

RowsRotate ==
  NoSize({<<2201, 2224, "RCR">>, <<2259, 2260, "RET">>, <<2265, 2288, "ROL">>,
         <<2289, 2312, "ROR">>})

\* Shifts, <<first, last, opcode, size>>: the count has 8 bits.
Shifts(blocks) == {<<b[1], b[2], b[3], 0, b[4], 8, b[4]>> : b \in blocks}
\* SETCC, <<first row, condition>>: to memory and to a register.
Setcc(sets) == {<<c[1], c[1] + 1, "SETCC", c[2], 8, 8, 8>> : c \in sets}

RowsShiftSet ==
  Shifts({ <<2337, 2342, "SAR", 16>>, <<2343, 2348, "SAR", 32>>, <<2349, 2354, "SAR", 64>>,
           <<2355, 2360, "SAR", 8>>, <<2458, 2463, "SHL", 16>>, <<2464, 2469, "SHL", 32>>,
           <<2470, 2475, "SHL", 64>>, <<2476, 2481, "SHL", 8>> })
  \cup Setcc({ <<2405, NotBelow>>, <<2407, Above>>, <<2409, BelowEqual>>, <<2415, Below>>,
               <<2417, Equal>>, <<2419, GreaterEqual>>, <<2421, Greater>>, <<2423, LessEqual>>,
               <<2425, Less>>, <<2427, NotEqual>>, <<2429, NotOverflow>>, <<2431, NotParity>>,
               <<2433, NotSigned>>, <<2435, Overflow>>, <<2437, Parity>>, <<2439, Signed>> })
  \cup NoSize({<<2365, 2398, "SBB">>})

\* Unlike SHL and SAR, SHR has no sizes.
RowsShrSub ==
  NoSize({<<2498, 2521, "SHR">>})
  \cup OneSize({<<2607, 2615, "SUB", 16>>, <<2616, 2624, "SUB", 32>>,
              <<2625, 2633, "SUB", 64>>, <<2634, 2640, "SUB", 8>>})

RowsTest ==
  { <<2711, 2715, "TEST", 0, 16, 16, 0>>, <<2716, 2720, "TEST", 0, 32, 32, 0>>,
    <<2721, 2725, "TEST", 0, 64, 64, 0>>, <<2726, 2731, "TEST", 0, 8, 8, 0>> }

RowsXor ==
  NoSize({<<5115, 5145, "XOR">>, <<5147, 5148, "XOR">>})
  \cup OneSize({<<5146, 5146, "XOR", 8>>})

Supported ==
  UNION { RowsAdcAdd, RowsAnd, RowsCall, RowsCmov, RowsCmp, RowsDecDiv, RowsImulInc,
          RowsJump, RowsLea, RowsMov, RowsMovExtend, RowsNegOr, RowsPop, RowsPush,
          RowsRotate, RowsShiftSet, RowsShrSub, RowsTest, RowsXor }

RowOf(b) == [op |-> b[3], pred |-> b[4], sizeA |-> b[5], sizeB |-> b[6], sizeD |-> b[7]]
Unsupported == [op |-> "NONE", pred |-> 0, sizeA |-> 0, sizeB |-> 0, sizeD |-> 0]

\* decode_inst_helper[n]
HelperRow(n) ==
  LET of == {b \in Supported : n \in b[1] .. b[2]}
  IN  IF of = {} THEN Unsupported ELSE RowOf(CHOOSE b \in of : TRUE)

\* new_helper[]: for each instruction LLVM has the row of its name; number[n] is
\* the number of the row with name n.
NewHelper(number) == [n \in DOMAIN number |-> HelperRow(number[n])]

\* helper_reg_table[]: the registers that have a name of each size; 0 is "none".
\* SP and BP have none of 16 and 8 bits, SI and DI none of 16.
Numbered == {80 + 8 * k : k \in 0 .. 7}   \* R8 to R15
HighBytes == {9, 17, 25, 33}              \* AH, CH, DH and BH
CS == 176
XMM0 == 256
HelperRegs ==
  LET quarter == {AX, CX, DX, BX} \cup Numbered
      all == quarter \cup {SP, BP, SI, DI, IP}
  IN  [size \in {0, 8, 16, 32, 64, 128} |->
         CASE size = 0 -> {NoReg}
           [] size = 8 -> quarter \cup {SI, DI} \cup HighBytes
           [] size = 16 -> quarter \cup {CS}
           [] size \in {32, 64} -> all
           [] size = 128 -> {XMM0}]
=============================================================================
