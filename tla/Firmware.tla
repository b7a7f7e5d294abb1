------------------------------- MODULE Firmware -------------------------------
(***************************************************************************)
(* What a module makes of the firmware in a module_upgrade_fw request      *)
(* (parseFirmware in modules/module.cpp, alignFirmware in modules/unis.cpp *)
(* and uni.cpp): segments of bytes at any address, joined into blocks, and *)
(* blocks added so that whole pages are written.                           *)
(***************************************************************************)
EXTENDS Naturals, Sequences

CONSTANTS
  BlockSize,     (* FwUpgrade::BLOCK_SIZE                                  *)
  BlocksPerPage  (* UNIS_PAGE_SIZE / BLOCK_SIZE                            *)
ASSUME SizesAssumption == BlockSize \in Nat \ {0} /\ BlocksPerPage \in Nat \ {0}

Unwritten == 255
Blank     == [offset \in 0..(BlockSize - 1) |-> Unwritten]

\* Mutant: a byte of a block that is there already starts it anew.
PutByteAfresh(fw, addr, byte) ==
  LET block == addr \div BlockSize
  IN  [b \in DOMAIN fw \cup {block} |->
         IF b = block THEN [Blank EXCEPT ![addr % BlockSize] = byte] ELSE fw[b]]

\* The body of parseFirmware's loop, for one byte.
PutByte(fw, addr, byte) ==
  LET block == addr \div BlockSize
      old   == IF block \in DOMAIN fw THEN fw[block] ELSE Blank
  IN  [b \in DOMAIN fw \cup {block} |->
         IF b = block THEN [old EXCEPT ![addr % BlockSize] = byte] ELSE fw[b]]

PutSegment(fw, segment) ==
  LET put[i \in 0..Len(segment.data)] ==
        IF i = 0 THEN fw ELSE PutByte(put[i - 1], segment.addr + i - 1, segment.data[i])
  IN  put[Len(segment.data)]

\* The segments are in the order of the keys of the JSON object.
ParseFirmware(segments) ==
  LET parsed[n \in 0..Len(segments)] ==
        IF n = 0 THEN <<>> ELSE PutSegment(parsed[n - 1], segments[n])
  IN  parsed[Len(segments)]

\* Blocks that are there stay as they are.
AlignFirmware(fw) ==
  LET pages  == {block \div BlocksPerPage : block \in DOMAIN fw}
      blocks == {page * BlocksPerPage + i : page \in pages, i \in 0..(BlocksPerPage - 1)}
  IN  [block \in DOMAIN fw \cup blocks |-> IF block \in DOMAIN fw THEN fw[block] ELSE Blank]
=============================================================================
