-------------------------------- MODULE MemStuff --------------------------------
(***************************************************************************)
(* memstuff<SZ>: memory handed out in pieces and taken back all at once.   *)
(*                                                                         *)
(* Source: src/include/memstuff.h.  A memstuff is a list of blocks; alloc  *)
(* takes the first block with enough space left, or appends a new one;     *)
(* clear empties the blocks and keeps them.                                *)
(***************************************************************************)
EXTENDS Integers, Sequences

CONSTANT SZ    (* the least size of a block: 256 in the code               *)

ASSUME SZAssumption == SZ \in Nat \ {0}

(* A block: _size, _bufsize, and the bytes of _buf.                        *)
NewBlock(bz) ==
  LET cap == IF bz < SZ THEN SZ ELSE bz * 2
  IN  [size |-> 0, cap |-> cap, cells |-> [i \in 1 .. cap |-> 0]]

(* Mutant: a block whose free space is one byte short is taken.            *)
HasRoomShort(block, bz) == block.cap - block.size + 1 >= bz

HasRoom(block, bz) == block.cap - block.size >= bz

(* The blocks with a place for bz bytes: the list, or one block more.      *)
WithRoom(blocks, bz) ==
  IF \E i \in 1 .. Len(blocks) : HasRoom(blocks[i], bz)
  THEN blocks ELSE Append(blocks, NewBlock(bz))

(* The first block with room.                                              *)
FirstFit(blocks, bz) ==
  CHOOSE i \in 1 .. Len(WithRoom(blocks, bz)) :
    /\ HasRoom(WithRoom(blocks, bz)[i], bz)
    /\ \A j \in 1 .. i - 1 : ~HasRoom(WithRoom(blocks, bz)[j], bz)

(* alloc: where the piece lies ...                                         *)
AllocAt(blocks, bz) ==
  LET i == FirstFit(blocks, bz)
  IN  [block |-> i, off |-> WithRoom(blocks, bz)[i].size, len |-> bz]

(* ... and the blocks afterwards.                                          *)
Alloc(blocks, bz) ==
  [WithRoom(blocks, bz) EXCEPT ![FirstFit(blocks, bz)].size = @ + bz]

Clear(blocks) == [i \in 1 .. Len(blocks) |-> [blocks[i] EXCEPT !.size = 0]]

(* The bytes of a piece, and the blocks with a piece filled byte by byte.  *)
Bytes(blocks, at) == [i \in 1 .. at.len |-> blocks[at.block].cells[at.off + i]]

Fill(blocks, at, bytes) ==
  [blocks EXCEPT ![at.block].cells =
     [i \in DOMAIN @ |-> IF i - at.off \in 1 .. Len(bytes) THEN bytes[i - at.off] ELSE @[i]]]

(* A piece lies in the used part of a block, and the block in its memory.  *)
Inside(blocks, at) ==
  /\ at.block \in 1 .. Len(blocks)
  /\ 0 <= at.off
  /\ at.off + at.len <= blocks[at.block].size
  /\ blocks[at.block].size <= blocks[at.block].cap

Disjoint(a, b) ==
  a.block # b.block \/ a.off + a.len <= b.off \/ b.off + b.len <= a.off
=============================================================================
