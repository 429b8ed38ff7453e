------------------------------ MODULE StmtProofs ------------------------------
(***************************************************************************)
(* Proofs about Stmt and the memory of MemStuff, for every block size,     *)
(* every set of values and every bound: what StmtItem and StmtRes hand to  *)
(* the client library stays theirs, and reads back as it was written.      *)
(*                                                                         *)
(* The memory lemmas come first: a piece that alloc hands out lies behind  *)
(* everything handed out before (Fresh), and nothing handed out before     *)
(* moves or changes (Keeps).  StmtInv follows from them step by step.      *)
(***************************************************************************)
EXTENDS Stmt, WellFoundedInduction, SequenceTheorems, TLAPS

Cells == UNION {[1 .. n -> Nat] : n \in Nat}
Block == [size : Nat, cap : Nat, cells : Cells]

(* A list of blocks, none used past its end.                               *)
Mem(m) ==
  /\ m \in Seq(Block)
  /\ \A b \in 1 .. Len(m) : m[b].size <= m[b].cap /\ m[b].cells \in [1 .. m[b].cap -> Nat]

(* What is handed out in m lies in m2 too, with the same bytes.            *)
Keeps(m, m2) ==
  \A p \in Piece : Inside(m, p) => Inside(m2, p) /\ Bytes(m2, p) = Bytes(m, p)

(* A piece overlaps nothing that is handed out in m.                       *)
Fresh(m, at) ==
  \A p \in Piece : Inside(m, p) => Disjoint(p, at) /\ Disjoint(at, p)

(* Piece at is handed out on the way from m to m2.                         *)
Hands(m, m2, at) ==
  Mem(m2) /\ at \in Piece /\ Inside(m2, at) /\ Keeps(m, m2) /\ Fresh(m, at)

(* A non-empty set of numbers has a least one.                             *)
LEMMA LeastNat ==
  ASSUME NEW T \in SUBSET Nat, T # {}
  PROVE  \E x \in T : \A y \in T : x <= y
<1> DEFINE R == OpToRel(<, Nat)
<1>1. IsWellFoundedOn(R, Nat)
  BY NatLessThanWellFounded
<1>2. \A x, y \in Nat : x < y => <<x, y>> \in R
  BY DEF OpToRel
<1> HIDE DEF R
<1>3. PICK x \in T : \A y \in T : ~(<<y, x>> \in R)
  BY <1>1, WFMin
<1>4. \A y \in T : x <= y
  <2> SUFFICES ASSUME NEW y \in T PROVE x <= y
    OBVIOUS
  <2>1. x \in Nat /\ y \in Nat
    OBVIOUS
  <2>2. ~(y < x)
    BY <1>2, <1>3, <2>1, Zenon
  <2>3. QED
    BY <2>1, <2>2
<1>5. QED
  BY <1>4

(* A block of a memory, by its fields.                                     *)
LEMMA BlockOf ==
  ASSUME NEW m, Mem(m), NEW b \in 1 .. Len(m)
  PROVE  /\ m[b] \in Block /\ m[b].size \in Nat /\ m[b].cap \in Nat /\ m[b].size <= m[b].cap
         /\ m[b].cells \in [1 .. m[b].cap -> Nat]
<1>1. m[b] \in Block
  BY DEF Mem
<1>2. QED
  BY <1>1 DEF Mem, Block

(* A new block is large enough, and empty.                                 *)
LEMMA NewBlockFits ==
  ASSUME NEW n \in Nat
  PROVE  LET k == NewBlock(n) IN
         k \in Block /\ k.size = 0 /\ k.cells \in [1 .. k.cap -> Nat] /\ HasRoom(k, n)
<1> DEFINE cap == IF n < SZ THEN SZ ELSE n * 2
           cells == [i \in 1 .. cap |-> 0]
<1>1. cap \in Nat /\ cap >= n
  BY SZAssumption
<1> HIDE DEF cap
<1>2. cells \in [1 .. cap -> Nat] /\ cells \in Cells
  BY <1>1 DEF Cells
<1>3. NewBlock(n) = [size |-> 0, cap |-> cap, cells |-> cells]
  BY DEF NewBlock, cap
<1> HIDE DEF cells
<1>4. QED
  BY <1>1, <1>2, <1>3 DEF Block, HasRoom

(* The list alloc searches: it begins with the old one, and has room.      *)
LEMMA WithRoomDoes ==
  ASSUME NEW m, Mem(m), NEW n \in Nat
  PROVE  LET r == WithRoom(m, n) IN
         /\ Mem(r) /\ Len(m) \in Nat /\ Len(r) \in Nat /\ Len(r) >= Len(m)
         /\ \A b \in 1 .. Len(m) : r[b] = m[b]
         /\ \A b \in 1 .. Len(r) : b > Len(m) => r[b].size = 0
         /\ \E b \in 1 .. Len(r) : HasRoom(r[b], n)
<1>1. m \in Seq(Block) /\ Len(m) \in Nat
  BY DEF Mem
<1>2. CASE \E b \in 1 .. Len(m) : HasRoom(m[b], n)
  <2>1. WithRoom(m, n) = m
    BY <1>2 DEF WithRoom
  <2>2. QED
    BY <1>1, <1>2, <2>1
<1>3. CASE ~(\E b \in 1 .. Len(m) : HasRoom(m[b], n))
  <2>1. PICK k : k = NewBlock(n)
    OBVIOUS
  <2>2. k \in Block /\ k.size = 0 /\ k.cells \in [1 .. k.cap -> Nat] /\ HasRoom(k, n)
    BY <2>1, NewBlockFits
  <2>3. PICK r : r = WithRoom(m, n)
    OBVIOUS
  <2>4. r = Append(m, k)
    BY <1>3, <2>1, <2>3 DEF WithRoom
  <2>5. /\ r \in Seq(Block) /\ Len(r) = Len(m) + 1 /\ r[Len(m) + 1] = k
        /\ \A b \in 1 .. Len(m) : r[b] = m[b]
    BY <1>1, <2>2, <2>4
  <2>6. \A b \in 1 .. Len(r) : b \in 1 .. Len(m) \/ b = Len(m) + 1
    BY <1>1, <2>5
  <2>7. k.cap \in Nat /\ k.size <= k.cap
    BY <2>2 DEF Block
  <2>8. Mem(r)
    BY <2>2, <2>5, <2>6, <2>7 DEF Mem
  <2>9. \A b \in 1 .. Len(r) : b > Len(m) => r[b].size = 0
    BY <1>1, <2>2, <2>5, <2>6
  <2>10. Len(m) + 1 \in 1 .. Len(r)
    BY <1>1, <2>5
  <2>11. QED
    BY <1>1, <2>2, <2>3, <2>5, <2>8, <2>9, <2>10
<1>4. QED
  BY <1>2, <1>3

(* The block alloc takes has room.                                         *)
LEMMA FirstFitDoes ==
  ASSUME NEW m, Mem(m), NEW n \in Nat
  PROVE  /\ FirstFit(m, n) \in 1 .. Len(WithRoom(m, n))
         /\ HasRoom(WithRoom(m, n)[FirstFit(m, n)], n)
<1>1. PICK r : r = WithRoom(m, n)
  OBVIOUS
<1>2. Len(r) \in Nat /\ \E b \in 1 .. Len(r) : HasRoom(r[b], n)
  BY <1>1, WithRoomDoes
<1> DEFINE T == {b \in 1 .. Len(r) : HasRoom(r[b], n)}
<1>3. T \in SUBSET Nat /\ T # {}
  BY <1>2
<1>4. PICK x \in T : \A y \in T : x <= y
  BY <1>3, LeastNat
<1>5. x \in 1 .. Len(r) /\ HasRoom(r[x], n) /\ \A j \in 1 .. x - 1 : ~HasRoom(r[j], n)
  BY <1>2, <1>4
<1>6. \E i \in 1 .. Len(r) : HasRoom(r[i], n) /\ \A j \in 1 .. i - 1 : ~HasRoom(r[j], n)
  BY <1>5
<1>7. QED
  BY <1>1, <1>6 DEF FirstFit

(* What alloc does to the blocks.                                          *)
LEMMA AllocBlocks ==
  ASSUME NEW m, Mem(m), NEW n \in Nat, NEW at, at = AllocAt(m, n), NEW m2, m2 = Alloc(m, n)
  PROVE  /\ Mem(m2) /\ Len(m) \in Nat /\ Len(m2) \in Nat /\ Len(m2) >= Len(m)
         /\ \A b \in 1 .. Len(m) : /\ m2[b].cap = m[b].cap /\ m2[b].cells = m[b].cells
                                   /\ m2[b].size >= m[b].size
         /\ at \in Piece /\ at.len = n /\ at.block \in 1 .. Len(m2)
         /\ at.off + n = m2[at.block].size
         /\ at.block \in 1 .. Len(m) => at.off = m[at.block].size
<1>1. PICK r : r = WithRoom(m, n)
  OBVIOUS
<1>2. PICK i : i = FirstFit(m, n)
  OBVIOUS
<1>3. /\ Mem(r) /\ Len(m) \in Nat /\ Len(r) \in Nat /\ Len(r) >= Len(m)
      /\ \A b \in 1 .. Len(m) : r[b] = m[b]
  BY <1>1, WithRoomDoes
<1>4. i \in 1 .. Len(r) /\ HasRoom(r[i], n)
  BY <1>1, <1>2, FirstFitDoes
<1>5. /\ r \in Seq(Block) /\ r[i] \in Block /\ r[i].size \in Nat /\ r[i].cap \in Nat
      /\ r[i].cells \in [1 .. r[i].cap -> Nat] /\ r[i].size + n <= r[i].cap
  BY <1>3, <1>4, BlockOf DEF Mem, HasRoom
<1>6. PICK k : k = [r[i] EXCEPT !.size = @ + n]
  OBVIOUS
<1>7. /\ k \in Block /\ k.size = r[i].size + n /\ k.cap = r[i].cap /\ k.cells = r[i].cells
  <2>1. PICK z : z = r[i]
    OBVIOUS
  <2>2. z \in Block /\ z.size + n \in Nat
    BY <1>5, <2>1
  <2>3. k = [z EXCEPT !.size = z.size + n]
    BY <1>6, <2>1
  <2>4. k \in Block /\ k.size = z.size + n /\ k.cap = z.cap /\ k.cells = z.cells
    BY <2>2, <2>3, Zenon DEF Block
  <2>5. QED
    BY <2>1, <2>4
<1>8. m2 = [r EXCEPT ![i] = k]
  BY <1>1, <1>2, <1>6 DEF Alloc
<1>9. /\ m2 \in Seq(Block) /\ Len(m2) = Len(r) /\ m2[i] = k
      /\ \A b \in 1 .. Len(r) : b # i => m2[b] = r[b]
  BY <1>4, <1>5, <1>7, <1>8
<1>10. Mem(m2)
  <2> SUFFICES ASSUME NEW b \in 1 .. Len(r)
               PROVE  m2[b].size <= m2[b].cap /\ m2[b].cells \in [1 .. m2[b].cap -> Nat]
    BY <1>9 DEF Mem
  <2>1. CASE b = i
    BY <1>5, <1>7, <1>9, <2>1
  <2>2. CASE b # i
    BY <1>3, <1>9, <2>2, BlockOf
  <2>3. QED
    BY <2>1, <2>2
<1>11. ASSUME NEW b \in 1 .. Len(m)
       PROVE  /\ m2[b].cap = m[b].cap /\ m2[b].cells = m[b].cells /\ m2[b].size >= m[b].size
  <2>1. b \in 1 .. Len(r) /\ r[b] = m[b] /\ m[b].size \in Nat
    BY <1>3, BlockOf
  <2>2. CASE b = i
    BY <1>5, <1>7, <1>9, <2>1, <2>2
  <2>3. CASE b # i
    BY <1>9, <2>1, <2>3
  <2>4. QED
    BY <2>2, <2>3
<1>12. at = [block |-> i, off |-> r[i].size, len |-> n]
  BY <1>1, <1>2 DEF AllocAt
<1>13. /\ at \in Piece /\ at.len = n /\ at.block = i /\ at.off = r[i].size
  BY <1>3, <1>4, <1>5, <1>12 DEF Piece
<1>14. QED
  BY <1>3, <1>4, <1>7, <1>9, <1>10, <1>11, <1>13

(* A piece that lies inside, by its numbers.                               *)
LEMMA InsideFacts ==
  ASSUME NEW m, Mem(m), NEW p \in Piece, Inside(m, p)
  PROVE  /\ p.block \in 1 .. Len(m) /\ p.off \in Nat /\ p.len \in Nat
         /\ p.off + p.len <= m[p.block].size
         /\ m[p.block].size \in Nat /\ m[p.block].cap \in Nat /\ m[p.block].size <= m[p.block].cap
         /\ m[p.block].cells \in [1 .. m[p.block].cap -> Nat]
         /\ \A i \in 1 .. p.len : p.off + i \in 1 .. m[p.block].cap
<1>1. p.block \in 1 .. Len(m) /\ p.off \in Nat /\ p.len \in Nat /\ p.off + p.len <= m[p.block].size
  BY DEF Inside, Piece
<1>2. /\ m[p.block].size \in Nat /\ m[p.block].cap \in Nat /\ m[p.block].size <= m[p.block].cap
      /\ m[p.block].cells \in [1 .. m[p.block].cap -> Nat]
  BY <1>1, BlockOf
<1>3. ASSUME NEW i \in 1 .. p.len
      PROVE  p.off + i \in 1 .. m[p.block].cap
  <2>1. PICK o, l, z, c : o = p.off /\ l = p.len /\ z = m[p.block].size /\ c = m[p.block].cap
    OBVIOUS
  <2>2. o \in Nat /\ l \in Nat /\ z \in Nat /\ c \in Nat /\ o + l <= z /\ z <= c /\ i \in 1 .. l
    BY <1>1, <1>2, <1>3, <2>1
  <2>3. o + i \in 1 .. c
    BY <2>2
  <2>4. QED
    BY <2>1, <2>3
<1>4. QED
  BY <1>1, <1>2, <1>3

(* A list of blocks that grew, the cells of the old part as they were.     *)
LEMMA GrownKeeps ==
  ASSUME NEW m, Mem(m), NEW m2, Mem(m2), Len(m) \in Nat, Len(m2) \in Nat, Len(m2) >= Len(m),
         \A b \in 1 .. Len(m) : /\ m2[b].cap = m[b].cap /\ m2[b].cells = m[b].cells
                                /\ m2[b].size >= m[b].size
  PROVE  Keeps(m, m2)
<1> SUFFICES ASSUME NEW p \in Piece, Inside(m, p)
             PROVE  Inside(m2, p) /\ Bytes(m2, p) = Bytes(m, p)
  BY DEF Keeps
<1>1. /\ p.block \in 1 .. Len(m) /\ p.off \in Nat /\ p.len \in Nat
      /\ p.off + p.len <= m[p.block].size /\ m[p.block].size \in Nat
  BY InsideFacts
<1>2. /\ p.block \in 1 .. Len(m2) /\ m2[p.block].cells = m[p.block].cells
      /\ m2[p.block].size >= m[p.block].size
  BY <1>1
<1>3. m2[p.block].size \in Nat /\ m2[p.block].size <= m2[p.block].cap
  BY <1>2, BlockOf
<1>4. Inside(m2, p)
  BY <1>1, <1>2, <1>3 DEF Inside
<1>5. Bytes(m2, p) = Bytes(m, p)
  BY <1>2 DEF Bytes
<1>6. QED
  BY <1>4, <1>5

(* alloc hands out a piece that overlaps nothing handed out before.        *)
LEMMA AllocHands ==
  ASSUME NEW m, Mem(m), NEW n \in Nat
  PROVE  Hands(m, Alloc(m, n), AllocAt(m, n)) /\ AllocAt(m, n).len = n
<1>1. PICK at, m2 : at = AllocAt(m, n) /\ m2 = Alloc(m, n)
  OBVIOUS
<1>2. /\ Mem(m2) /\ Len(m) \in Nat /\ Len(m2) \in Nat /\ Len(m2) >= Len(m)
      /\ \A b \in 1 .. Len(m) : /\ m2[b].cap = m[b].cap /\ m2[b].cells = m[b].cells
                                /\ m2[b].size >= m[b].size
      /\ at \in Piece /\ at.len = n /\ at.block \in 1 .. Len(m2)
      /\ at.off + n = m2[at.block].size
      /\ at.block \in 1 .. Len(m) => at.off = m[at.block].size
  BY <1>1, AllocBlocks
<1>3. Inside(m2, at)
  <2>1. m2[at.block].size <= m2[at.block].cap
    BY <1>2, BlockOf
  <2>2. at.off \in Nat /\ at.off + at.len <= m2[at.block].size
    BY <1>2 DEF Piece
  <2>3. QED
    BY <1>2, <2>1, <2>2 DEF Inside
<1>4. Keeps(m, m2)
  BY <1>2, GrownKeeps
<1>5. Fresh(m, at)
  <2> SUFFICES ASSUME NEW p \in Piece, Inside(m, p)
               PROVE  Disjoint(p, at) /\ Disjoint(at, p)
    BY DEF Fresh
  <2>1. /\ p.block \in 1 .. Len(m) /\ p.off + p.len <= m[p.block].size
    BY InsideFacts
  <2>2. p.block = at.block => p.off + p.len <= at.off
    BY <1>2, <2>1
  <2>3. QED
    BY <2>2 DEF Disjoint
<1>6. QED
  BY <1>1, <1>2, <1>3, <1>4, <1>5 DEF Hands

(* A function on the first n numbers is a sequence of length n.            *)
LEMMA FunctionIsSeq ==
  ASSUME NEW S, NEW n \in Nat, NEW f \in [1 .. n -> S]
  PROVE  f \in Seq(S) /\ Len(f) = n
  OBVIOUS

(* The bytes of a piece are numbers.                                       *)
LEMMA BytesType ==
  ASSUME NEW m, Mem(m), NEW p \in Piece, Inside(m, p)
  PROVE  Bytes(m, p) \in Seq(Nat) /\ Len(Bytes(m, p)) = p.len
<1>1. /\ p.len \in Nat /\ m[p.block].cells \in [1 .. m[p.block].cap -> Nat]
      /\ \A i \in 1 .. p.len : p.off + i \in 1 .. m[p.block].cap
  BY InsideFacts
<1>2. Bytes(m, p) \in [1 .. p.len -> Nat]
  BY <1>1 DEF Bytes
<1>3. QED
  BY <1>1, <1>2, FunctionIsSeq

(* What writing into a piece does to the blocks.                           *)
LEMMA FillBlocks ==
  ASSUME NEW m, Mem(m), NEW at \in Piece, Inside(m, at), NEW s \in Seq(Nat), Len(s) = at.len,
         NEW m2, m2 = Fill(m, at, s)
  PROVE  /\ Mem(m2) /\ Len(m2) = Len(m)
         /\ \A b \in 1 .. Len(m) : m2[b].size = m[b].size /\ m2[b].cap = m[b].cap
         /\ \A b \in 1 .. Len(m) : b # at.block => m2[b].cells = m[b].cells
         /\ \A i \in 1 .. m[at.block].cap :
              m2[at.block].cells[i] = IF i - at.off \in 1 .. at.len THEN s[i - at.off]
                                      ELSE m[at.block].cells[i]
<1>1. PICK a : a = at.block
  OBVIOUS
<1>2. PICK z : z = m[a]
  OBVIOUS
<1>3. /\ a \in 1 .. Len(m) /\ z \in Block /\ z.size \in Nat /\ z.cap \in Nat /\ z.size <= z.cap
      /\ z.cells \in [1 .. z.cap -> Nat] /\ at.off \in Nat /\ at.len \in Nat /\ m \in Seq(Block)
  BY <1>1, <1>2, InsideFacts, BlockOf DEF Mem
<1>4. PICK cells : cells = [i \in DOMAIN z.cells |-> IF i - at.off \in 1 .. Len(s) THEN s[i - at.off]
                                                    ELSE z.cells[i]]
  OBVIOUS
<1>5. /\ cells \in [1 .. z.cap -> Nat]
      /\ \A i \in 1 .. z.cap : cells[i] = IF i - at.off \in 1 .. at.len THEN s[i - at.off] ELSE z.cells[i]
  <2>1. DOMAIN z.cells = 1 .. z.cap /\ \A i \in 1 .. Len(s) : s[i] \in Nat
    BY <1>3
  <2>2. QED
    BY <1>3, <1>4, <2>1
<1>6. PICK k : k = [z EXCEPT !.cells = cells]
  OBVIOUS
<1>7. cells \in Cells
  BY <1>3, <1>5 DEF Cells
<1>8. k \in Block /\ k.size = z.size /\ k.cap = z.cap /\ k.cells = cells
  BY <1>3, <1>6, <1>7, Zenon DEF Block
<1>9. m2 = [m EXCEPT ![a] = k]
  BY <1>1, <1>2, <1>4, <1>6 DEF Fill
<1>10. /\ m2 \in Seq(Block) /\ Len(m2) = Len(m) /\ m2[a] = k
       /\ \A b \in 1 .. Len(m) : b # a => m2[b] = m[b]
  BY <1>3, <1>8, <1>9
<1>11. ASSUME NEW b \in 1 .. Len(m)
       PROVE  /\ m2[b].size <= m2[b].cap /\ m2[b].cells \in [1 .. m2[b].cap -> Nat]
              /\ m2[b].size = m[b].size /\ m2[b].cap = m[b].cap
  <2>1. CASE b = a
    BY <1>2, <1>3, <1>5, <1>8, <1>10, <2>1
  <2>2. CASE b # a
    BY <1>10, <2>2, BlockOf
  <2>3. QED
    BY <2>1, <2>2
<1>12. Mem(m2)
  BY <1>10, <1>11 DEF Mem
<1>13. \A i \in 1 .. m[at.block].cap :
         m2[at.block].cells[i] = IF i - at.off \in 1 .. at.len THEN s[i - at.off] ELSE m[at.block].cells[i]
  BY <1>1, <1>2, <1>5, <1>8, <1>10
<1>14. QED
  BY <1>1, <1>10, <1>11, <1>12, <1>13

(* A piece that was filled reads as what was written, the others as        *)
(* before.                                                                 *)
LEMMA FillReads ==
  ASSUME NEW m, Mem(m), NEW at \in Piece, Inside(m, at), NEW s \in Seq(Nat), Len(s) = at.len
  PROVE  /\ Mem(Fill(m, at, s)) /\ Bytes(Fill(m, at, s), at) = s
         /\ \A p \in Piece : Inside(m, p) => Inside(Fill(m, at, s), p)
         /\ \A p \in Piece : Inside(m, p) /\ Disjoint(p, at) =>
                               Bytes(Fill(m, at, s), p) = Bytes(m, p)
<1>1. PICK m2 : m2 = Fill(m, at, s)
  OBVIOUS
<1>2. /\ Mem(m2) /\ Len(m2) = Len(m)
      /\ \A b \in 1 .. Len(m) : m2[b].size = m[b].size /\ m2[b].cap = m[b].cap
      /\ \A b \in 1 .. Len(m) : b # at.block => m2[b].cells = m[b].cells
      /\ \A i \in 1 .. m[at.block].cap :
           m2[at.block].cells[i] = IF i - at.off \in 1 .. at.len THEN s[i - at.off]
                                   ELSE m[at.block].cells[i]
  BY <1>1, FillBlocks
<1>3. ASSUME NEW p \in Piece, Inside(m, p)
      PROVE  Inside(m2, p)
  BY <1>2, <1>3 DEF Inside
<1>4. Bytes(m2, at) = s
  <2>1. at.off \in Nat /\ at.len \in Nat /\ \A i \in 1 .. at.len : at.off + i \in 1 .. m[at.block].cap
    BY InsideFacts
  <2>2. ASSUME NEW i \in 1 .. at.len
        PROVE  m2[at.block].cells[at.off + i] = s[i]
    <3>1. (at.off + i) - at.off = i
      BY <2>1
    <3>2. at.off + i \in 1 .. m[at.block].cap
      BY <2>1
    <3>3. QED
      BY <1>2, <3>1, <3>2
  <2>3. s = [i \in 1 .. at.len |-> s[i]]
    BY <2>1
  <2>4. QED
    BY <2>2, <2>3 DEF Bytes
<1>5. ASSUME NEW p \in Piece, Inside(m, p), Disjoint(p, at)
      PROVE  Bytes(m2, p) = Bytes(m, p)
  <2>1. /\ p.off \in Nat /\ p.len \in Nat /\ at.off \in Nat /\ at.len \in Nat /\ p.block \in 1 .. Len(m)
        /\ \A i \in 1 .. p.len : p.off + i \in 1 .. m[p.block].cap
    BY <1>5, InsideFacts
  <2>2. ASSUME NEW i \in 1 .. p.len
        PROVE  m2[p.block].cells[p.off + i] = m[p.block].cells[p.off + i]
    <3>1. CASE p.block # at.block
      BY <1>2, <2>1, <3>1
    <3>2. CASE p.block = at.block
      <4>1. p.off + p.len <= at.off \/ at.off + at.len <= p.off
        BY <1>5, <3>2 DEF Disjoint
      <4>2. ~((p.off + i) - at.off \in 1 .. at.len)
        <5>1. PICK o, l, q, k : o = p.off /\ l = p.len /\ q = at.off /\ k = at.len
          OBVIOUS
        <5>2. /\ o \in Nat /\ l \in Nat /\ q \in Nat /\ k \in Nat /\ i \in 1 .. l
              /\ o + l <= q \/ q + k <= o
          BY <2>1, <4>1, <5>1
        <5>3. ~((o + i) - q \in 1 .. k)
          BY <5>2
        <5>4. QED
          BY <5>1, <5>3
      <4>3. p.off + i \in 1 .. m[at.block].cap
        BY <2>1, <3>2
      <4>4. QED
        BY <1>2, <3>2, <4>2, <4>3
    <3>3. QED
      BY <3>1, <3>2
  <2>3. QED
    BY <2>2 DEF Bytes
<1>6. QED
  BY <1>1, <1>2, <1>3, <1>4, <1>5

(* alloc, and the piece filled: the way operator<< takes a value.          *)
LEMMA TakeHands ==
  ASSUME NEW m, Mem(m), NEW n \in Nat, NEW s \in Seq(Nat), Len(s) = n,
         NEW at, at = AllocAt(m, n), NEW m2, m2 = Fill(Alloc(m, n), at, s)
  PROVE  Hands(m, m2, at) /\ at.len = n /\ Bytes(m2, at) = s
<1>1. PICK r : r = Alloc(m, n)
  OBVIOUS
<1>2. /\ Mem(r) /\ at \in Piece /\ Inside(r, at) /\ Keeps(m, r) /\ Fresh(m, at) /\ at.len = n
      /\ m2 = Fill(r, at, s)
  BY <1>1, AllocHands DEF Hands
<1>3. /\ Mem(m2) /\ Bytes(m2, at) = s
      /\ \A p \in Piece : Inside(r, p) => Inside(m2, p)
      /\ \A p \in Piece : Inside(r, p) /\ Disjoint(p, at) => Bytes(m2, p) = Bytes(r, p)
  BY <1>2, FillReads
<1>4. Keeps(m, m2)
  BY <1>2, <1>3 DEF Keeps, Fresh
<1>5. QED
  BY <1>2, <1>3, <1>4 DEF Hands

(* Two pieces handed out one after the other.                              *)
LEMMA HandsTwice ==
  ASSUME NEW m, NEW m2, NEW m3, NEW a, NEW b, Hands(m, m2, a), Hands(m2, m3, b)
  PROVE  /\ Mem(m3) /\ Keeps(m, m3) /\ Fresh(m, b) /\ Inside(m3, a) /\ Bytes(m3, a) = Bytes(m2, a)
         /\ Disjoint(a, b) /\ Disjoint(b, a)
  BY DEF Hands, Keeps, Fresh

(* clear empties every block.                                              *)
LEMMA ClearMem ==
  ASSUME NEW m, Mem(m)
  PROVE  Mem(Clear(m))
<1>1. ASSUME NEW b \in 1 .. Len(m)
      PROVE  LET k == [m[b] EXCEPT !.size = 0] IN
             k \in Block /\ k.size <= k.cap /\ k.cells \in [1 .. k.cap -> Nat]
  <2>1. PICK z : z = m[b]
    OBVIOUS
  <2>2. z \in Block /\ z.cap \in Nat /\ z.cells \in [1 .. z.cap -> Nat]
    BY <2>1, BlockOf
  <2>3. PICK k : k = [z EXCEPT !.size = 0]
    OBVIOUS
  <2>4. k \in Block /\ k.size = 0 /\ k.cap = z.cap /\ k.cells = z.cells
    <3>1. 0 \in Nat
      OBVIOUS
    <3>2. QED
      BY <2>2, <2>3, <3>1, Zenon DEF Block
  <2>5. QED
    BY <2>1, <2>2, <2>3, <2>4
<1>2. Len(m) \in Nat
  BY DEF Mem
<1>3. PICK c : c = Clear(m)
  OBVIOUS
<1>4. c \in Seq(Block) /\ Len(c) = Len(m) /\ \A b \in 1 .. Len(m) : c[b] = [m[b] EXCEPT !.size = 0]
  BY <1>1, <1>2, <1>3 DEF Clear
<1>5. QED
  BY <1>1, <1>3, <1>4 DEF Mem

-----------------------------------------------------------------------------
(* The values streamed into a StmtItem.                                    *)

Bind == [buffer : Piece, length : Piece]
ItemFields == {"buffer", "length"}

(* A pointer that is set points to memory handed out.                      *)
Held(m, p) == p = NoPiece \/ Inside(m, p)

(* What a bind reads as, in memory m.                                      *)
Reads(m, b) ==
  IF b.length = NoPiece THEN Bytes(m, b.buffer)
  ELSE SubSeq(Bytes(m, b.buffer), 1, Bytes(m, b.length)[1])

(* The binds bs hold the values vs in the memory m.                        *)
ItemOK(m, bs, vs) ==
  /\ Mem(m) /\ bs \in Seq(Bind) /\ vs \in Seq(Seq(Nat)) /\ Len(vs) = Len(bs)
  /\ \A i \in 1 .. Len(bs) : Inside(m, bs[i].buffer) /\ Held(m, bs[i].length)
  /\ \A i \in 1 .. Len(bs) : Reads(m, bs[i]) = vs[i]
  /\ Apart(m, bs, ItemFields)

(* A pointer that is not set overlaps nothing.                             *)
LEMMA NoPieceApart ==
  ASSUME NEW m, Mem(m), NEW p \in Piece, Inside(m, p)
  PROVE  Disjoint(p, NoPiece) /\ Disjoint(NoPiece, p) /\ p # NoPiece
<1>1. p.block \in 1 .. Len(m)
  BY DEF Inside
<1>2. p.block # 0 /\ NoPiece.block = 0
  BY <1>1 DEF NoPiece
<1>3. QED
  BY <1>2 DEF Disjoint

(* A record more, all its pieces new: pieces stay apart.                   *)
LEMMA ApartGrows ==
  ASSUME NEW m, Mem(m), NEW m2, Mem(m2), Keeps(m, m2),
         NEW R, NEW recs \in Seq(R), NEW x \in R, NEW F, \A r \in R, f \in F : r[f] \in Piece,
         Apart(m, recs, F),
         \A f \in F : x[f] = NoPiece \/ (Inside(m2, x[f]) /\ Fresh(m, x[f])),
         \A f, g \in F : f # g => Disjoint(x[f], x[g])
  PROVE  Apart(m2, Append(recs, x), F)
<1>1. PICK s, n : s = Append(recs, x) /\ n = Len(recs)
  OBVIOUS
<1>2. /\ n \in Nat /\ Len(s) = n + 1 /\ s[n + 1] = x
      /\ \A i \in 1 .. n : s[i] = recs[i] /\ recs[i] \in R
  BY <1>1
<1>3. \A i \in 1 .. Len(s) : i \in 1 .. n \/ i = n + 1
  BY <1>2
<1>4. ASSUME NEW i \in 1 .. n, NEW f \in F, recs[i][f] # NoPiece
      PROVE  Inside(m, recs[i][f]) /\ recs[i][f] \in Piece /\ Inside(m2, recs[i][f])
  BY <1>1, <1>2, <1>4 DEF Apart, Keeps
<1>5. ASSUME NEW i \in 1 .. Len(s), NEW j \in 1 .. Len(s), NEW f \in F, NEW g \in F,
             s[i][f] # NoPiece
      PROVE  Inside(m2, s[i][f]) /\ (i # j \/ f # g => Disjoint(s[i][f], s[j][g]))
  <2>1. CASE i \in 1 .. n
    <3>1. /\ s[i][f] = recs[i][f] /\ recs[i][f] # NoPiece
          /\ Inside(m, recs[i][f]) /\ recs[i][f] \in Piece /\ Inside(m2, recs[i][f])
      BY <1>2, <1>4, <1>5, <2>1
    <3>2. CASE j \in 1 .. n
      <4>1. s[j][g] = recs[j][g]
        BY <1>2, <3>2
      <4>2. QED
        BY <1>1, <2>1, <3>1, <3>2, <4>1 DEF Apart
    <3>3. CASE j = n + 1
      <4>1. Disjoint(recs[i][f], x[g])
        BY <3>1, NoPieceApart DEF Fresh
      <4>2. QED
        BY <1>2, <3>1, <3>3, <4>1
    <3>4. QED
      BY <1>3, <3>2, <3>3
  <2>2. CASE i = n + 1
    <3>1. s[i] = x /\ x[f] # NoPiece /\ Inside(m2, x[f]) /\ Fresh(m, x[f]) /\ x[f] \in Piece
      BY <1>2, <1>5, <2>2
    <3>2. CASE j \in 1 .. n
      <4>1. s[j][g] = recs[j][g]
        BY <1>2, <3>2
      <4>2. CASE recs[j][g] = NoPiece
        BY <3>1, <4>1, <4>2, NoPieceApart
      <4>3. CASE recs[j][g] # NoPiece
        BY <1>4, <3>1, <3>2, <4>1, <4>3 DEF Fresh
      <4>4. QED
        BY <4>2, <4>3
    <3>3. CASE j = n + 1
      BY <1>2, <2>2, <3>1, <3>3
    <3>4. QED
      BY <1>3, <3>2, <3>3
  <2>3. QED
    BY <1>3, <2>1, <2>2
<1>6. QED
  BY <1>1, <1>5 DEF Apart

(* A value more.                                                           *)
LEMMA ItemGrows ==
  ASSUME NEW m, NEW bs, NEW vs, ItemOK(m, bs, vs), NEW m2, Mem(m2), Keeps(m, m2),
         NEW x \in Bind, Inside(m2, x.buffer), Fresh(m, x.buffer),
         x.length = NoPiece \/ (Inside(m2, x.length) /\ Fresh(m, x.length)),
         Disjoint(x.buffer, x.length), Disjoint(x.length, x.buffer),
         NEW v \in Seq(Nat), Reads(m2, x) = v
  PROVE  ItemOK(m2, Append(bs, x), Append(vs, v))
<1>1. PICK s, u, n : s = Append(bs, x) /\ u = Append(vs, v) /\ n = Len(bs)
  OBVIOUS
<1>2. /\ Mem(m) /\ bs \in Seq(Bind) /\ vs \in Seq(Seq(Nat)) /\ Len(vs) = n
      /\ \A i \in 1 .. n : Inside(m, bs[i].buffer) /\ Held(m, bs[i].length)
      /\ \A i \in 1 .. n : Reads(m, bs[i]) = vs[i]
      /\ Apart(m, bs, ItemFields)
  BY <1>1 DEF ItemOK
<1>3. /\ s \in Seq(Bind) /\ n \in Nat /\ Len(s) = n + 1 /\ s[n + 1] = x
      /\ \A i \in 1 .. n : s[i] = bs[i] /\ bs[i] \in Bind
  BY <1>1, <1>2
<1>4. /\ u \in Seq(Seq(Nat)) /\ Len(u) = n + 1 /\ u[n + 1] = v
      /\ \A i \in 1 .. n : u[i] = vs[i]
  BY <1>1, <1>2
<1>5. \A i \in 1 .. Len(s) : i \in 1 .. n \/ i = n + 1
  BY <1>3
<1>6. ASSUME NEW i \in 1 .. n
      PROVE  Inside(m2, bs[i].buffer) /\ Held(m2, bs[i].length) /\ Reads(m2, bs[i]) = vs[i]
  <2>1. bs[i].buffer \in Piece /\ bs[i].length \in Piece
    BY <1>3 DEF Bind
  <2>2. Inside(m2, bs[i].buffer) /\ Bytes(m2, bs[i].buffer) = Bytes(m, bs[i].buffer)
    BY <1>2, <2>1 DEF Keeps
  <2>3. CASE bs[i].length = NoPiece
    BY <1>2, <2>2, <2>3 DEF Held, Reads
  <2>4. CASE bs[i].length # NoPiece
    <3>1. Inside(m2, bs[i].length) /\ Bytes(m2, bs[i].length) = Bytes(m, bs[i].length)
      BY <1>2, <2>1, <2>4 DEF Keeps, Held
    <3>2. QED
      BY <1>2, <2>2, <2>4, <3>1 DEF Held, Reads
  <2>5. QED
    BY <2>3, <2>4
<1>7. ASSUME NEW i \in 1 .. Len(s)
      PROVE  Inside(m2, s[i].buffer) /\ Held(m2, s[i].length) /\ Reads(m2, s[i]) = u[i]
  <2>1. CASE i \in 1 .. n
    BY <1>3, <1>4, <1>6, <2>1
  <2>2. CASE i = n + 1
    BY <1>3, <1>4, <2>2 DEF Held
  <2>3. QED
    BY <1>5, <2>1, <2>2
<1>8. Apart(m2, s, ItemFields)
  <2>1. \A r \in Bind, f \in ItemFields : r[f] \in Piece
    BY DEF Bind, ItemFields
  <2>2. \A f \in ItemFields : x[f] = NoPiece \/ (Inside(m2, x[f]) /\ Fresh(m, x[f]))
    BY DEF ItemFields
  <2>3. \A f, g \in ItemFields : f # g => Disjoint(x[f], x[g])
    BY DEF ItemFields
  <2>4. QED
    BY <1>1, <1>2, <2>1, <2>2, <2>3, ApartGrows
<1>9. QED
  BY <1>1, <1>3, <1>4, <1>7, <1>8 DEF ItemOK

(* Nothing streamed.                                                       *)
LEMMA ItemEmpty ==
  ASSUME NEW m, Mem(m)
  PROVE  ItemOK(m, <<>>, <<>>)
<1>1. \A i \in 1 .. Len(<<>>) : FALSE
  OBVIOUS
<1>2. QED
  BY <1>1 DEF ItemOK, Apart

(* The binds of a full row read as the values.                             *)
LEMMA RowReads ==
  ASSUME NEW m, NEW bs, NEW vs, ItemOK(m, bs, vs), NEW n, n = Len(bs)
  PROVE  [i \in 1 .. n |-> Reads(m, bs[i])] = vs
<1>1. vs \in Seq(Seq(Nat)) /\ Len(vs) = n /\ \A i \in 1 .. n : Reads(m, bs[i]) = vs[i]
  BY DEF ItemOK
<1>2. vs = [i \in 1 .. n |-> vs[i]]
  BY <1>1
<1>3. QED
  BY <1>1, <1>2

(* A value of n equal bytes.                                               *)
LEMMA RepeatSeq ==
  ASSUME NEW k \in Nat, NEW n \in Nat
  PROVE  /\ Repeat(k, n) \in Seq(Nat) /\ Len(Repeat(k, n)) = n
         /\ \A i \in 1 .. n : Repeat(k, n)[i] = k
<1>1. Repeat(k, n) \in [1 .. n -> Nat] /\ \A i \in 1 .. n : Repeat(k, n)[i] = k
  BY DEF Repeat
<1>2. QED
  BY <1>1, FunctionIsSeq

(* operator<< of a number.                                                 *)
LEMMA NumberBound ==
  ASSUME NEW m, NEW bs, NEW vs, ItemOK(m, bs, vs), NEW k \in Nat, NEW n \in Nat,
         NEW at, at = AllocAt(m, n), NEW m2, m2 = Fill(Alloc(m, n), at, Repeat(k, n))
  PROVE  ItemOK(m2, Append(bs, [buffer |-> at, length |-> NoPiece]), Append(vs, Repeat(k, n)))
<1>1. PICK v : v = Repeat(k, n)
  OBVIOUS
<1>2. v \in Seq(Nat) /\ Len(v) = n
  BY <1>1, RepeatSeq
<1>3. Mem(m)
  BY DEF ItemOK
<1>4. Hands(m, m2, at) /\ Bytes(m2, at) = v
  BY <1>1, <1>2, <1>3, TakeHands
<1>5. PICK x : x = [buffer |-> at, length |-> NoPiece]
  OBVIOUS
<1>6. x.buffer = at /\ x.length = NoPiece
  BY <1>5
<1>7. NoPiece \in Piece
  BY DEF NoPiece, Piece
<1>8. x \in Bind
  BY <1>4, <1>5, <1>7 DEF Hands, Bind
<1>9. Reads(m2, x) = v
  BY <1>4, <1>6 DEF Reads
<1>10. Mem(m2) /\ Keeps(m, m2) /\ at \in Piece /\ Inside(m2, at) /\ Fresh(m, at)
  BY <1>4 DEF Hands
<1>11. Disjoint(at, NoPiece) /\ Disjoint(NoPiece, at)
  BY <1>10, NoPieceApart
<1>12. ItemOK(m2, Append(bs, x), Append(vs, v))
  BY <1>2, <1>6, <1>8, <1>9, <1>10, <1>11, ItemGrows
<1>13. QED
  BY <1>1, <1>5, <1>12

(* operator<< of a string: the string, its terminator, and the word.       *)
LEMMA StringBound ==
  ASSUME NEW m, NEW bs, NEW vs, ItemOK(m, bs, vs), NEW k \in Nat, NEW n \in Nat,
         NEW at, at = AllocAt(m, n + 1),
         NEW mid, mid = Fill(Alloc(m, n + 1), at, Append(Repeat(k, n), 0)),
         NEW wat, wat = AllocAt(mid, WordSize),
         NEW m2, m2 = Fill(Alloc(mid, WordSize), wat, Repeat(n, WordSize))
  PROVE  ItemOK(m2, Append(bs, [buffer |-> at, length |-> wat]), Append(vs, Repeat(k, n)))
<1>1. PICK v, t, z : v = Repeat(k, n) /\ t = Append(Repeat(k, n), 0) /\ z = Repeat(n, WordSize)
  OBVIOUS
<1>2. v \in Seq(Nat) /\ Len(v) = n
  BY <1>1, RepeatSeq
<1>3. t \in Seq(Nat) /\ Len(t) = n + 1 /\ SubSeq(t, 1, n) = v
  BY <1>1, <1>2
<1>4. WordSize \in Nat /\ 1 \in 1 .. WordSize
  BY StmtAssumption
<1>5. z \in Seq(Nat) /\ Len(z) = WordSize /\ z[1] = n
  BY <1>1, <1>4, RepeatSeq
<1>6. Mem(m) /\ n + 1 \in Nat
  BY DEF ItemOK
<1>7. Hands(m, mid, at) /\ Bytes(mid, at) = t
  <2>1. PICK n1 \in Nat : n1 = n + 1
    BY <1>6
  <2>2. at = AllocAt(m, n1) /\ mid = Fill(Alloc(m, n1), at, t) /\ Len(t) = n1
    BY <1>1, <1>3, <2>1
  <2>3. QED
    BY <1>3, <1>6, <2>2, TakeHands
<1>8. Mem(mid)
  BY <1>7 DEF Hands
<1>9. Hands(mid, m2, wat) /\ Bytes(m2, wat) = z
  BY <1>1, <1>4, <1>5, <1>8, TakeHands
<1>10. /\ Mem(m2) /\ Keeps(m, m2) /\ Fresh(m, wat) /\ Inside(m2, at) /\ Bytes(m2, at) = t
       /\ Disjoint(at, wat) /\ Disjoint(wat, at)
  BY <1>7, <1>9, HandsTwice
<1>11. at \in Piece /\ wat \in Piece /\ Inside(m2, wat) /\ Fresh(m, at)
  BY <1>7, <1>9 DEF Hands
<1>12. PICK x : x = [buffer |-> at, length |-> wat]
  OBVIOUS
<1>13. x.buffer = at /\ x.length = wat /\ x \in Bind
  BY <1>11, <1>12 DEF Bind
<1>14. wat # NoPiece
  BY <1>10, <1>11, NoPieceApart
<1>15. Reads(m2, x) = v
  BY <1>3, <1>5, <1>9, <1>10, <1>13, <1>14 DEF Reads
<1>16. ItemOK(m2, Append(bs, x), Append(vs, v))
  BY <1>2, <1>10, <1>11, <1>13, <1>15, ItemGrows
<1>17. QED
  BY <1>1, <1>12, <1>16

-----------------------------------------------------------------------------
(* The columns of a StmtRes.                                               *)

Col == [size : Nat, buffer : Piece, isnull : Piece, error : Piece]
ResFields == {"buffer", "isnull", "error"}

(* The pointers of a column lie in memory that is large enough.            *)
ColOK(m, c) ==
  /\ Inside(m, c.buffer) /\ Inside(m, c.isnull) /\ Inside(m, c.error)
  /\ c.size <= c.buffer.len /\ c.isnull.len = 1 /\ c.error.len = 1

ResOK(m, cs) ==
  /\ Mem(m) /\ cs \in Seq(Col)
  /\ \A k \in 1 .. Len(cs) : ColOK(m, cs[k])
  /\ Apart(m, cs, ResFields)

(* No columns.                                                             *)
LEMMA ResEmpty == ResOK(<<>>, <<>>)
<1>1. \A i \in 1 .. Len(<<>>) : FALSE
  OBVIOUS
<1>2. <<>> \in Seq(Block) /\ <<>> \in Seq(Col)
  OBVIOUS
<1>3. QED
  BY <1>1, <1>2 DEF ResOK, Apart, Mem

(* A turn of the loop of StmtRes::StmtRes.                                 *)
LEMMA ColumnAdded ==
  ASSUME NEW m, NEW cs, ResOK(m, cs), NEW len \in Nat, NEW size \in Nat, size <= len + 1,
         NEW b1, b1 = Alloc(m, len + 1), NEW b2, b2 = Alloc(b1, 1), NEW b3, b3 = Alloc(b2, 1),
         NEW x, x = [size |-> size, buffer |-> AllocAt(m, len + 1),
                     isnull |-> AllocAt(b1, 1), error |-> AllocAt(b2, 1)]
  PROVE  ResOK(b3, Append(cs, x))
<1>1. PICK p, q, r : p = AllocAt(m, len + 1) /\ q = AllocAt(b1, 1) /\ r = AllocAt(b2, 1)
  OBVIOUS
<1>2. Mem(m) /\ cs \in Seq(Col) /\ len + 1 \in Nat
  BY DEF ResOK
<1>3. Hands(m, b1, p) /\ p.len = len + 1
  BY <1>1, <1>2, AllocHands
<1>4. Hands(b1, b2, q) /\ q.len = 1
  BY <1>1, <1>3, AllocHands DEF Hands
<1>5. Hands(b2, b3, r) /\ r.len = 1
  BY <1>1, <1>4, AllocHands DEF Hands
<1>6. /\ Keeps(m, b2) /\ Fresh(m, q) /\ Inside(b2, p) /\ Disjoint(p, q) /\ Disjoint(q, p)
  BY <1>3, <1>4, HandsTwice
<1>7. /\ Keeps(b1, b3) /\ Fresh(b1, r) /\ Inside(b3, q) /\ Disjoint(q, r) /\ Disjoint(r, q)
  BY <1>4, <1>5, HandsTwice
<1>8. /\ Mem(b3) /\ p \in Piece /\ q \in Piece /\ r \in Piece /\ Fresh(m, p) /\ Inside(b3, r)
      /\ Keeps(m, b1) /\ Inside(b1, p)
  BY <1>3, <1>4, <1>5 DEF Hands
<1>9. /\ Keeps(m, b3) /\ Fresh(m, r) /\ Inside(b3, p) /\ Disjoint(p, r) /\ Disjoint(r, p)
  BY <1>7, <1>8 DEF Keeps, Fresh
<1>10. x.size = size /\ x.buffer = p /\ x.isnull = q /\ x.error = r /\ x \in Col
  BY <1>1, <1>8 DEF Col
<1>11. ColOK(b3, x)
  BY <1>3, <1>4, <1>5, <1>7, <1>8, <1>9, <1>10 DEF ColOK
<1>12. Apart(b3, Append(cs, x), ResFields)
  <2>1. \A c \in Col, f \in ResFields : c[f] \in Piece
    BY DEF Col, ResFields
  <2>2. \A f \in ResFields : x[f] = NoPiece \/ (Inside(b3, x[f]) /\ Fresh(m, x[f]))
    BY <1>6, <1>7, <1>8, <1>9, <1>10 DEF ResFields
  <2>3. \A f, g \in ResFields : f # g => Disjoint(x[f], x[g])
    BY <1>6, <1>7, <1>9, <1>10 DEF ResFields
  <2>4. Apart(m, cs, ResFields)
    BY DEF ResOK
  <2>5. QED
    BY <1>2, <1>8, <1>9, <1>10, <2>1, <2>2, <2>3, <2>4, ApartGrows
<1>13. PICK s, n : s = Append(cs, x) /\ n = Len(cs)
  OBVIOUS
<1>14. /\ s \in Seq(Col) /\ n \in Nat /\ Len(s) = n + 1 /\ s[n + 1] = x
       /\ \A i \in 1 .. n : s[i] = cs[i] /\ cs[i] \in Col
  BY <1>2, <1>10, <1>13
<1>15. ASSUME NEW i \in 1 .. Len(s)
       PROVE  ColOK(b3, s[i])
  <2>1. CASE i \in 1 .. n
    <3>1. s[i] = cs[i] /\ ColOK(m, cs[i]) /\ cs[i] \in Col
      BY <1>13, <1>14, <2>1 DEF ResOK
    <3>2. cs[i].buffer \in Piece /\ cs[i].isnull \in Piece /\ cs[i].error \in Piece
      BY <3>1 DEF Col
    <3>3. QED
      BY <1>9, <3>1, <3>2 DEF ColOK, Keeps
  <2>2. CASE i = n + 1
    BY <1>11, <1>14, <2>2
  <2>3. QED
    BY <1>14, <2>1, <2>2
<1>16. QED
  BY <1>8, <1>12, <1>13, <1>14, <1>15 DEF ResOK

(* Pieces that are apart have no byte in common.                           *)
LEMMA CoveredOnce ==
  ASSUME NEW p \in Piece, NEW q \in Piece, Disjoint(p, q), NEW b, NEW i \in Int,
         NEW n \in Nat, n <= p.len, NEW k \in Nat, k <= q.len, Covers(p, n, b, i), Covers(q, k, b, i)
  PROVE  FALSE
<1>1. PICK o, l, u, v : o = p.off /\ l = p.len /\ u = q.off /\ v = q.len
  OBVIOUS
<1>2. /\ o \in Nat /\ l \in Nat /\ u \in Nat /\ v \in Nat /\ n <= l /\ k <= v
      /\ o + l <= u \/ u + v <= o
      /\ i - o \in 1 .. n /\ i - u \in 1 .. k
  BY <1>1 DEF Piece, Disjoint, Covers
<1>3. QED
  BY <1>2

(* A column of a StmtRes, by its fields.                                   *)
LEMMA ColumnOf ==
  ASSUME NEW m, NEW cs, ResOK(m, cs), NEW k \in 1 .. Len(cs)
  PROVE  /\ cs[k].size \in Nat /\ cs[k].buffer \in Piece /\ cs[k].isnull \in Piece /\ cs[k].error \in Piece
         /\ ColOK(m, cs[k])
<1>1. cs[k] \in Col /\ ColOK(m, cs[k])
  BY DEF ResOK
<1>2. QED
  BY <1>1 DEF Col

(* Two pointers of the columns are apart.                                  *)
LEMMA ColumnsDisjoint ==
  ASSUME NEW m, NEW cs, ResOK(m, cs), NEW k \in 1 .. Len(cs), NEW l \in 1 .. Len(cs)
  PROVE  /\ k # l => /\ Disjoint(cs[k].buffer, cs[l].buffer)
                     /\ Disjoint(cs[k].isnull, cs[l].isnull) /\ Disjoint(cs[k].error, cs[l].error)
         /\ Disjoint(cs[k].buffer, cs[l].isnull) /\ Disjoint(cs[k].buffer, cs[l].error)
         /\ Disjoint(cs[k].isnull, cs[l].error) /\ Disjoint(cs[k].error, cs[l].isnull)
<1>1. Mem(m) /\ Apart(m, cs, ResFields)
  BY DEF ResOK
<1>2. cs[k].buffer # NoPiece /\ cs[k].isnull # NoPiece /\ cs[k].error # NoPiece
  BY <1>1, ColumnOf, NoPieceApart DEF ColOK
<1>3. \A f, g \in ResFields : k # l \/ f # g => Disjoint(cs[k][f], cs[l][g])
  <2>1. \A f \in ResFields : cs[k][f] # NoPiece
    BY <1>2 DEF ResFields
  <2>2. QED
    BY <1>1, <2>1 DEF Apart
<1>4. QED
  BY <1>3 DEF ResFields

(* What mysql_stmt_fetch is given: a datum and two flags per column.       *)
Answer(vals, fs) == vals \in [1 .. Len(cols) -> Marks] /\ fs \in [1 .. Len(cols) -> Flags]

(* A datum and the two flags are bytes.                                    *)
LEMMA AnswerType ==
  ASSUME NEW vals, NEW fs, Answer(vals, fs), NEW k \in 1 .. Len(cols)
  PROVE  vals[k] \in Nat /\ fs[k].isnull \in {0, 1} /\ fs[k].error \in {0, 1}
<1>1. vals[k] \in Marks /\ fs[k] \in Flags
  BY DEF Answer
<1>2. vals[k] \in Nat
  BY <1>1, StmtAssumption
<1>3. fs[k].isnull \in {0, 1} /\ fs[k].error \in {0, 1}
  <2>1. PICK x : x = fs[k]
    OBVIOUS
  <2>2. \/ x = [isnull |-> 0, error |-> 0] \/ x = [isnull |-> 0, error |-> 1]
        \/ x = [isnull |-> 1, error |-> 0]
    BY <1>1, <2>1 DEF Flags
  <2>3. x.isnull \in {0, 1} /\ x.error \in {0, 1}
    BY <2>2
  <2>4. QED
    BY <2>1, <2>3
<1>4. QED
  BY <1>2, <1>3

(* Every byte stays a byte.                                                *)
LEMMA StoredByteType ==
  ASSUME NEW vals, NEW fs, Answer(vals, fs), NEW b, NEW i, NEW old \in Nat
  PROVE  StoredByte(b, i, old, vals, fs) \in Nat
<1> DEFINE flags == {k \in 1 .. Len(cols) : \/ Covers(cols[k].isnull, 1, b, i)
                                            \/ Covers(cols[k].error, 1, b, i)}
           data == {k \in 1 .. Len(cols) : /\ fs[k].isnull = 0
                                           /\ Covers(cols[k].buffer, cols[k].size, b, i)}
           f == CHOOSE k \in flags : TRUE
           d == CHOOSE k \in data : TRUE
<1>1. flags # {} => fs[f].error \in Nat /\ fs[f].isnull \in Nat
  <2>1. flags # {} => f \in flags
    OBVIOUS
  <2>2. QED
    BY <2>1, AnswerType
<1>2. data # {} => vals[d] \in Nat
  <2>1. data # {} => d \in data
    OBVIOUS
  <2>2. QED
    BY <2>1, AnswerType
<1>3. StoredByte(b, i, old, vals, fs) =
        CASE flags # {} -> (IF Covers(cols[f].error, 1, b, i) THEN fs[f].error ELSE fs[f].isnull)
          [] flags = {} /\ data # {} -> vals[d]
          [] OTHER -> old
  BY DEF StoredByte
<1> HIDE DEF flags, data, f, d
<1>4. QED
  BY <1>1, <1>2, <1>3

(* The bytes of a datum and of the flags of a column are that column's.    *)
LEMMA StoredByteOf ==
  ASSUME NEW m, ResOK(m, cols), NEW vals, NEW fs, Answer(vals, fs), NEW k \in 1 .. Len(cols),
         NEW b, NEW i \in Int, NEW old
  PROVE  /\ Covers(cols[k].buffer, cols[k].size, b, i)
              => StoredByte(b, i, old, vals, fs) = IF fs[k].isnull = 1 THEN old ELSE vals[k]
         /\ Covers(cols[k].isnull, 1, b, i) => StoredByte(b, i, old, vals, fs) = fs[k].isnull
         /\ Covers(cols[k].error, 1, b, i) => StoredByte(b, i, old, vals, fs) = fs[k].error
<1> DEFINE flags == {l \in 1 .. Len(cols) : \/ Covers(cols[l].isnull, 1, b, i)
                                            \/ Covers(cols[l].error, 1, b, i)}
           data == {l \in 1 .. Len(cols) : /\ fs[l].isnull = 0
                                           /\ Covers(cols[l].buffer, cols[l].size, b, i)}
           f == CHOOSE l \in flags : TRUE
           d == CHOOSE l \in data : TRUE
<1>1. StoredByte(b, i, old, vals, fs) =
        CASE flags # {} -> (IF Covers(cols[f].error, 1, b, i) THEN fs[f].error ELSE fs[f].isnull)
          [] flags = {} /\ data # {} -> vals[d]
          [] OTHER -> old
  BY DEF StoredByte
<1>2. \A l \in 1 .. Len(cols) :
        /\ cols[l].size \in Nat /\ cols[l].size <= cols[l].buffer.len
        /\ cols[l].isnull.len = 1 /\ cols[l].error.len = 1
        /\ cols[l].buffer \in Piece /\ cols[l].isnull \in Piece /\ cols[l].error \in Piece
  BY ColumnOf DEF ColOK
<1>3. CASE Covers(cols[k].buffer, cols[k].size, b, i)
  <2>1. ASSUME NEW l \in 1 .. Len(cols)
        PROVE  ~Covers(cols[l].isnull, 1, b, i) /\ ~Covers(cols[l].error, 1, b, i)
    <3>1. Disjoint(cols[k].buffer, cols[l].isnull) /\ Disjoint(cols[k].buffer, cols[l].error)
      BY ColumnsDisjoint
    <3>2. 1 \in Nat /\ 1 <= cols[l].isnull.len /\ 1 <= cols[l].error.len
      BY <1>2
    <3>3. ~Covers(cols[l].isnull, 1, b, i)
      BY <1>2, <1>3, <3>1, <3>2, CoveredOnce
    <3>4. ~Covers(cols[l].error, 1, b, i)
      BY <1>2, <1>3, <3>1, <3>2, CoveredOnce
    <3>5. QED
      BY <3>3, <3>4
  <2>2. ASSUME NEW l \in 1 .. Len(cols), l # k
        PROVE  ~Covers(cols[l].buffer, cols[l].size, b, i)
    <3>1. Disjoint(cols[k].buffer, cols[l].buffer)
      BY <2>2, ColumnsDisjoint
    <3>2. QED
      BY <1>2, <1>3, <3>1, CoveredOnce
  <2>3. flags = {} /\ data \subseteq {k} /\ (fs[k].isnull = 0 <=> k \in data)
    BY <1>3, <2>1, <2>2
  <2>4. data # {} => data = {k} /\ d = k
    BY <2>3
  <2>5. StoredByte(b, i, old, vals, fs) = IF fs[k].isnull = 1 THEN old ELSE vals[k]
    <3>1. fs[k].isnull \in {0, 1}
      BY AnswerType
    <3> HIDE DEF flags, data, f, d
    <3>2. fs[k].isnull = 1 => data = {}
      BY <2>3, <2>4
    <3>3. fs[k].isnull = 0 => data # {}
      BY <2>3
    <3>4. QED
      BY <1>1, <2>3, <2>4, <3>1, <3>2, <3>3
  <2>6. ~Covers(cols[k].isnull, 1, b, i) /\ ~Covers(cols[k].error, 1, b, i)
    BY <2>1
  <2>7. QED
    BY <2>5, <2>6
<1>4. ASSUME Covers(cols[k].isnull, 1, b, i) \/ Covers(cols[k].error, 1, b, i)
      PROVE  flags = {k}
  <2>1. ASSUME NEW l \in flags
        PROVE  l = k
    <3> SUFFICES ASSUME l # k PROVE FALSE
      OBVIOUS
    <3>1. /\ Disjoint(cols[k].isnull, cols[l].isnull) /\ Disjoint(cols[k].error, cols[l].error)
          /\ Disjoint(cols[k].isnull, cols[l].error) /\ Disjoint(cols[k].error, cols[l].isnull)
      BY ColumnsDisjoint
    <3>2. Covers(cols[l].isnull, 1, b, i) \/ Covers(cols[l].error, 1, b, i)
      BY <2>1
    <3>3. /\ 1 \in Nat /\ 1 <= cols[l].isnull.len /\ 1 <= cols[l].error.len
          /\ 1 <= cols[k].isnull.len /\ 1 <= cols[k].error.len
      BY <1>2
    <3>4. /\ ~(Covers(cols[k].isnull, 1, b, i) /\ Covers(cols[l].isnull, 1, b, i))
          /\ ~(Covers(cols[k].isnull, 1, b, i) /\ Covers(cols[l].error, 1, b, i))
      BY <1>2, <3>1, <3>3, CoveredOnce
    <3>5. /\ ~(Covers(cols[k].error, 1, b, i) /\ Covers(cols[l].isnull, 1, b, i))
          /\ ~(Covers(cols[k].error, 1, b, i) /\ Covers(cols[l].error, 1, b, i))
      BY <1>2, <3>1, <3>3, CoveredOnce
    <3>6. QED
      BY <1>4, <3>2, <3>4, <3>5
  <2>2. QED
    BY <1>4, <2>1
<1>5. CASE Covers(cols[k].isnull, 1, b, i)
  <2>1. flags = {k}
    BY <1>4, <1>5
  <2>2. f = k
    BY <2>1
  <2>3. ~Covers(cols[k].error, 1, b, i)
    <3>1. Disjoint(cols[k].isnull, cols[k].error) /\ 1 \in Nat
          /\ 1 <= cols[k].isnull.len /\ 1 <= cols[k].error.len
      BY <1>2, ColumnsDisjoint
    <3>2. QED
      BY <1>2, <1>5, <3>1, CoveredOnce
  <2>4. StoredByte(b, i, old, vals, fs) = fs[k].isnull
    <3> HIDE DEF flags, data, f, d
    <3>1. QED
      BY <1>1, <2>1, <2>2, <2>3
  <2>5. QED
    BY <1>3, <2>3, <2>4
<1>6. CASE Covers(cols[k].error, 1, b, i)
  <2>1. flags = {k}
    BY <1>4, <1>6
  <2>2. f = k
    BY <2>1
  <2>3. StoredByte(b, i, old, vals, fs) = fs[k].error
    <3> HIDE DEF flags, data, f, d
    <3>1. QED
      BY <1>1, <1>6, <2>1, <2>2
  <2>4. QED
    BY <1>3, <1>5, <2>3
<1>7. QED
  BY <1>3, <1>5, <1>6

(* mysql_stmt_fetch moves no block, and writes bytes.                      *)
LEMMA StoredBlocks ==
  ASSUME NEW m, ResOK(m, cols), NEW vals, NEW fs, Answer(vals, fs), NEW m2, m2 = Stored(m, vals, fs)
  PROVE  /\ Mem(m2) /\ Len(m2) = Len(m)
         /\ \A b \in 1 .. Len(m) :
              /\ m2[b].size = m[b].size /\ m2[b].cap = m[b].cap
              /\ \A i \in 1 .. m[b].cap : m2[b].cells[i] = StoredByte(b, i, m[b].cells[i], vals, fs)
<1>1. Mem(m) /\ Len(m) \in Nat
  BY DEF ResOK, Mem
<1>2. ASSUME NEW b \in 1 .. Len(m)
      PROVE  /\ m2[b] \in Block /\ m2[b].size = m[b].size /\ m2[b].cap = m[b].cap
             /\ m2[b].cells \in [1 .. m[b].cap -> Nat]
             /\ \A i \in 1 .. m[b].cap : m2[b].cells[i] = StoredByte(b, i, m[b].cells[i], vals, fs)
  <2>1. PICK z : z = m[b]
    OBVIOUS
  <2>2. z \in Block /\ z.cap \in Nat /\ z.cells \in [1 .. z.cap -> Nat]
    BY <1>1, <2>1, BlockOf
  <2>3. PICK c : c = [i \in DOMAIN z.cells |-> StoredByte(b, i, z.cells[i], vals, fs)]
    OBVIOUS
  <2>4. DOMAIN z.cells = 1 .. z.cap
    BY <2>2
  <2>5. \A i \in 1 .. z.cap : StoredByte(b, i, z.cells[i], vals, fs) \in Nat
    BY <2>2, StoredByteType
  <2>6. c \in [1 .. z.cap -> Nat] /\ \A i \in 1 .. z.cap : c[i] = StoredByte(b, i, z.cells[i], vals, fs)
    BY <2>3, <2>4, <2>5
  <2>7. c \in Cells
    BY <2>2, <2>6 DEF Cells
  <2>8. m2[b] = [z EXCEPT !.cells = c]
    BY <2>1, <2>3 DEF Stored
  <2>9. m2[b] \in Block /\ m2[b].size = z.size /\ m2[b].cap = z.cap /\ m2[b].cells = c
    BY <2>2, <2>7, <2>8, Zenon DEF Block
  <2>10. QED
    BY <2>1, <2>6, <2>9
<1>3. m2 \in Seq(Block) /\ Len(m2) = Len(m)
  <2>1. m2 \in [1 .. Len(m) -> Block]
    BY <1>2 DEF Stored
  <2>2. QED
    BY <1>1, <2>1, FunctionIsSeq
<1>4. Mem(m2)
  <2> SUFFICES ASSUME NEW b \in 1 .. Len(m)
               PROVE  m2[b].size <= m2[b].cap /\ m2[b].cells \in [1 .. m2[b].cap -> Nat]
    BY <1>3 DEF Mem
  <2>1. m[b].size <= m[b].cap
    BY <1>1, BlockOf
  <2>2. QED
    BY <1>2, <2>1
<1>5. QED
  BY <1>2, <1>3, <1>4

(* After mysql_stmt_fetch every column reads as it was stored.             *)
LEMMA ColumnsStored ==
  ASSUME NEW m, ResOK(m, cols), NEW vals, NEW fs, Answer(vals, fs), NEW m2, m2 = Stored(m, vals, fs)
  PROVE  /\ ResOK(m2, cols)
         /\ \A k \in 1 .. Len(cols) :
              ReadColumn(m2, cols[k]) = [data |-> Datum(m, k, vals, fs),
                                         isnull |-> fs[k].isnull, error |-> fs[k].error]
<1>1. /\ Mem(m2) /\ Len(m2) = Len(m)
      /\ \A b \in 1 .. Len(m) :
           /\ m2[b].size = m[b].size /\ m2[b].cap = m[b].cap
           /\ \A i \in 1 .. m[b].cap : m2[b].cells[i] = StoredByte(b, i, m[b].cells[i], vals, fs)
  BY StoredBlocks
<1>2. \A p \in Piece : Inside(m, p) => Inside(m2, p)
  BY <1>1 DEF Inside
<1>3. Mem(m) /\ cols \in Seq(Col) /\ Apart(m, cols, ResFields)
  BY DEF ResOK
<1>4. ASSUME NEW k \in 1 .. Len(cols)
      PROVE  /\ cols[k].size \in Nat /\ cols[k].buffer \in Piece /\ cols[k].isnull \in Piece
             /\ cols[k].error \in Piece /\ ColOK(m, cols[k]) /\ ColOK(m2, cols[k])
  <2>1. /\ cols[k].size \in Nat /\ cols[k].buffer \in Piece /\ cols[k].isnull \in Piece
        /\ cols[k].error \in Piece /\ ColOK(m, cols[k])
    BY ColumnOf
  <2>2. QED
    BY <1>2, <2>1 DEF ColOK
<1>5. Apart(m2, cols, ResFields)
  <2>1. \A k \in 1 .. Len(cols), f \in ResFields : cols[k][f] \in Piece
    BY <1>4 DEF ResFields
  <2>2. QED
    BY <1>2, <1>3, <2>1 DEF Apart
<1>6. ResOK(m2, cols)
  BY <1>1, <1>3, <1>4, <1>5 DEF ResOK
<1>7. ASSUME NEW p \in Piece, Inside(m, p), NEW i \in 1 .. p.len
      PROVE  /\ p.off + i \in Int
             /\ Bytes(m2, p)[i] = StoredByte(p.block, p.off + i, Bytes(m, p)[i], vals, fs)
             /\ \A n \in Nat : i <= n => Covers(p, n, p.block, p.off + i)
  <2>1. p.block \in 1 .. Len(m) /\ p.off \in Nat /\ p.len \in Nat /\ p.off + i \in 1 .. m[p.block].cap
    BY <1>3, <1>7, InsideFacts
  <2>2. Bytes(m2, p)[i] = m2[p.block].cells[p.off + i] /\ Bytes(m, p)[i] = m[p.block].cells[p.off + i]
    BY <2>1 DEF Bytes
  <2>3. (p.off + i) - p.off = i
    BY <2>1
  <2>4. \A n \in Nat : i <= n => i \in 1 .. n
    BY <2>1
  <2>5. Bytes(m2, p)[i] = StoredByte(p.block, p.off + i, Bytes(m, p)[i], vals, fs)
    BY <1>1, <2>1, <2>2
  <2>6. \A n \in Nat : i <= n => Covers(p, n, p.block, p.off + i)
    BY <2>3, <2>4 DEF Covers
  <2>7. p.off + i \in Int
    BY <2>1
  <2>8. QED
    BY <2>5, <2>6, <2>7
<1>8. ASSUME NEW k \in 1 .. Len(cols)
      PROVE  ReadColumn(m2, cols[k]) = [data |-> Datum(m, k, vals, fs),
                                        isnull |-> fs[k].isnull, error |-> fs[k].error]
  <2>1. /\ Inside(m, cols[k].buffer) /\ Inside(m, cols[k].isnull) /\ Inside(m, cols[k].error)
        /\ cols[k].size \in Nat /\ cols[k].size <= cols[k].buffer.len
        /\ cols[k].isnull.len = 1 /\ cols[k].error.len = 1
        /\ cols[k].buffer \in Piece /\ cols[k].isnull \in Piece /\ cols[k].error \in Piece
        /\ Inside(m2, cols[k].buffer)
    BY <1>4 DEF ColOK
  <2>2. \A i \in 1 .. cols[k].size : i \in 1 .. cols[k].buffer.len /\ i <= cols[k].size
    BY <2>1 DEF Piece
  <2>3. ASSUME NEW i \in 1 .. cols[k].size
        PROVE  Bytes(m2, cols[k].buffer)[i] =
                 IF fs[k].isnull = 1 THEN Bytes(m, cols[k].buffer)[i] ELSE vals[k]
    <3>1. PICK p : p = cols[k].buffer
      OBVIOUS
    <3>2. i \in 1 .. p.len /\ i <= cols[k].size
      BY <2>2, <3>1
    <3>3. /\ p.off + i \in Int /\ Covers(p, cols[k].size, p.block, p.off + i)
          /\ Bytes(m2, p)[i] = StoredByte(p.block, p.off + i, Bytes(m, p)[i], vals, fs)
      BY <1>7, <2>1, <3>1, <3>2
    <3>4. QED
      BY <3>1, <3>3, StoredByteOf
  <2>4. SubSeq(Bytes(m2, cols[k].buffer), 1, cols[k].size) = Datum(m, k, vals, fs)
    <3>1. /\ Bytes(m2, cols[k].buffer) \in Seq(Nat) /\ Len(Bytes(m2, cols[k].buffer)) = cols[k].buffer.len
          /\ Bytes(m, cols[k].buffer) \in Seq(Nat) /\ Len(Bytes(m, cols[k].buffer)) = cols[k].buffer.len
      BY <1>1, <1>3, <2>1, BytesType
    <3>2. PICK s, t, n : s = Bytes(m2, cols[k].buffer) /\ t = Bytes(m, cols[k].buffer) /\ n = cols[k].size
      OBVIOUS
    <3>3. /\ s \in Seq(Nat) /\ n \in Nat /\ n <= Len(s) /\ t \in Seq(Nat) /\ n <= Len(t)
          /\ \A i \in 1 .. n : s[i] = IF fs[k].isnull = 1 THEN t[i] ELSE vals[k]
      BY <2>1, <2>3, <3>1, <3>2
    <3>4. /\ SubSeq(s, 1, n) = [i \in 1 .. n |-> s[i]]
          /\ SubSeq(t, 1, n) = [i \in 1 .. n |-> t[i]]
      BY <3>3
    <3>5. CASE fs[k].isnull = 1
      <4>1. SubSeq(s, 1, n) = SubSeq(t, 1, n)
        BY <3>3, <3>4, <3>5
      <4>2. QED
        BY <3>2, <3>5, <4>1 DEF Datum, ReadColumn
    <3>6. CASE fs[k].isnull # 1
      <4>1. SubSeq(s, 1, n) = [i \in 1 .. n |-> vals[k]]
        BY <3>3, <3>4, <3>6
      <4>2. QED
        BY <3>2, <3>6, <4>1 DEF Datum, Repeat
    <3>7. QED
      BY <3>5, <3>6
  <2>5. Bytes(m2, cols[k].isnull)[1] = fs[k].isnull
    <3>1. PICK p : p = cols[k].isnull
      OBVIOUS
    <3>2. 1 \in 1 .. p.len /\ 1 \in Nat /\ 1 <= 1
      BY <2>1, <3>1
    <3>3. /\ p.off + 1 \in Int /\ Covers(p, 1, p.block, p.off + 1)
          /\ Bytes(m2, p)[1] = StoredByte(p.block, p.off + 1, Bytes(m, p)[1], vals, fs)
      BY <1>7, <2>1, <3>1, <3>2
    <3>4. QED
      BY <3>1, <3>3, StoredByteOf
  <2>6. Bytes(m2, cols[k].error)[1] = fs[k].error
    <3>1. PICK p : p = cols[k].error
      OBVIOUS
    <3>2. 1 \in 1 .. p.len /\ 1 \in Nat /\ 1 <= 1
      BY <2>1, <3>1
    <3>3. /\ p.off + 1 \in Int /\ Covers(p, 1, p.block, p.off + 1)
          /\ Bytes(m2, p)[1] = StoredByte(p.block, p.off + 1, Bytes(m, p)[1], vals, fs)
      BY <1>7, <2>1, <3>1, <3>2
    <3>4. QED
      BY <3>1, <3>3, StoredByteOf
  <2>7. QED
    BY <2>4, <2>5, <2>6 DEF ReadColumn
<1>9. QED
  BY <1>6, <1>8

-----------------------------------------------------------------------------
(* The inductive invariant: the values streamed are held in the item's     *)
(* memory, the columns have memory of their own, and what was executed and *)
(* what was fetched read as they should.                                   *)
StmtInv ==
  /\ ItemOK(blocks, binds, given) /\ Len(binds) <= total
  /\ total \in Nat /\ ready \in BOOLEAN /\ bound \in BOOLEAN /\ ops \in 0 .. MaxOps
  /\ ResOK(rblocks, cols)
  /\ RowAsGiven /\ ColumnsAsFetched

(* A new statement.                                                        *)
LEMMA StmtInitial == StmtInit => StmtInv
<1> SUFFICES ASSUME StmtInit PROVE StmtInv
  OBVIOUS
<1>1. Mem(<<>>)
  BY ResEmpty DEF ResOK
<1>2. ItemOK(blocks, binds, given) /\ ResOK(rblocks, cols)
  BY <1>1, ItemEmpty, ResEmpty DEF StmtInit
<1>3. Len(binds) = 0 /\ 0 \in 0 .. MaxOps
  BY StmtAssumption DEF StmtInit
<1>4. total = 0 /\ ready = FALSE /\ bound = FALSE /\ ops = 0 /\ row = want /\ fetched = <<>>
  BY DEF StmtInit
<1>5. total \in Nat /\ Len(binds) <= total /\ ops \in 0 .. MaxOps
  BY <1>3, <1>4
<1>6. RowAsGiven /\ ColumnsAsFetched
  BY <1>4, Zenon DEF RowAsGiven, ColumnsAsFetched
<1>7. ready \in BOOLEAN /\ bound \in BOOLEAN
  BY <1>4, Zenon
<1>8. QED
  BY <1>2, <1>5, <1>6, <1>7, Zenon DEF StmtInv

(* The calls of StmtItem leave the result alone.                           *)
LEMMA ItemCall ==
  ASSUME StmtInv, Calls, UNCHANGED <<rblocks, cols, fetched>>, bound' \in BOOLEAN,
         ItemOK(blocks', binds', given'), Len(binds') <= total', total' \in Nat, ready' \in BOOLEAN,
         row' = want'
  PROVE  StmtInv'
<1>1. ops' \in 0 .. MaxOps
  BY StmtAssumption DEF Calls, StmtInv
<1>2. ResOK(rblocks, cols)' /\ ColumnsAsFetched'
  BY DEF StmtInv, ColumnsAsFetched, ReadColumn
<1>3. QED
  BY <1>1, <1>2 DEF StmtInv, RowAsGiven

(* The calls of StmtRes leave the item alone.                              *)
LEMMA ResCall ==
  ASSUME StmtInv, Calls, UNCHANGED itemVars, bound' \in BOOLEAN, ResOK(rblocks', cols'),
         ColumnsAsFetched'
  PROVE  StmtInv'
<1>1. ops' \in 0 .. MaxOps
  BY StmtAssumption DEF Calls, StmtInv
<1>2. ItemOK(blocks, binds, given)' /\ RowAsGiven'
  BY DEF StmtInv, RowAsGiven, itemVars
<1>3. QED
  BY <1>1, <1>2 DEF StmtInv, itemVars

(* Prepare starts over: no values, and the count the server gave.          *)
LEMMA PrepareStep ==
  ASSUME StmtInv, NEW n \in Totals, Prepare(n)
  PROVE  StmtInv'
<1>1. Mem(Clear(blocks)) /\ n \in Nat
  BY ClearMem, StmtAssumption DEF StmtInv, ItemOK
<1>2. ItemOK(blocks', binds', given')
  BY <1>1, ItemEmpty DEF Prepare
<1>3. /\ Len(binds') <= total' /\ total' \in Nat /\ ready' \in BOOLEAN /\ bound' \in BOOLEAN
      /\ row' = want' /\ Calls /\ UNCHANGED <<rblocks, cols, fetched>>
  <2>1. binds' = <<>> /\ (total' = n \/ total' = 0) /\ row' = row /\ want' = want
        /\ Calls /\ UNCHANGED <<rblocks, cols, fetched>>
    BY Zenon DEF Prepare
  <2>2. ready' \in BOOLEAN /\ bound' \in BOOLEAN
    BY Zenon DEF Prepare
  <2>3. total' \in Nat /\ Len(binds') <= total'
    BY <1>1, <2>1
  <2>4. row' = want'
    BY <2>1 DEF StmtInv, RowAsGiven
  <2>5. QED
    BY <2>1, <2>2, <2>3, <2>4
<1>4. QED
  BY <1>2, <1>3, ItemCall

(* operator<< of a number.                                                 *)
LEMMA BindNumberStep ==
  ASSUME StmtInv, NEW m \in Marks, NEW n \in IntSizes, BindNumber(m, n)
  PROVE  StmtInv'
<1>1. m \in Nat /\ n \in Nat /\ ItemOK(blocks, binds, given)
  BY StmtAssumption DEF StmtInv
<1>2. /\ Calls /\ total' = total /\ ready' = ready /\ row' = want' /\ bound' = bound
      /\ UNCHANGED <<rblocks, cols, fetched>>
  BY DEF BindNumber, resVars, StmtInv, RowAsGiven
<1>3. CASE Len(binds) < total
  <2>1. PICK at : at = AllocAt(blocks, n)
    OBVIOUS
  <2>2. /\ blocks' = Fill(Alloc(blocks, n), at, Repeat(m, n))
        /\ binds' = Append(binds, [buffer |-> at, length |-> NoPiece])
        /\ given' = Append(given, Repeat(m, n))
    BY <1>3, <2>1 DEF BindNumber
  <2>3. ItemOK(blocks', binds', given')
    BY <1>1, <2>1, <2>2, NumberBound
  <2>4. Len(binds') = Len(binds) + 1 /\ Len(binds) \in Nat
    <3>1. binds \in Seq(Bind)
      BY <1>1 DEF ItemOK
    <3>2. [buffer |-> at, length |-> NoPiece] \in Bind
      <4>1. binds' \in Seq(Bind) /\ Len(binds) \in Nat
        BY <2>3, <3>1 DEF ItemOK
      <4>2. Hands(blocks, Alloc(blocks, n), at)
        BY <1>1, <2>1, AllocHands DEF ItemOK
      <4>3. QED
        BY <4>2 DEF Hands, Bind, NoPiece, Piece
    <3>3. QED
      BY <2>2, <3>1, <3>2
  <2>5. Len(binds') <= total' /\ total' \in Nat /\ ready' \in BOOLEAN /\ bound' \in BOOLEAN
    BY <1>2, <1>3, <2>4 DEF StmtInv
  <2>6. QED
    BY <1>2, <2>3, <2>5, ItemCall
<1>4. CASE ~(Len(binds) < total)
  <2>1. UNCHANGED <<blocks, binds, given>>
    BY <1>4 DEF BindNumber
  <2>2. /\ ItemOK(blocks', binds', given') /\ Len(binds') <= total' /\ total' \in Nat
        /\ ready' \in BOOLEAN /\ bound' \in BOOLEAN
    BY <1>2, <2>1 DEF StmtInv
  <2>3. QED
    BY <1>2, <2>2, ItemCall
<1>5. QED
  BY <1>3, <1>4

(* operator<< of a string.                                                 *)
LEMMA BindStringStep ==
  ASSUME StmtInv, NEW m \in Marks, NEW n \in StrLens, BindString(m, n)
  PROVE  StmtInv'
<1>1. m \in Nat /\ n \in Nat /\ ItemOK(blocks, binds, given)
  BY StmtAssumption DEF StmtInv
<1>2. /\ Calls /\ total' = total /\ ready' = ready /\ row' = want' /\ bound' = bound
      /\ UNCHANGED <<rblocks, cols, fetched>>
  BY DEF BindString, resVars, StmtInv, RowAsGiven
<1>3. CASE Len(binds) < total
  <2>1. PICK at : at = AllocAt(blocks, n + 1)
    OBVIOUS
  <2>2. PICK mid : mid = Fill(Alloc(blocks, n + 1), at, Append(Repeat(m, n), 0))
    OBVIOUS
  <2>3. PICK wat : wat = AllocAt(mid, WordSize)
    OBVIOUS
  <2>4. /\ blocks' = Fill(Alloc(mid, WordSize), wat, Repeat(n, WordSize))
        /\ binds' = Append(binds, [buffer |-> at, length |-> wat])
        /\ given' = Append(given, Repeat(m, n))
    BY <1>3, <2>1, <2>2, <2>3 DEF BindString
  <2>5. ItemOK(blocks', binds', given')
    BY <1>1, <2>1, <2>2, <2>3, <2>4, StringBound
  <2>6. Len(binds') = Len(binds) + 1 /\ Len(binds) \in Nat
    <3>1. given \in Seq(Seq(Nat)) /\ Len(given) = Len(binds) /\ Len(given') = Len(binds')
      BY <1>1, <2>5 DEF ItemOK
    <3>2. Repeat(m, n) \in Seq(Nat)
      BY <1>1, RepeatSeq
    <3>3. Len(given') = Len(given) + 1 /\ Len(given) \in Nat
      BY <2>4, <3>1, <3>2
    <3>4. QED
      BY <3>1, <3>3
  <2>7. Len(binds') <= total' /\ total' \in Nat /\ ready' \in BOOLEAN /\ bound' \in BOOLEAN
    BY <1>2, <1>3, <2>6 DEF StmtInv
  <2>8. QED
    BY <1>2, <2>5, <2>7, ItemCall
<1>4. CASE ~(Len(binds) < total)
  <2>1. UNCHANGED <<blocks, binds, given>>
    BY <1>4 DEF BindString
  <2>2. /\ ItemOK(blocks', binds', given') /\ Len(binds') <= total' /\ total' \in Nat
        /\ ready' \in BOOLEAN /\ bound' \in BOOLEAN
    BY <1>2, <2>1 DEF StmtInv
  <2>3. QED
    BY <1>2, <2>2, ItemCall
<1>5. QED
  BY <1>3, <1>4

(* Execute reads every bind as the value streamed for it.                  *)
LEMMA ExecuteStep ==
  ASSUME StmtInv, Execute
  PROVE  StmtInv'
<1>1. ItemOK(blocks, binds, given) /\ Mem(Clear(blocks))
  BY ClearMem DEF StmtInv, ItemOK
<1>2. /\ Calls /\ total' = total /\ ready' = ready /\ bound' = bound
      /\ UNCHANGED <<rblocks, cols, fetched>>
  BY DEF Execute, resVars
<1>3. CASE Len(binds) = total
  <2>1. ItemOK(blocks', binds', given') /\ Len(binds') <= total'
    BY <1>1, <1>2, <1>3, ItemEmpty DEF Execute, StmtInv
  <2>2. \A b : ReadBind(b) = Reads(blocks, b)
    BY DEF ReadBind, Reads
  <2>3. [i \in 1 .. total |-> ReadBind(binds[i])] = given
    <3>1. [i \in 1 .. total |-> Reads(blocks, binds[i])] = given
      BY <1>1, <1>3, RowReads
    <3>2. QED
      BY <2>2, <3>1
  <2>4. row' = want'
    BY <1>3, <2>3 DEF Execute, StmtInv, RowAsGiven
  <2>5. QED
    BY <1>2, <2>1, <2>4, ItemCall DEF StmtInv
<1>4. CASE Len(binds) # total
  <2>1. UNCHANGED <<row, want, binds, blocks, given>>
    BY <1>4 DEF Execute
  <2>2. QED
    BY <1>2, <2>1, ItemCall DEF StmtInv, RowAsGiven
<1>5. QED
  BY <1>3, <1>4

(* A new StmtRes has no columns.                                           *)
LEMMA GetResStep ==
  ASSUME StmtInv, GetRes
  PROVE  StmtInv'
<1>1. ResOK(rblocks', cols')
  BY ResEmpty DEF GetRes
<1>2. Calls /\ UNCHANGED itemVars /\ bound' \in BOOLEAN /\ ColumnsAsFetched'
  BY DEF GetRes, ColumnsAsFetched
<1>3. QED
  BY <1>1, <1>2, ResCall

(* A turn of the loop over the columns.                                    *)
LEMMA AddColumnStep ==
  ASSUME StmtInv, NEW c \in Columns, AddColumn(c)
  PROVE  StmtInv'
<1>1. c.length \in Nat /\ c.size \in Nat /\ c.size <= c.length + 1
  BY StmtAssumption
<1>2. PICK b1, b2, b3 : b1 = Alloc(rblocks, c.length + 1) /\ b2 = Alloc(b1, 1) /\ b3 = Alloc(b2, 1)
  OBVIOUS
<1>3. PICK x : x = [size |-> c.size, buffer |-> AllocAt(rblocks, c.length + 1),
                    isnull |-> AllocAt(b1, 1), error |-> AllocAt(b2, 1)]
  OBVIOUS
<1>4. rblocks' = b3 /\ cols' = Append(cols, x)
  BY <1>2, <1>3 DEF AddColumn
<1>5. ResOK(b3, Append(cols, x))
  BY <1>1, <1>2, <1>3, ColumnAdded DEF StmtInv
<1>6. Calls /\ UNCHANGED itemVars /\ bound' \in BOOLEAN /\ ColumnsAsFetched'
  BY DEF AddColumn, ColumnsAsFetched, StmtInv
<1>7. QED
  BY <1>4, <1>5, <1>6, ResCall

(* mysql_stmt_fetch: every column reads as it was stored.                  *)
LEMMA FetchStep ==
  ASSUME StmtInv, NEW vals \in [1 .. Len(cols) -> Marks], NEW fs \in [1 .. Len(cols) -> Flags],
         Fetch(vals, fs)
  PROVE  StmtInv'
<1>1. PICK m2 : m2 = Stored(rblocks, vals, fs)
  OBVIOUS
<1>2. /\ ResOK(m2, cols)
      /\ \A k \in 1 .. Len(cols) :
           ReadColumn(m2, cols[k]) = [data |-> Datum(rblocks, k, vals, fs),
                                      isnull |-> fs[k].isnull, error |-> fs[k].error]
  BY <1>1, ColumnsStored DEF Answer, StmtInv
<1>3. /\ Calls /\ UNCHANGED itemVars /\ bound' = bound /\ cols' = cols /\ rblocks' = m2
      /\ fetched' = [k \in 1 .. Len(cols) |-> [data |-> Datum(rblocks, k, vals, fs),
                                               isnull |-> fs[k].isnull, error |-> fs[k].error]]
  BY <1>1 DEF Fetch
<1>4. ColumnsAsFetched'
  <2>1. \A k \in 1 .. Len(cols) : ReadColumn(m2, cols[k]) = fetched'[k]
    BY <1>2, <1>3
  <2>2. QED
    BY <1>3, <2>1 DEF ColumnsAsFetched
<1>5. bound' \in BOOLEAN
  BY <1>3 DEF StmtInv
<1>6. QED
  BY <1>2, <1>3, <1>4, <1>5, ResCall

(* Every call keeps the invariant.                                         *)
LEMMA StmtStep == StmtInv /\ [StmtNext]_stmtVars => StmtInv'
<1> SUFFICES ASSUME StmtInv, [StmtNext]_stmtVars PROVE StmtInv'
  OBVIOUS
<1>1. CASE BindResult
  <2>1. Calls /\ UNCHANGED itemVars /\ bound' \in BOOLEAN /\ UNCHANGED <<rblocks, cols, fetched>>
    BY <1>1 DEF BindResult
  <2>2. ColumnsAsFetched' /\ ResOK(rblocks', cols')
    BY <2>1 DEF StmtInv, ColumnsAsFetched
  <2>3. QED
    BY <2>1, <2>2, ResCall
<1>2. CASE UNCHANGED stmtVars
  BY <1>2 DEF stmtVars, itemVars, resVars, StmtInv, RowAsGiven, ColumnsAsFetched
<1>3. CASE BindIgnored
  <2>1. Calls /\ UNCHANGED itemVars /\ bound' \in BOOLEAN /\ UNCHANGED <<rblocks, cols, fetched>>
    BY <1>3 DEF BindIgnored, resVars, StmtInv
  <2>2. ColumnsAsFetched' /\ ResOK(rblocks', cols')
    BY <2>1 DEF StmtInv, ColumnsAsFetched
  <2>3. QED
    BY <2>1, <2>2, ResCall
<1>4. QED
  BY <1>1, <1>2, <1>3, PrepareStep, BindNumberStep, BindStringStep, ExecuteStep, GetResStep,
     AddColumnStep, FetchStep DEF StmtNext

(* The invariant gives the types ...                                       *)
LEMMA InvTypes == StmtInv => StmtTypeOK
<1> SUFFICES ASSUME StmtInv PROVE StmtTypeOK
  OBVIOUS
<1>1. ASSUME NEW m, Mem(m) PROVE Memory(m)
  BY <1>1, BlockOf DEF Memory
<1>2. Mem(blocks) /\ Mem(rblocks) /\ binds \in Seq(Bind) /\ cols \in Seq(Col)
  BY DEF StmtInv, ItemOK, ResOK
<1>3. \A i \in 1 .. Len(binds) : binds[i].buffer \in Piece /\ binds[i].length \in Piece
  <2>1. \A i \in 1 .. Len(binds) : binds[i] \in Bind
    BY <1>2
  <2>2. QED
    BY <2>1 DEF Bind
<1>4. \A k \in 1 .. Len(cols) : {cols[k].buffer, cols[k].isnull, cols[k].error} \subseteq Piece
  <2>1. \A i \in 1 .. Len(cols) : cols[i] \in Col
    BY <1>2
  <2>2. QED
    BY <2>1 DEF Col
<1>5. QED
  BY <1>1, <1>2, <1>3, <1>4 DEF StmtInv, StmtTypeOK

(* ... and that the pieces lie apart.                                      *)
LEMMA InvApart == StmtInv => PiecesApart
  BY DEF StmtInv, ItemOK, ResOK, PiecesApart, ItemFields, ResFields

(* No block is used past its end, and no value is taken that the statement *)
(* has no parameter for.                                                   *)
THEOREM StmtTypeCorrect == StmtSpec => []StmtTypeOK
  BY StmtInitial, StmtStep, InvTypes, PTL DEF StmtSpec

(* Whatever is streamed, executed, cleared and streamed again, the memory  *)
(* that the library holds pointers to is handed out, and to one purpose.   *)
THEOREM PiecesCorrect == StmtSpec => []PiecesApart
  BY StmtInitial, StmtStep, InvApart, PTL DEF StmtSpec

(* A row executed carries the values streamed for it.                      *)
THEOREM RowCorrect == StmtSpec => []RowAsGiven
<1>1. StmtInv => RowAsGiven
  BY DEF StmtInv
<1>2. QED
  BY <1>1, StmtInitial, StmtStep, PTL DEF StmtSpec

(* A column fetched reads as the library stored it.                        *)
THEOREM ColumnsCorrect == StmtSpec => []ColumnsAsFetched
<1>1. StmtInv => ColumnsAsFetched
  BY DEF StmtInv
<1>2. QED
  BY <1>1, StmtInitial, StmtStep, PTL DEF StmtSpec
=============================================================================
