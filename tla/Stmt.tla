----------------------------------- MODULE Stmt -----------------------------------
(***************************************************************************)
(* A prepared statement: values are streamed into a StmtItem, executed as  *)
(* rows, and a row of the result is fetched into a StmtRes.                *)
(*                                                                         *)
(* Source: src/src/mysql/yylibmysql.cpp (StmtItem, StmtRes) over           *)
(* memstuff.h.  The values and the columns live in memory that alloc hands *)
(* out, the library reads and writes it through the pointers it was given. *)
(* The MySQL client library is external.                                   *)
(***************************************************************************)
EXTENDS MemStuff

CONSTANTS
  Marks,      (* what tells two values apart: the byte they are made of    *)
  StrLens,    (* lengths of the strings bound                              *)
  IntSizes,   (* sizes of the numbers bound                                *)
  WordSize,   (* sizeof(unsigned long)                                     *)
  Totals,     (* parameter counts a statement may have                     *)
  Columns,    (* columns of a result: the length that the metadata states, *)
              (* and the bytes the library stores for a value              *)
  MaxCols,    (* bound on the columns of a result                          *)
  MaxOps      (* bound on the calls                                        *)

ASSUME StmtAssumption ==
  /\ Marks \subseteq Nat \ {0}
  /\ WordSize \in Nat \ {0}
  /\ StrLens \cup IntSizes \cup Totals \subseteq Nat
  /\ Columns \subseteq [length : Nat, size : Nat]
  /\ \A c \in Columns : c.size <= c.length + 1
  /\ {MaxCols, MaxOps} \subseteq Nat

VARIABLES
  blocks,    (* StmtItem::_stuff                                           *)
  binds,     (* _bind[0 .. valIndex - 1]                                   *)
  total,     (* valTotal                                                   *)
  ready,     (* mysql_stmt_prepare has succeeded                           *)
  given,     (* the values streamed since valIndex was 0, those taken      *)
  row,       (* the last row executed, as the library read it              *)
  want,      (* the values that were streamed for it                       *)
  rblocks,   (* StmtRes::_stuff                                            *)
  cols,      (* StmtRes::_bind                                             *)
  bound,     (* BindResult has succeeded                                   *)
  fetched,   (* what the library stored for each column of the last row    *)
  ops        (* the number of calls                                        *)

itemVars == <<blocks, binds, total, ready, given, row, want>>
resVars == <<rblocks, cols, bound, fetched>>
stmtVars == <<itemVars, resVars, ops>>

StmtInit ==
  /\ blocks = <<>>
  /\ binds = <<>>
  /\ total = 0
  /\ ready = FALSE
  /\ given = <<>>
  /\ row = <<>>
  /\ want = <<>>
  /\ rblocks = <<>>
  /\ cols = <<>>
  /\ bound = FALSE
  /\ fetched = <<>>
  /\ ops = 0

Calls == ops < MaxOps /\ ops' = ops + 1
-----------------------------------------------------------------------------
(* Prepare: Clear, and the parameter count when the server accepts it.  A  *)
(* result bound before is no longer the statement's.                       *)
Prepare(n) ==
  /\ Calls
  /\ blocks' = Clear(blocks)
  /\ binds' = <<>>
  /\ given' = <<>>
  /\ \/ ready' = TRUE /\ total' = n
     \/ ready' = FALSE /\ total' = 0
  /\ bound' = FALSE
  /\ UNCHANGED <<row, want, rblocks, cols, fetched>>

Repeat(byte, n) == [i \in 1 .. n |-> byte]
NoPiece == [block |-> 0, off |-> 0, len |-> 0]

(* operator<< of a number: one piece.  A value too many is ignored.        *)
BindNumber(mark, n) ==
  /\ Calls
  /\ IF Len(binds) < total
     THEN LET at == AllocAt(blocks, n) IN
          /\ blocks' = Fill(Alloc(blocks, n), at, Repeat(mark, n))
          /\ binds' = Append(binds, [buffer |-> at, length |-> NoPiece])
          /\ given' = Append(given, Repeat(mark, n))
     ELSE UNCHANGED <<blocks, binds, given>>
  /\ UNCHANGED <<total, ready, row, want, resVars>>

(* operator<< of a stream or of a time: nothing is bound.                  *)
BindIgnored ==
  /\ Calls
  /\ UNCHANGED <<itemVars, resVars>>

(* operator<< of a string: a piece for the string and its terminator, and  *)
(* one for the word with its length.                                       *)
BindString(mark, n) ==
  /\ Calls
  /\ IF Len(binds) < total
     THEN LET at == AllocAt(blocks, n + 1)
              mid == Fill(Alloc(blocks, n + 1), at, Append(Repeat(mark, n), 0))
              wat == AllocAt(mid, WordSize)
          IN
          /\ blocks' = Fill(Alloc(mid, WordSize), wat, Repeat(n, WordSize))
          /\ binds' = Append(binds, [buffer |-> at, length |-> wat])
          /\ given' = Append(given, Repeat(mark, n))
     ELSE UNCHANGED <<blocks, binds, given>>
  /\ UNCHANGED <<total, ready, row, want, resVars>>

(* What mysql_stmt_execute reads through a bind.                           *)
ReadBind(b) ==
  LET bytes == Bytes(blocks, b.buffer)
  IN  IF b.length = NoPiece THEN bytes
      ELSE SubSeq(bytes, 1, Bytes(blocks, b.length)[1])

(* Mutant: the values count as streamed although the row was executed.     *)
ExecuteKeepsIndex ==
  /\ Calls
  /\ IF Len(binds) = total
     THEN /\ row' = IF ready THEN [i \in 1 .. total |-> ReadBind(binds[i])] ELSE row
          /\ want' = IF ready THEN given ELSE want
          /\ blocks' = Clear(blocks)
          /\ given' = <<>>
     ELSE UNCHANGED <<row, want, blocks, given>>
  /\ UNCHANGED <<binds, total, ready, resVars>>

(* operator<< of Execute(): nothing unless every parameter has a value;    *)
(* then the row goes to the server and the memory is taken back.           *)
Execute ==
  /\ Calls
  /\ IF Len(binds) = total
     THEN /\ row' = IF ready THEN [i \in 1 .. total |-> ReadBind(binds[i])] ELSE row
          /\ want' = IF ready THEN given ELSE want
          /\ binds' = <<>>
          /\ blocks' = Clear(blocks)
          /\ given' = <<>>
     ELSE UNCHANGED <<row, want, binds, blocks, given>>
  /\ UNCHANGED <<total, ready, resVars>>
-----------------------------------------------------------------------------
(* StmtRes: a new object with memory of its own.                           *)
GetRes ==
  /\ Calls
  /\ ready
  /\ rblocks' = <<>>
  /\ cols' = <<>>
  /\ bound' = FALSE
  /\ fetched' = <<>>
  /\ UNCHANGED itemVars

(* Mutant: one byte serves both flags of a column.                         *)
AddColumnOneFlag(c) ==
  /\ Calls
  /\ ready
  /\ ~bound /\ fetched = <<>>
  /\ Len(cols) < MaxCols
  /\ LET b1 == Alloc(rblocks, c.length + 1)
     IN  /\ rblocks' = Alloc(b1, 1)
         /\ cols' = Append(cols, [size |-> c.size,
                                  buffer |-> AllocAt(rblocks, c.length + 1),
                                  isnull |-> AllocAt(b1, 1), error |-> AllocAt(b1, 1)])
  /\ UNCHANGED <<itemVars, bound, fetched>>

(* One turn of its loop over the columns: the column's bytes and one more, *)
(* then a byte for is_null and a byte for error.                           *)
AddColumn(c) ==
  /\ Calls
  /\ ready
  /\ ~bound /\ fetched = <<>>
  /\ Len(cols) < MaxCols
  /\ LET b1 == Alloc(rblocks, c.length + 1)
         b2 == Alloc(b1, 1)
     IN  /\ rblocks' = Alloc(b2, 1)
         /\ cols' = Append(cols, [size |-> c.size,
                                  buffer |-> AllocAt(rblocks, c.length + 1),
                                  isnull |-> AllocAt(b1, 1), error |-> AllocAt(b2, 1)])
  /\ UNCHANGED <<itemVars, bound, fetched>>

(* BindResult hands the columns to the library, which may refuse them.     *)
BindResult ==
  /\ Calls
  /\ ready
  /\ cols # <<>>
  /\ bound' \in BOOLEAN
  /\ UNCHANGED <<itemVars, rblocks, cols, fetched>>

(* What a column reads as through its three pointers.                      *)
ReadColumn(mem, c) ==
  [data   |-> SubSeq(Bytes(mem, c.buffer), 1, c.size),
   isnull |-> Bytes(mem, c.isnull)[1],
   error  |-> Bytes(mem, c.error)[1]]

(* Byte i of block b is one of the n bytes at a pointer.                   *)
Covers(at, n, b, i) == at.block = b /\ i - at.off \in 1 .. n

(* What mysql_stmt_fetch leaves in a byte that was old: it stores the      *)
(* datum of every column that is not NULL, then the flags (0 or 1) of      *)
(* every column.                                                           *)
StoredByte(b, i, old, vals, fs) ==
  LET flags == {k \in 1 .. Len(cols) : \/ Covers(cols[k].isnull, 1, b, i)
                                       \/ Covers(cols[k].error, 1, b, i)}
      data == {k \in 1 .. Len(cols) : /\ fs[k].isnull = 0
                                      /\ Covers(cols[k].buffer, cols[k].size, b, i)}
  IN  CASE flags # {} -> LET k == CHOOSE k \in flags : TRUE
                         IN  IF Covers(cols[k].error, 1, b, i) THEN fs[k].error ELSE fs[k].isnull
        [] flags = {} /\ data # {} -> vals[CHOOSE k \in data : TRUE]
        [] OTHER -> old

Stored(mem, vals, fs) ==
  [b \in 1 .. Len(mem) |->
     [mem[b] EXCEPT !.cells = [i \in DOMAIN @ |-> StoredByte(b, i, @[i], vals, fs)]]]

(* What column k then holds: the datum, or what was there before a NULL.   *)
Datum(mem, k, vals, fs) ==
  IF fs[k].isnull = 1 THEN ReadColumn(mem, cols[k]).data ELSE Repeat(vals[k], cols[k].size)

Fetch(vals, fs) ==
  /\ Calls
  /\ bound
  /\ rblocks' = Stored(rblocks, vals, fs)
  /\ fetched' = [k \in 1 .. Len(cols) |->
                   [data |-> Datum(rblocks, k, vals, fs),
                    isnull |-> fs[k].isnull, error |-> fs[k].error]]
  /\ UNCHANGED <<itemVars, cols, bound>>
-----------------------------------------------------------------------------
Flags == {[isnull |-> 0, error |-> 0], [isnull |-> 0, error |-> 1], [isnull |-> 1, error |-> 0]}

StmtNext ==
  \/ \E n \in Totals : Prepare(n)
  \/ \E m \in Marks, n \in IntSizes : BindNumber(m, n)
  \/ BindIgnored
  \/ \E m \in Marks, n \in StrLens : BindString(m, n)
  \/ Execute
  \/ GetRes
  \/ \E c \in Columns : AddColumn(c)
  \/ BindResult
  \/ \E vals \in [1 .. Len(cols) -> Marks], fs \in [1 .. Len(cols) -> Flags] : Fetch(vals, fs)

StmtSpec == StmtInit /\ [][StmtNext]_stmtVars
-----------------------------------------------------------------------------
Piece == [block : Nat, off : Nat, len : Nat]
Memory(mem) ==
  \A b \in 1 .. Len(mem) :
    /\ mem[b].cap \in Nat /\ mem[b].size \in 0 .. mem[b].cap
    /\ mem[b].cells \in [1 .. mem[b].cap -> Nat]

(* Types; no more values than parameters, and no block used past its end   *)
(* (memstuff.h alloc, StmtItem::operator<<).                               *)
StmtTypeOK ==
  /\ Memory(blocks) /\ Memory(rblocks)
  /\ \A i \in 1 .. Len(binds) : binds[i].buffer \in Piece /\ binds[i].length \in Piece
  /\ \A k \in 1 .. Len(cols) : {cols[k].buffer, cols[k].isnull, cols[k].error} \subseteq Piece
  /\ total \in Nat /\ Len(binds) <= total
  /\ ready \in BOOLEAN /\ bound \in BOOLEAN
  /\ ops \in 0 .. MaxOps

(* The pieces in the fields of a list of records lie inside the memory and *)
(* do not overlap.                                                         *)
Apart(mem, recs, fields) ==
  \A i, j \in 1 .. Len(recs), f, g \in fields :
    recs[i][f] # NoPiece =>
      /\ Inside(mem, recs[i][f])
      /\ i # j \/ f # g => Disjoint(recs[i][f], recs[j][g])

(* Every pointer handed to the library points into memory that is still    *)
(* handed out, and no two overlap, whatever is streamed, executed, cleared *)
(* and streamed again over the same blocks (memstuff.h alloc and clear).   *)
PiecesApart ==
  /\ Apart(blocks, binds, {"buffer", "length"})
  /\ Apart(rblocks, cols, {"buffer", "isnull", "error"})

(* A row executed carries the values streamed for it, in their order and   *)
(* with their lengths, read through the pointers at the time of Execute.   *)
RowAsGiven == row = want

(* Between two fetches every column reads as the library stored it: no     *)
(* column or flag is written by another's, and the buffer of a NULL column *)
(* keeps what it held (StmtRes::StmtRes).                                  *)
ColumnsAsFetched ==
  fetched # <<>> => \A k \in 1 .. Len(cols) : ReadColumn(rblocks, cols[k]) = fetched[k]
=============================================================================
