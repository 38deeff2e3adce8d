------------------------------ MODULE Transpose ------------------------------
(***************************************************************************)
(* trans.c: transpose_submit for the three sizes it is graded on, and the  *)
(* simple transposes beside it, run by tracegen.c on its two static arrays *)
(* and measured on the simulated cache. The loop nests are unrolled into a *)
(* program: a sequence of steps, each the sequence of loads and stores of  *)
(* one innermost iteration in the order of the code. The temporaries are   *)
(* registers and cause no access (trans.o is built without optimisation,   *)
(* and test-trans.c drops the accesses to the stack).                      *)
(*                                                                         *)
(* An array is its words: A[r][c] is word r*M+c, and A holds at word x the *)
(* value x+1.  Subscripts past a row, as the code uses them for 61x67, are *)
(* the words that C takes them for.                                        *)
(***************************************************************************)
EXTENDS CacheSim

VARIABLES
    size,       \* the function, and the columns and rows of A, M and N
    pos,        \* steps of the program that are done
    B           \* the words of B; 0 stands for what initMatrix put there

transVars == <<simVars, size, pos, B>>

\* transpose_submit, and the functions that could be registered beside it.
Submitted == {[fn |-> "transpose_submit", M |-> 32, N |-> 32],
              [fn |-> "transpose_submit", M |-> 64, N |-> 64],
              [fn |-> "transpose_submit", M |-> 61, N |-> 67]}
Others == {[fn |-> "trans_naive", M |-> 61, N |-> 67], [fn |-> "trans_32_32", M |-> 32, N |-> 32],
           [fn |-> "trans", M |-> 61, N |-> 67]}
Sizes == Submitted \cup Others
NoSize == [fn |-> "none", M |-> 0, N |-> 0]

\* Both arrays have 256 rows of 256 ints of 4 bytes; B follows A, and A begins
\* at the first set of the cache.
ArrayWords == 256 * 256
ByteOf(cell) == 4 * (cell.word + IF cell.array = "A" THEN 0 ELSE ArrayWords)

-----------------------------------------------------------------------------
\* Accesses.  tmp is the temporary that is loaded or stored.
Loads(cells) == [k \in 1..Len(cells) |-> [op |-> "L", cell |-> cells[k], tmp |-> k]]
Stores(cells) == [k \in 1..Len(cells) |-> [op |-> "S", cell |-> cells[k], tmp |-> k]]

\* Load some cells into temporaries, then store them to others, one to one.
Copy(from, to) == Loads(from) \o Stores(to)
CopyEach(from, to) == FlattenSeq([k \in 1..Len(from) |-> Copy(<<from[k]>>, <<to[k]>>)])

\* tmp = x; x = y; y = tmp
Swap(x, y) ==
    <<[op |-> "L", cell |-> x, tmp |-> 1], [op |-> "L", cell |-> y, tmp |-> 2],
      [op |-> "S", cell |-> x, tmp |-> 2], [op |-> "S", cell |-> y, tmp |-> 1]>>

\* n cells of a row, or of a column, from [r][c] on; width is the row's length.
Row(array, width, r, c, n) ==
    [k \in 1..n |-> [array |-> array, word |-> r * width + c + k - 1]]
Col(array, width, r, c, n) ==
    [k \in 1..n |-> [array |-> array, word |-> (r + k - 1) * width + c]]

\* A slip: the inner loop ends one early.
PairsOneShort(n) == FlattenSeq([p \in 1..n-1 |-> [d \in 1..n-p-1 |-> <<p-1, p+d-1>>]])

\* for (p = 0; p < n; p++) for (q = p+1; q < n; q++)
Pairs(n) == FlattenSeq([p \in 1..n |-> [d \in 1..n-p |-> <<p-1, p+d-1>>]])

\* The tile of B at [r][c], transposed in place.
SwapCell(width, r, c, p, q) ==
    Swap(Row("B", width, r+p, c+q, 1)[1], Row("B", width, r+q, c+p, 1)[1])

-----------------------------------------------------------------------------
\* trans_32_32_opt: the rows of a block of A become rows of a block of B, which
\* is then transposed in place.
Block32(i, j) ==
    [k \in 1..8 |-> Copy(Row("A", 32, i+k-1, j, 8), Row("B", 32, j+k-1, i, 8))]
    \o [k \in 1..Len(Pairs(8)) |-> SwapCell(32, j, i, Pairs(8)[k][1], Pairs(8)[k][2])]

Program32 == FlattenSeq([n \in 1..16 |-> Block32(8 * ((n-1) \div 4), 8 * ((n-1) % 4))])

\* Two 4x4 tiles of B side by side, each transposed in place.
SwapTiles(r, c1, c2) ==
    [k \in 1..Len(Pairs(4)) |->
        LET p == Pairs(4)[k][1]
            q == Pairs(4)[k][2]
        IN  SwapCell(64, r, c1, p, q) \o SwapCell(64, r, c2, p, q)]

\* trans_64_64, a block on the diagonal: its lower half is brought into the
\* first rows of another block, j, which is overwritten later; both halves are
\* transposed by tiles; two tiles change places; the lower half goes home.
Diagonal64(i) ==
    LET j == IF i = 0 THEN 8 ELSE 0
        exchange(k) ==
            LET right == Row("B", 64, i+k-1, i+4, 4)
                other == Row("B", 64, i+k-1, j, 4)
                moved == CopyEach(other, right)
            IN  Loads(right) \o [a \in 1..8 |-> [moved[a] EXCEPT !.tmp = 5]] \o Stores(other)
    IN  [k \in 1..4 |-> Copy(Row("A", 64, i+k+3, i, 8), Row("B", 64, i+k-1, j, 8))]
        \o SwapTiles(i, j, j+4)
        \o [k \in 1..4 |-> Copy(Row("A", 64, i+k-1, i, 8), Row("B", 64, i+k-1, i, 8))]
        \o SwapTiles(i, i, i+4)
        \o [k \in 1..4 |-> exchange(k)]
        \o [k \in 1..4 |-> CopyEach(Row("B", 64, i+k-1, j, 8), Row("B", 64, i+k+3, i, 8))]

\* Any other block: the upper half of A's, whose right tile waits in the wrong
\* place; the lower left tile, which takes that place; the lower right tile.
OffDiagonal64(i, j) ==
    [k \in 1..4 |-> Copy(Row("A", 64, j+k-1, i, 8),
                         Col("B", 64, i, j+k-1, 4) \o Col("B", 64, i, j+k+3, 4))]
    \o [k \in 1..4 |-> Copy(Col("A", 64, j+4, i+k-1, 4) \o Row("B", 64, i+k-1, j+4, 4),
                            Row("B", 64, i+k-1, j+4, 4) \o Row("B", 64, i+k+3, j, 4))]
    \o [k \in 1..4 |-> Copy(Row("A", 64, j+k+3, i+4, 4), Col("B", 64, i+4, j+k+3, 4))]

Column64(i) ==
    Diagonal64(i)
    \o FlattenSeq([n \in 1..8 |-> IF i = 8*(n-1) THEN <<>> ELSE OffDiagonal64(i, 8*(n-1))])

Program64 == FlattenSeq([n \in 1..8 |-> Column64(8*(n-1))])

\* trans_61_67: blocks of 8 rows and 23 columns.  The test that is to keep the
\* columns in bounds, j + B_COL_NUM, is never 0: the last block of a row reads
\* and writes 8 columns too many.  Only the last rows are cut at both edges.
Block61(i, j) ==
    IF i + 8 <= 67
    THEN [k \in 1..23 |-> Copy(Col("A", 61, i, j+k-1, 8), Row("B", 67, j+k-1, i, 8))]
    ELSE [k \in 1..67-i |-> CopyEach(Row("A", 61, i+k-1, j, Min({23, 61-j})),
                                     Col("B", 67, j, i+k-1, Min({23, 61-j})))]

Program61 == FlattenSeq([n \in 1..27 |-> Block61(8 * ((n-1) \div 3), 23 * ((n-1) % 3))])

\* trans_32_32: the rows of a block become columns at once.
Columns32(i, j) == [k \in 1..8 |-> Copy(Row("A", 32, i+k-1, j, 8), Col("B", 32, j, i+k-1, 8))]
ProgramColumns32 == FlattenSeq([n \in 1..16 |-> Columns32(8 * ((n-1) \div 4), 8 * ((n-1) % 4))])

\* trans_naive and trans on 61x67, a cell at a time: by blocks of 8x8 that are
\* cut at the edges, and row after row.
NaiveRow(r, c, n) == CopyEach(Row("A", 61, r, c, n), Col("B", 67, c, r, n))
NaiveBlock(i, j) == [k \in 1..Min({8, 67-i}) |-> NaiveRow(i+k-1, j, Min({8, 61-j}))]
ProgramNaive == FlattenSeq([n \in 1..72 |-> NaiveBlock(8 * ((n-1) \div 8), 8 * ((n-1) % 8))])
ProgramScan ==
    [n \in 1..67 * 61 |->
        LET i == (n-1) \div 61
            j == (n-1) % 61
        IN  Copy(Row("A", 61, i, j, 1), Row("B", 67, j, i, 1))]

\* transpose_submit exits for a size that is none of its three.
ProgramOf(z) ==
    CASE z.fn = "trans_naive" -> ProgramNaive
      [] z.fn = "trans_32_32" -> ProgramColumns32
      [] z.fn = "trans" -> ProgramScan
      [] z.fn = "transpose_submit" ->
             IF z.M = 32 THEN Program32 ELSE IF z.M = 64 THEN Program64 ELSE Program61

ProgramLength == [z \in Sizes |-> Len(ProgramOf(z))]

-----------------------------------------------------------------------------
\* One access of the running program.
Perform(st, a) ==
    LET sim == load_in_cache(st.sim, ByteOf(a.cell))
        value == IF a.cell.array = "A" THEN a.cell.word + 1 ELSE st.B[a.cell.word]
    IN  IF a.op = "L" THEN [st EXCEPT !.sim = sim, !.tmp[a.tmp] = value]
        ELSE [st EXCEPT !.sim = sim, !.B[a.cell.word] = st.tmp[a.tmp]]

\* The words that some loop reaches, those past the last row of 61x67 included.
Words(sz) == 0..(sz.M + 8) * sz.N - 1

TransposeInit ==
    /\ Init
    /\ size \in Sizes
    /\ pos = 0
    /\ B = [w \in Words(size) |-> 0]

TransposeStep ==
    /\ size # NoSize /\ pos < ProgramLength[size]
    /\ LET st == FoldLeft(Perform, [sim |-> Sim, B |-> B, tmp |-> [k \in 1..8 |-> 0]],
                          ProgramOf(size)[pos + 1])
       IN  Counts(st.sim) /\ B' = st.B
    /\ pos' = pos + 1
    /\ UNCHANGED <<size, order>>

-----------------------------------------------------------------------------
Done == size # NoSize /\ pos = ProgramLength[size]

\* validate of tracegen.c, with correctTrans of cachelab.c: B is A transposed,
\* although blocks are moved through each other's space and 61x67 strays
\* beyond its last column.
TransposeCorrect ==
    Done => \A r \in 0..size.N-1, c \in 0..size.M-1 :
                B[c * size.N + r] = r * size.M + c + 1

\* driver.py: with no more misses than this a size gets its full score.
FullScore == [m \in {32, 64, 61} |-> IF m = 32 THEN 300 ELSE IF m = 64 THEN 1300 ELSE 2000]

\* Each size gets its full score, even if the accesses to the globals of
\* tracegen.c between the two markers, GlobalAccesses at most, all miss and
\* each of them evicts a block that is needed again.
GlobalAccesses == 8
WithinMissLimit ==
    Done /\ size \in Submitted => misses + 2 * GlobalAccesses <= FullScore[size.M]
=============================================================================
