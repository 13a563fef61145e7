-------------------------------- MODULE Fec --------------------------------
(***************************************************************************)
(* The systematic erasure code of dnsmesh-core/src/erasure: arithmetic of  *)
(* GF(2^8) through its tables, the encoder matrix derived from a           *)
(* Vandermonde matrix, encoding, and decoding by Gauss-Jordan elimination  *)
(* (fec.rs), under the length-prefixed framing of erasure/mod.rs.          *)
(*                                                                         *)
(* Bytes are 0..255 and rows, columns and shares are counted from 0 as in  *)
(* the code.  The block width, the length prefix and the field's limit on  *)
(* the number of shares are parameters.                                    *)
(***************************************************************************)
EXTENDS Integers, Sequences, SequencesExt, FiniteSets, FiniteSetsExt, TLC

CONSTANTS
    DATA_PER_CHUNK,   \* bytes of a block (128 in the code)
    LEN_PREFIX,       \* bytes of the length prefix (4 in the code)
    MAX_M             \* most shares Fec::new accepts (256 in the code)

ASSUME FecAssumption ==
    /\ DATA_PER_CHUNK \in Nat \ {0}
    /\ LEN_PREFIX \in Nat \ {0}
    /\ MAX_M \in 2..256

Byte == 0..255
None == <<>>                            \* Option::None, or an Err
Some(x) == <<x>>

Upto(n) == [i \in 1..n |-> i - 1]       \* the loop "for i in 0..n"

\* The function f itself, as a table TLC fills in at once.
Tab(f) == f @@ <<>>

(***************************************************************************)
(* GF(2^8).                                                                *)
(***************************************************************************)
\* Addition is exclusive or, bit by bit.
GfAdd(a, b) ==
    LET bit(i) == 2^i * ((a \div 2^i + b \div 2^i) % 2)
    IN  bit(0) + bit(1) + bit(2) + bit(3) + bit(4) + bit(5) + bit(6) + bit(7)

\* x mod 255, folding the high bits into the low ones.
modnn[x \in Nat] ==
    IF x < 255 THEN x
    ELSE LET y == x - 255 IN modnn[(y \div 256) + (y % 256)]

PP == <<1, 0, 1, 1, 1, 0, 0, 0, 1>>     \* the primitive polynomial
Alpha8 == FoldLeft(LAMBDA acc, i : IF PP[i] = 1 THEN acc + 2^(i - 1) ELSE acc,
                   0, [i \in 1..8 |-> i])

\* Multiplication by alpha: a shift, with reduction when the top bit is set.
Times(x) == IF x >= 128 THEN GfAdd(Alpha8, 2 * (x - 128)) ELSE 2 * x

\* The powers of alpha, as build_gf_tables() fills them in.
ExpTable == <<
    1, 2, 4, 8, 16, 32, 64, 128, 29, 58, 116, 232, 205, 135, 19, 38, 76,
    152, 45, 90, 180, 117, 234, 201, 143, 3, 6, 12, 24, 48, 96, 192, 157, 39,
    78, 156, 37, 74, 148, 53, 106, 212, 181, 119, 238, 193, 159, 35, 70, 140, 5,
    10, 20, 40, 80, 160, 93, 186, 105, 210, 185, 111, 222, 161, 95, 190, 97, 194,
    153, 47, 94, 188, 101, 202, 137, 15, 30, 60, 120, 240, 253, 231, 211, 187, 107,
    214, 177, 127, 254, 225, 223, 163, 91, 182, 113, 226, 217, 175, 67, 134, 17, 34,
    68, 136, 13, 26, 52, 104, 208, 189, 103, 206, 129, 31, 62, 124, 248, 237, 199,
    147, 59, 118, 236, 197, 151, 51, 102, 204, 133, 23, 46, 92, 184, 109, 218, 169,
    79, 158, 33, 66, 132, 21, 42, 84, 168, 77, 154, 41, 82, 164, 85, 170, 73,
    146, 57, 114, 228, 213, 183, 115, 230, 209, 191, 99, 198, 145, 63, 126, 252, 229,
    215, 179, 123, 246, 241, 255, 227, 219, 171, 75, 150, 49, 98, 196, 149, 55, 110,
    220, 165, 87, 174, 65, 130, 25, 50, 100, 200, 141, 7, 14, 28, 56, 112, 224,
    221, 167, 83, 166, 81, 162, 89, 178, 121, 242, 249, 239, 195, 155, 43, 86, 172,
    69, 138, 9, 18, 36, 72, 144, 61, 122, 244, 245, 247, 243, 251, 235, 203, 139,
    11, 22, 44, 88, 176, 125, 250, 233, 207, 131, 27, 54, 108, 216, 173, 71, 142 >>

ASSUME TableAssumption ==
    /\ Len(ExpTable) = 255
    /\ ExpTable[1] = 1
    /\ \A i \in 2..255 : ExpTable[i] = Times(ExpTable[i - 1])

exp(i) == ExpTable[(i % 255) + 1]
LogTable == <<>> \o [x \in 1..255 |-> (CHOOSE i \in 1..255 : ExpTable[i] = x) - 1]
mul(a, b) == IF a = 0 \/ b = 0 THEN 0 ELSE exp(modnn[LogTable[a] + LogTable[b]])
inverse(a) == IF a = 0 THEN 0 ELSE IF a = 1 THEN 1 ELSE exp(255 - LogTable[a])

(***************************************************************************)
(* Matrices over GF(2^8), as functions of row and then column.             *)
(***************************************************************************)
Rows(k) == 0..(k - 1)

Dot(u, v, k) ==
    FoldLeft(LAMBDA acc, i : GfAdd(acc, mul(u[i], v[i])), 0, Upto(k))

matmul(a, b, rows, k) ==
    Tab([r \in rows |-> [c \in Rows(k) |-> Dot(a[r], [i \in Rows(k) |-> b[i][c]], k)]])

\* Row 0 evaluates at the point 0, row r at alpha^(r-1).
Vandermonde(k, m) ==
    Tab([r \in Rows(m) |-> [c \in Rows(k) |->
        IF r = 0 THEN IF c = 0 THEN 1 ELSE 0
        ELSE exp(modnn[(r - 1) * c])]])

\* The coefficients of the product of all (x - p[i]), lowest at c[0].
MasterPolynomial(p, k) ==
    FoldLeft(LAMBDA c, i :
                Tab([j \in Rows(k) |->
                    IF j = k - 1 THEN GfAdd(c[j], p[i])
                    ELSE IF j >= k - i THEN GfAdd(c[j], mul(p[i], c[j + 1]))
                    ELSE c[j]]),
             Tab([j \in Rows(k) |-> IF j = k - 1 THEN p[0] ELSE 0]),
             [i \in 1..(k - 1) |-> i])

\* Synthetic division by (x - x0): the quotient b and its value t at x0.
SyntheticDivision(c, x0, k) ==
    FoldLeft(LAMBDA s, n :
                LET i == k - n
                    q == GfAdd(c[i], mul(x0, s.b[i]))
                IN  [b |-> [s.b EXCEPT ![i - 1] = q], t |-> GfAdd(mul(x0, s.t), q)],
             [b |-> Tab([j \in Rows(k) |-> IF j = k - 1 THEN 1 ELSE 0]), t |-> 1],
             [n \in 1..(k - 1) |-> n])

invert_vandermonde(v, k) ==
    IF k = 1 THEN [r \in {0} |-> v[0]]
    ELSE LET p == [r \in Rows(k) |-> v[r][1]]
             c == MasterPolynomial(p, k)
             d == Tab([r \in Rows(k) |-> SyntheticDivision(c, p[r], k)])
         IN  Tab([col \in Rows(k) |-> [row \in Rows(k) |->
                 mul(inverse(d[row].t), d[row].b[col])]])

\* The pivot of step col: the diagonal when it serves, else the first entry
\* of the first row not yet used.
Pivot(a, taken, col, k) ==
    IF col \notin taken /\ a[col][col] # 0 THEN Some(<<col, col>>)
    ELSE LET free == {rc \in (Rows(k) \ taken) \X (Rows(k) \ taken) :
                          a[rc[1]][rc[2]] # 0}
         IN  IF free = {} THEN None
             ELSE Some(CHOOSE x \in free : \A y \in free :
                          x[1] < y[1] \/ (x[1] = y[1] /\ x[2] <= y[2]))

\* Swap the pivot onto the diagonal, normalise its row and clear its column,
\* leaving the column of the inverse in its place.
Eliminate(a0, irow, icol, k) ==
    LET a == [a0 EXCEPT ![irow] = a0[icol], ![icol] = a0[irow]]
        inv == inverse(a[icol][icol])
        prow == Tab([c \in Rows(k) |->
                    mul(inv, IF c = icol THEN 1 ELSE a[icol][c])])
    IN  Tab([r \in Rows(k) |->
            IF r = icol THEN prow
            ELSE [c \in Rows(k) |->
                    GfAdd(IF c = icol THEN 0 ELSE a[r][c], mul(a[r][icol], prow[c]))]])

\* One step of the elimination, for the pivot pv that was found; None when the
\* matrix is singular.
PivotStep(s, pv, k) ==
    IF pv = None THEN None
    ELSE Some([a     |-> Eliminate(s.a, pv[1][1], pv[1][2], k),
               taken |-> s.taken \cup {pv[1][2]},
               swaps |-> pv \o s.swaps])

\* Undo the row swaps as column swaps of the inverse, the last one first.
Unswap(end, k) ==
    IF end = None THEN None
    ELSE Some(FoldLeft(
            LAMBDA a, rc : Tab([r \in Rows(k) |->
                [a[r] EXCEPT ![rc[1]] = a[r][rc[2]], ![rc[2]] = a[r][rc[1]]]]),
            end[1].a, end[1].swaps))

\* Gauss-Jordan in place.
invert_matrix(a0, k) ==
    Unswap(FoldLeft(LAMBDA s, col :
                IF s = None THEN None
                ELSE PivotStep(s[1], Pivot(s[1].a, s[1].taken, col, k), k),
             Some([a |-> a0, taken |-> {}, swaps |-> <<>>]), Upto(k)), k)

(***************************************************************************)
(* Fec::new, encode and decode.                                            *)
(***************************************************************************)
LegalConfig(k, m) == k # 0 /\ m # 0 /\ m <= MAX_M /\ k < m

EncMatrix(k, m) ==
    LET v == Vandermonde(k, m)
        low == matmul(v, invert_vandermonde(v, k), k..(m - 1), k)
    IN  Tab([r \in Rows(m) |->
            IF r < k THEN [c \in Rows(k) |-> IF c = r THEN 1 ELSE 0] ELSE low[r]])

chunk_size_for(len, k) == (len + k - 1) \div k

\* The k data blocks, zero-padded, then the parity blocks.
FecEncode(data, k, m) ==
    LET size == chunk_size_for(Len(data), k)
        block == Tab([i \in Rows(k) |-> [b \in 1..size |->
                    IF i * size + b <= Len(data) THEN data[i * size + b] ELSE 0]])
        enc == EncMatrix(k, m)
    IN  Tab([i \in Rows(m) |->
            IF i < k THEN block[i]
            ELSE [b \in 1..size |-> Dot(enc[i], [j \in Rows(k) |-> block[j][b]], k)]])

\* Mutant: every missing slot takes the first parity share.
SlotsReused(shares, k) ==
    LET parity == SetToSortSeq(DOMAIN shares \ Rows(k), <)
    IN  Tab([i \in Rows(k) |->
            IF i \in DOMAIN shares THEN Some(i)
            ELSE IF parity # <<>> THEN Some(Head(parity)) ELSE None])

\* Which share stands in each data slot: its own, else the parity shares that
\* are present, in order, one per missing slot.
Slots(shares, k) ==
    LET missing == SetToSortSeq(Rows(k) \ DOMAIN shares, <)
        parity == SetToSortSeq(DOMAIN shares \ Rows(k), <)
    IN  Tab([i \in Rows(k) |->
            IF i \in DOMAIN shares THEN Some(i)
            ELSE LET n == CHOOSE x \in 1..Len(missing) : missing[x] = i
                 IN  IF n <= Len(parity) THEN Some(parity[n]) ELSE None])

\* The blocks of the data slots, filled with the shares that stand in them and,
\* for a parity share, by a row of the inverse.
Repair(shares, stand, inv, k) ==
    IF (\E i \in Rows(k) : stand[i] >= k) /\ inv = None THEN None
    ELSE Some(FlattenSeq([n \in 1..k |->
            IF stand[n - 1] < k THEN shares[stand[n - 1]]
            ELSE [b \in DOMAIN shares[stand[0]] |->
                    Dot(inv[1][n - 1], [j \in Rows(k) |-> shares[stand[j]][b]], k)]]))

\* The rows of the encoder matrix that belong to those shares.
DecodeMatrix(stand, enc, k) ==
    Tab([i \in Rows(k) |->
        IF stand[i] < k THEN [c \in Rows(k) |-> IF c = i THEN 1 ELSE 0]
        ELSE enc[stand[i]]])

Reconstruct(shares, stand, k, m) ==
    Repair(shares, stand, invert_matrix(DecodeMatrix(stand, EncMatrix(k, m), k), k), k)

\* shares is a function from share indices to blocks of one width; None when
\* there are too few of them.
FecDecode(shares, k, m) ==
    IF \E i \in Rows(k) : Slots(shares, k)[i] = None THEN None
    ELSE Reconstruct(shares, Tab([i \in Rows(k) |-> Slots(shares, k)[i][1]]), k, m)

(***************************************************************************)
(* erasure::choose_kn, encode and decode, at the redundancy send uses      *)
(* (3/10).                                                                 *)
(***************************************************************************)
div_ceil(a, b) == IF b = 0 THEN 0 ELSE a \div b + (IF a % b # 0 THEN 1 ELSE 0)

choose_kn(len) ==
    LET k == Max({div_ceil(len + LEN_PREFIX, DATA_PER_CHUNK), 1})
        parity == Max({div_ceil(k * 3, 10), 1})
    IN  [k |-> k, n |-> k + parity]

\* A length as LEN_PREFIX bytes, the most significant first, and back.
LenBytes(len) == [i \in 1..LEN_PREFIX |-> (len \div 256^(LEN_PREFIX - i)) % 256]
LenValue(bytes) == FoldLeft(LAMBDA acc, b : 256 * acc + b, 0, bytes)

\* The blocks of a plaintext, or None when the configuration is refused.
ErasureEncode(plaintext) ==
    LET kn == choose_kn(Len(plaintext))
        framed == LenBytes(Len(plaintext)) \o plaintext
        padded == framed \o [i \in 1..(kn.k * DATA_PER_CHUNK - Len(framed)) |-> 0]
    IN  IF LegalConfig(kn.k, kn.n) THEN Some(FecEncode(padded, kn.k, kn.n)) ELSE None

\* Strip the length prefix and the padding; None when they do not fit.
Unframe(padded) ==
    IF padded = None \/ Len(padded[1]) < LEN_PREFIX THEN None
    ELSE LET length == LenValue(SubSeq(padded[1], 1, LEN_PREFIX))
         IN  IF length > Len(padded[1]) - LEN_PREFIX THEN None
             ELSE Some(SubSeq(padded[1], LEN_PREFIX + 1, LEN_PREFIX + length))

\* The k shares of least index, checked and decoded; None on any mismatch.
ErasureDecode(shares, k, n) ==
    LET chosen == ToSet(SubSeq(SetToSortSeq(DOMAIN shares, <), 1, k))
    IN  IF \/ k = 0 \/ n <= k
           \/ Cardinality(DOMAIN shares) < k
           \/ \E i \in chosen : Len(shares[i]) # DATA_PER_CHUNK \/ i >= n
           \/ ~LegalConfig(k, n)
        THEN None
        ELSE Unframe(FecDecode([i \in chosen |-> shares[i]], k, n))
=============================================================================
