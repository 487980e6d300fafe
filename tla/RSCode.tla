---- MODULE RSCode ----
(***************************************************************************)
(* The Reed-Solomon arithmetic of updates and repairs: the matrix routines *)
(* of Util/jerasure.c and Util/reed_sol.c the program calls, and RSUtil.cc,*)
(* which computes with which coefficients a lost block is the sum of the   *)
(* surviving ones.  The code uses GF(2^8); the field here is GF(2^W).      *)
(* A matrix is a function of rows, rows and columns count from 0.          *)
(***************************************************************************)
EXTENDS Integers, Sequences, SequencesExt, FiniteSetsExt, Bitwise

CONSTANTS W, Poly   \* the field: its width, and a primitive polynomial of degree W

ASSUME FieldAssumption == W \in 1..8 /\ Poly \in 2^W..(2^(W + 1) - 1)

GF == 0..(2^W - 1)

\* gf_complete (external): products, by shifting one factor and reducing.
Doubled(a) == IF 2 * a >= 2^W THEN (2 * a) ^^ Poly ELSE 2 * a
Product[p \in GF \X GF] ==
  IF p[2] = 0 THEN 0
  ELSE (IF p[2] % 2 = 1 THEN p[1] ELSE 0) ^^ Product[<<Doubled(p[1]), p[2] \div 2>>]

AddTable == [p \in GF \X GF |-> p[1] ^^ p[2]]
MulTable == [p \in GF \X GF |-> Product[p]]
DivTable == [p \in GF \X (GF \ {0}) |-> CHOOSE q \in GF : MulTable[<<q, p[2]>>] = p[1]]

Add(a, b) == AddTable[<<a, b>>]
galois_single_multiply(a, b) == MulTable[<<a, b>>]
galois_single_divide(a, b) == IF a = 0 THEN 0 ELSE IF b = 0 THEN -1 ELSE DivTable[<<a, b>>]

\* galois_w08_region_multiply of a row, and with add = 1.
Scaled(row, f) == [x \in DOMAIN row |-> galois_single_multiply(row[x], f)]
Plus(row, f, other) == [x \in DOMAIN row |-> Add(row[x], galois_single_multiply(f, other[x]))]

Swapped(m, i, k) == [m EXCEPT ![i] = m[k], ![k] = m[i]]
Upto(n) == [i \in 1..n |-> i - 1]
Identity(n) == [i \in 0..(n - 1) |-> [j \in 0..(n - 1) |-> IF i = j THEN 1 ELSE 0]]
Singular == <<>>   \* no matrix: the return value -1

\* jerasure_matrix_multiply
jerasure_matrix_multiply(m1, m2) ==
  [i \in DOMAIN m1 |-> [j \in DOMAIN m2[0] |->
     FoldLeft(LAMBDA sum, k : Add(sum, galois_single_multiply(m1[i][k], m2[k][j])), 0,
              Upto(Cardinality(DOMAIN m2)))]]

\* One column of jerasure_invert_matrix's first pass: a row with a nonzero
\* element is swapped in, scaled to 1, and eliminated from the rows below.
ToTriangular(st, i) ==
  LET rows == {j \in DOMAIN st.mat : j >= i /\ st.mat[j][i] # 0}
      j == Min(rows)
      mat == Swapped(st.mat, i, j)
      inv == Swapped(st.inv, i, j)
      inverse == galois_single_divide(1, mat[i][i])
      mrow == Scaled(mat[i], inverse)
      irow == Scaled(inv[i], inverse)
      Below(m, row) == [k \in DOMAIN m |-> IF k < i THEN m[k] ELSE IF k = i THEN row
                                           ELSE Plus(m[k], mat[k][i], row)]
  IN IF st.failed \/ rows = {} THEN [st EXCEPT !.failed = TRUE]
     ELSE [mat |-> Below(mat, mrow), inv |-> Below(inv, irow), failed |-> FALSE]

\* Mutant: the second pass reads the row instead of the column.
Upwards_Transposed(mat, inv, i) ==
  [j \in DOMAIN inv |-> IF j < i THEN Plus(inv[j], mat[i][j], inv[i]) ELSE inv[j]]

\* One row of the second pass, from the last: it is taken out of the rows above.
\* (mat is upper triangular with ones; of it only column i is read.)
Upwards(mat, inv, i) ==
  [j \in DOMAIN inv |-> IF j < i THEN Plus(inv[j], mat[j][i], inv[i]) ELSE inv[j]]

jerasure_invert_matrix(m) ==
  LET n == Cardinality(DOMAIN m)
      up == FoldLeft(ToTriangular, [mat |-> m, inv |-> Identity(n), failed |-> FALSE], Upto(n))
  IN IF up.failed THEN Singular
     ELSE FoldLeft(LAMBDA inv, i : Upwards(up.mat, inv, i), up.inv, Reverse(Upto(n)))

\* jerasure_matrix_dotprod of one unit per block: factors 1 are XORed, the
\* others multiplied; with no factor at all the destination keeps its content.
jerasure_matrix_dotprod(row, data, dest) ==
  IF \A i \in DOMAIN row : row[i] = 0 THEN dest
  ELSE FoldLeft(LAMBDA sum, i : Add(sum, galois_single_multiply(row[i], data[i])), 0,
                Upto(Cardinality(DOMAIN row)))

jerasure_matrix_encode(m, data, dest) ==
  [i \in DOMAIN m |-> jerasure_matrix_dotprod(m[i], data, dest[i])]

----------------------------------------------------------------------------
\* reed_sol.c

\* reed_sol_extended_vandermonde_matrix
Power(b, e) == FoldLeft(LAMBDA p, k : galois_single_multiply(p, b), 1, Upto(e))
reed_sol_extended_vandermonde_matrix(rows, cols) ==
  [i \in 0..(rows - 1) |-> [j \in 0..(cols - 1) |->
     CASE i = 0 -> IF j = 0 THEN 1 ELSE 0
       [] i = rows - 1 -> IF j = cols - 1 THEN 1 ELSE 0
       [] OTHER -> Power(i, j)]]

\* One step of the distribution matrix: row i becomes a unit vector by column
\* operations, after a row with a nonzero element has been swapped in.
UnitRow(dist, i) ==
  LET j == Min({k \in DOMAIN dist : k >= i /\ dist[k][i] # 0})
      d == Swapped(dist, i, j)
      inverse == galois_single_divide(1, d[i][i])
      e == [r \in DOMAIN d |-> [d[r] EXCEPT ![i] = galois_single_multiply(inverse, @)]]
  IN [r \in DOMAIN e |-> [c \in DOMAIN e[r] |->
        IF c = i THEN e[r][c] ELSE Add(e[r][c], galois_single_multiply(e[i][c], e[r][i]))]]

\* The columns below the identity are scaled for a row of ones, then each
\* further row for a one in front.
Ones(dist, cols) ==
  LET c == [r \in DOMAIN dist |-> [j \in DOMAIN dist[r] |->
             IF r < cols THEN dist[r][j]
             ELSE galois_single_multiply(galois_single_divide(1, dist[cols][j]), dist[r][j])]]
  IN [r \in DOMAIN c |-> IF r <= cols THEN c[r] ELSE Scaled(c[r], galois_single_divide(1, c[r][0]))]

reed_sol_big_vandermonde_distribution_matrix(rows, cols) ==
  Ones(FoldLeft(UnitRow, reed_sol_extended_vandermonde_matrix(rows, cols), Tail(Upto(cols))), cols)

\* The coding matrix: the rows below the identity.
reed_sol_vandermonde_coding_matrix(k, m) ==
  LET dist == reed_sol_big_vandermonde_distribution_matrix(k + m, k)
  IN [i \in 0..(m - 1) |-> dist[k + i]]

----------------------------------------------------------------------------
\* RSUtil.cc; blocks are numbered with the parities first.

completeEncMat(k, m) ==
  LET enc == reed_sol_vandermonde_coding_matrix(k, m)
  IN [i \in 0..(k + m - 1) |-> IF i < m THEN enc[i] ELSE Identity(k)[i - m]]

\* The surviving rows S of the matrix, in the order of their numbers.
Rows(full, S) ==
  LET s == SetToSortSeq(S, <) IN [i \in 0..(Len(s) - 1) |-> full[s[i + 1]]]

RowTimesInverse(row, e) ==
  jerasure_matrix_multiply([i \in {0} |-> row], jerasure_invert_matrix(e))[0]

\* getCoefficient_multi: block idx from the blocks whose status is set.
getCoefficient_multi(k, m, idx, S) ==
  IF idx \in S \/ Cardinality(S) # k THEN <<>>
  ELSE LET full == completeEncMat(k, m) IN RowTimesInverse(full[idx], Rows(full, S))

\* The constructor: block i from the first k others.
FirstOthers(k, m, i) == {j \in 0..(k + m - 1) : j # i /\ (IF j < i THEN j < k ELSE j <= k)}
getCoefficient(k, m, i) ==
  LET full == completeEncMat(k, m) IN RowTimesInverse(full[i], Rows(full, FirstOthers(k, m, i)))
====
