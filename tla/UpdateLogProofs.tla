--------------------------- MODULE UpdateLogProofs ---------------------------
(***************************************************************************)
(* Machine-checked facts about UpdateLog, for every code, block size, log  *)
(* size, trace and number of crashes and experiments.                      *)
(***************************************************************************)
EXTENDS UpdateLog, FiniteSetTheorems, TLAPS

\* Every range is one, inside its block, also after ends were merged.
RangesOK == \A b \in Blocks : lo[b] <= hi[b] /\ hi[b] <= blocksize

\* No block is listed twice in its stripe.
ListsOK ==
    \A s \in Stripes : \A i, j \in 1 .. Len(list[s]) : list[s][i] = list[s][j] => i = j

\* The loop over the blocks of a request, and that of the random way.
LoopsOK ==
    /\ pc = "insert" => req \in Requests /\ StartBlk(req) <= blk /\ blk <= EndBlk(req)
    /\ pc = "random" => /\ blk < ecK
                        /\ \A k \in 1 .. Len(list[0]) : list[0][k] < blk
    /\ pc \in {"flush", "clear"} => round > 0

\* A line is at work only while fewer than ReqNum - 1 were logged, and the log
\* is not full between two lines.
LinesOK ==
    /\ way = "random" => pc \in {"random", "flush", "fpe", "done"}
    /\ pc \in {"random", "fpe"} => way = "random"
    /\ way = "trace" /\ pc \in {"read", "insert", "check", "flush", "clear"} =>
            count + 1 < ReqNum
    /\ pc \in {"next", "read", "end"} => Cardinality(logged) < LogBlocks

\* The file at work has no row yet.
RowsOK ==
    /\ file <= Len(Files)
    /\ way = "trace" /\ pc \in {"read", "insert", "check", "flush", "clear", "end"} =>
            file < Len(Files) /\ (policy = "all" => ~is_computed(Files[file + 1]))

LInv == /\ TypeOK /\ RangesOK /\ ListsOK /\ LoopsOK /\ LinesOK /\ RowsOK
        /\ VecOK /\ MapsAgree /\ ResultsOnce
-----------------------------------------------------------------------------
(* Division. *)

\* Quotient and remainder of the code's / and %.
LEMMA DivMod ==
    ASSUME NEW a \in Nat, NEW b \in Nat \ {0}
    PROVE  /\ a \div b \in Nat /\ a % b \in Nat /\ a % b < b
           /\ a = b * (a \div b) + (a % b)
OBVIOUS

\* A block is determined by its stripe and its place in it.
LEMMA BlockPlace ==
    ASSUME NEW b \in Blocks
    PROVE  /\ b \div ecK \in Stripes /\ b % ecK \in Locals
           /\ b = (b \div ecK) * ecK + (b % ecK)
<1>1. b \in Nat /\ ecK \in Nat \ {0} /\ NumStripes \in Nat /\ b < NumStripes * ecK
  BY LogAssumption DEF Blocks
<1>2. /\ b \div ecK \in Nat /\ b % ecK \in Nat /\ b % ecK < ecK
      /\ b = ecK * (b \div ecK) + (b % ecK)
  BY <1>1, DivMod
<1>3. b \div ecK < NumStripes
  <2> DEFINE q == b \div ecK
  <2>1. q \in Nat /\ ecK * q <= b
    BY <1>1, <1>2
  <2> HIDE DEF q
  <2>2. SUFFICES ASSUME q >= NumStripes PROVE FALSE
    BY <1>1, <2>1 DEF q
  <2>3. ecK * q >= ecK * NumStripes
    BY <1>1, <2>1, <2>2
  <2> QED BY <1>1, <2>1, <2>3
<1> QED BY <1>1, <1>2, <1>3 DEF Stripes, Locals

\* The place of a listed block is a block.
LEMMA PlaceBlock ==
    ASSUME NEW s \in Stripes, NEW l \in Locals
    PROVE  s * ecK + l \in Blocks
<1>1. /\ s \in Nat /\ l \in Nat /\ ecK \in Nat \ {0} /\ NumStripes \in Nat
      /\ s <= NumStripes - 1 /\ l <= ecK - 1
  BY LogAssumption DEF Stripes, Locals
<1>2. s * ecK <= (NumStripes - 1) * ecK
  BY <1>1
<1>3. (NumStripes - 1) * ecK = NumStripes * ecK - ecK
  BY <1>1
<1> QED BY <1>1, <1>2, <1>3 DEF Blocks

\* What a request logs for a block of its loop is a range inside the block.
LEMMA RequestRange ==
    ASSUME LInv, pc = "insert"
    PROVE  /\ RangeStart \in Nat /\ RangeEnd \in Nat
           /\ RangeStart <= RangeEnd /\ RangeEnd <= blocksize
           /\ blk \in Blocks /\ EndBlk(req) \in Blocks /\ StartBlk(req) \in Nat
<1> DEFINE a == KB(req.off)
           e == KB(req.off) + KB(req.size)
<1>1. /\ req \in Requests /\ StartBlk(req) <= blk /\ blk <= EndBlk(req)
      /\ blk \in Blocks /\ blocksize \in Nat \ {0}
      /\ req \in [off : Nat, size : Nat] /\ EndBlk(req) \in Blocks
  BY LogAssumption DEF LInv, LoopsOK, TypeOK
<1>2. a \in Nat /\ KB(req.size) \in Nat /\ e \in Nat /\ a <= e
  BY <1>1 DEF KB
<1>3. StartBlk(req) = a \div blocksize /\ EndBlk(req) = e \div blocksize
  BY DEF StartBlk, EndBlk
<1>4. /\ RangeStart = IF blk = a \div blocksize THEN a % blocksize ELSE 0
      /\ RangeEnd = IF blk = e \div blocksize THEN e % blocksize ELSE blocksize
  BY <1>3 DEF RangeStart, RangeEnd
<1> HIDE DEF a, e
<1>5. /\ a \div blocksize \in Nat /\ a % blocksize \in Nat /\ a % blocksize < blocksize
      /\ a = blocksize * (a \div blocksize) + (a % blocksize)
  BY <1>1, <1>2, DivMod
<1>6. /\ e \div blocksize \in Nat /\ e % blocksize \in Nat /\ e % blocksize < blocksize
      /\ e = blocksize * (e \div blocksize) + (e % blocksize)
  BY <1>1, <1>2, DivMod
<1>7. RangeStart <= RangeEnd
  <2>1. CASE blk = a \div blocksize /\ blk = e \div blocksize
    <3>1. blocksize * (a \div blocksize) = blocksize * (e \div blocksize)
      BY <2>1
    <3>2. a % blocksize <= e % blocksize
      BY <1>1, <1>2, <1>5, <1>6, <3>1
    <3> QED BY <1>4, <2>1, <3>2
  <2>2. CASE ~(blk = a \div blocksize /\ blk = e \div blocksize)
    BY <1>1, <1>4, <1>5, <1>6, <2>2
  <2> QED BY <2>1, <2>2
<1> QED BY <1>1, <1>3, <1>4, <1>5, <1>6, <1>7

\* The vector of a stripe is one StripeUpdate assumes, mirrored or not.
LEMMA VectorOK ==
    ASSUME TypeOK, RangesOK, ListsOK, NEW s \in Stripes, NEW p
    PROVE  LET v == UpdBlkVec(s, p)
           IN  /\ v \in Seq([id : Locals, off : Nat, size : Nat])
               /\ \A i \in 1 .. Len(v) : End(v[i]) <= blocksize
               /\ \A i, j \in 1 .. Len(v) : v[i].id = v[j].id => i = j
<1> DEFINE U    == [id : Locals, off : Nat, size : Nat]
           n    == Len(list[s])
           A(k) == lo[s * ecK + list[s][k]]
           B(k) == hi[s * ecK + list[s][k]]
           w    == [k \in 1 .. n |-> [id |-> list[s][k], off |-> A(k), size |-> B(k) - A(k)]]
           f    == FlipVec(w, blocksize)
<1>1. n \in Nat /\ list[s] \in Seq(Locals) /\ blocksize \in Nat
  BY LogAssumption DEF TypeOK
<1>2. ASSUME NEW k \in 1 .. n
      PROVE  /\ list[s][k] \in Locals /\ A(k) \in Nat /\ B(k) \in Nat
             /\ A(k) <= B(k) /\ B(k) <= blocksize
  <2>1. list[s][k] \in Locals
    BY <1>1
  <2>2. s * ecK + list[s][k] \in Blocks
    BY <2>1, PlaceBlock
  <2> QED BY <2>1, <2>2 DEF TypeOK, RangesOK
<1>3. UpdBlkVec(s, p) = IF p = "crd_flip" THEN f ELSE w
  BY DEF UpdBlkVec
<1>4. \A k \in 1 .. n : w[k] \in U /\ End(w[k]) <= blocksize /\ w[k].id = list[s][k]
  <2> SUFFICES ASSUME NEW k \in 1 .. n
               PROVE  w[k] \in U /\ End(w[k]) <= blocksize /\ w[k].id = list[s][k]
    OBVIOUS
  <2>1. B(k) - A(k) \in Nat /\ A(k) + (B(k) - A(k)) = B(k)
    BY <1>2
  <2>2. list[s][k] \in Locals /\ A(k) \in Nat
    BY <1>2
  <2>3. B(k) <= blocksize
    BY <1>2
  <2>4. w[k] = [id |-> list[s][k], off |-> A(k), size |-> B(k) - A(k)]
    OBVIOUS
  <2> HIDE DEF A, B, w
  <2> QED BY <2>1, <2>2, <2>3, <2>4 DEF End
<1>5. w \in Seq(U) /\ Len(w) = n /\ DOMAIN w = 1 .. n
  <2> DEFINE F(k) == [id |-> list[s][k], off |-> A(k), size |-> B(k) - A(k)]
  <2>1. \A k \in 1 .. n : F(k) \in U
    BY <1>4
  <2>2. w = [k \in 1 .. n |-> F(k)]
    OBVIOUS
  <2> HIDE DEF w, F, U
  <2> QED BY <1>1, <2>1, <2>2
<1>6. \A k \in 1 .. n : /\ FlipRange(w[k], blocksize) \in U
                        /\ End(FlipRange(w[k], blocksize)) <= blocksize
                        /\ FlipRange(w[k], blocksize).id = list[s][k]
  <2> SUFFICES ASSUME NEW k \in 1 .. n
               PROVE  /\ FlipRange(w[k], blocksize) \in U
                      /\ End(FlipRange(w[k], blocksize)) <= blocksize
                      /\ FlipRange(w[k], blocksize).id = list[s][k]
    OBVIOUS
  <2>1. PICK b \in U : b = w[k]
    BY <1>4
  <2>2. b.id = list[s][k] /\ b.off + b.size <= blocksize
    BY <1>4, <2>1 DEF End
  <2>3. /\ blocksize - (b.off + b.size) \in Nat
        /\ (blocksize - (b.off + b.size)) + b.size <= blocksize
    BY <1>1, <2>2
  <2>4. /\ FlipRange(b, blocksize) \in U
        /\ End(FlipRange(b, blocksize)) <= blocksize
        /\ FlipRange(b, blocksize).id = b.id
    <3>1. CASE b.id % 2 = 1
      BY <2>2, <2>3, <3>1 DEF FlipRange, End
    <3>2. CASE b.id % 2 # 1
      BY <2>2, <2>3, <3>2 DEF FlipRange, End
    <3> QED BY <3>1, <3>2
  <2> QED BY <2>1, <2>2, <2>4
<1>7. f = [k \in 1 .. n |-> FlipRange(w[k], blocksize)]
  BY <1>5 DEF FlipVec
<1>8. f \in Seq(U) /\ Len(f) = n /\ \A k \in 1 .. n : f[k] = FlipRange(w[k], blocksize)
  <2> DEFINE F(k) == FlipRange(w[k], blocksize)
  <2>1. \A k \in 1 .. n : F(k) \in U
    BY <1>6
  <2>2. f = [k \in 1 .. n |-> F(k)]
    BY <1>7
  <2> HIDE DEF w, F, f, U
  <2>3. f \in Seq(U) /\ Len(f) = n /\ \A k \in 1 .. n : f[k] = F(k)
    BY <1>1, <2>1, <2>2
  <2> QED BY <2>3 DEF F
<1>9. \A i, j \in 1 .. n : list[s][i] = list[s][j] => i = j
  BY DEF ListsOK
<1> HIDE DEF w, f, U
<1>10. CASE p = "crd_flip"
  <2>1. \A k \in 1 .. n : End(f[k]) <= blocksize /\ f[k].id = list[s][k]
    BY <1>6, <1>8
  <2>2. UpdBlkVec(s, p) = f
    BY <1>3, <1>10
  <2> QED BY <1>8, <1>9, <2>1, <2>2 DEF U
<1>11. CASE p # "crd_flip"
  BY <1>3, <1>4, <1>5, <1>9, <1>11 DEF U
<1> QED BY <1>10, <1>11
-----------------------------------------------------------------------------
(* Initial states and steps. *)

\* The conjuncts that speak of the log and the last vector only.
LogInv == RangesOK /\ ListsOK /\ VecOK /\ MapsAgree

\* They survive every step that leaves the log and the vector alone.
LEMMA LogFrame ==
    ASSUME LogInv, UNCHANGED <<log, vec>>
    PROVE  LogInv'
BY DEF LogInv, RangesOK, ListsOK, VecOK, MapsAgree, log

\* A cleared log satisfies them.
LEMMA LogCleared ==
    ASSUME ClearMaps, vec' = <<>> \/ (VecOK /\ vec' = vec)
    PROVE  /\ LogInv' /\ Cardinality(logged') = 0 /\ logged' \subseteq Blocks
           /\ lo' \in [Blocks -> Nat] /\ hi' \in [Blocks -> Nat]
           /\ list' \in [Stripes -> Seq(Locals)]
<1> DEFINE none == <<>>
<1>1. none \in Seq(Locals) /\ Len(none) = 0
      /\ none \in Seq([id : Locals, off : Nat, size : Nat])
  OBVIOUS
<1>2. /\ logged' = {} /\ list' = [s \in Stripes |-> none]
      /\ lo' = [b \in Blocks |-> 0] /\ hi' = [b \in Blocks |-> 0]
      /\ blocksize \in Nat
  BY LogAssumption DEF ClearMaps
<1>3. VecOK'
  <2>1. CASE vec' = none
    <3> HIDE DEF none
    <3> QED BY <1>1, <2>1 DEF VecOK
  <2>2. CASE VecOK /\ vec' = vec
    BY <2>2 DEF VecOK
  <2> QED BY <2>1, <2>2
<1> HIDE DEF none
<1>4. RangesOK'
  BY <1>2 DEF RangesOK
<1>5. ListsOK'
  BY <1>1, <1>2 DEF ListsOK
<1>6. MapsAgree'
  <2> SUFFICES ASSUME NEW b \in Blocks
               PROVE  ~ \E k \in 1 .. Len(list'[b \div ecK]) : list'[b \div ecK][k] = b % ecK
    BY <1>2 DEF MapsAgree
  <2>1. list'[b \div ecK] = none
    BY <1>2, BlockPlace
  <2> QED BY <1>1, <2>1
<1>7. Cardinality(logged') = 0
  BY <1>2, FS_EmptySet
<1> QED BY <1>1, <1>2, <1>3, <1>4, <1>5, <1>6, <1>7 DEF LogInv

\* The initial states.
LEMMA InitLInv == ASSUME Init PROVE LInv
<1> DEFINE none == <<>>
<1>1. /\ none \in Seq(Locals) /\ Len(none) = 0
      /\ none \in Seq([id : Locals, off : Nat, size : Nat])
      /\ none \in Seq([name : STRING, run : Nat])
  OBVIOUS
<1>2. /\ logged = {} /\ list = [s \in Stripes |-> none] /\ vec = none /\ results = none
      /\ lo = [b \in Blocks |-> 0] /\ hi = [b \in Blocks |-> 0]
  BY DEF Init
<1>3. /\ 0 \in Blocks /\ 0 \in Stripes /\ blocksize \in Nat /\ ecK > 0
      /\ Len(Files) \in Nat /\ LogBlocks > 0
  <2>1. /\ ecK \in Nat \ {0} /\ NumStripes \in Nat \ {0} /\ blocksize \in Nat
        /\ Files \in Seq(STRING) /\ LogBlocks \in Nat \ {0}
    BY LogAssumption
  <2>2. NumStripes * ecK >= 1
    BY <2>1
  <2> QED BY <2>1, <2>2 DEF Blocks, Stripes
<1> HIDE DEF none
<1>4. TypeOK
  <2>1. /\ way \in {"trace", "random"} /\ policy \in {"all", "raid", "delta", "crd"}
        /\ NoReq \in [off : Nat, size : Nat]
    BY LogAssumption DEF Init, NoReq
  <2>2. Len(Rounds) \in Nat
    BY DEF Rounds
  <2> QED BY <1>1, <1>2, <1>3, <2>1, <2>2 DEF Init, TypeOK
<1>5. RangesOK /\ ListsOK /\ VecOK /\ ResultsOnce
  BY <1>1, <1>2, <1>3 DEF RangesOK, ListsOK, VecOK, ResultsOnce
<1>6. MapsAgree
  <2> SUFFICES ASSUME NEW b \in Blocks
               PROVE  ~ \E k \in 1 .. Len(list[b \div ecK]) : list[b \div ecK][k] = b % ecK
    BY <1>2 DEF MapsAgree
  <2>1. list[b \div ecK] = none
    BY <1>2, BlockPlace
  <2> QED BY <1>1, <2>1
<1>7. LoopsOK /\ LinesOK /\ RowsOK
  <2>1. Cardinality(logged) = 0
    BY <1>2, FS_EmptySet
  <2>2. Len(list[0]) = 0
    BY <1>1, <1>2, <1>3
  <2> QED BY <1>2, <1>3, <2>1, <2>2, LogAssumption DEF LoopsOK, LinesOK, RowsOK, Init
<1> QED BY <1>4, <1>5, <1>6, <1>7 DEF LInv

\* What is left to show of a step that leaves the log alone.
Rest == TypeOK /\ LoopsOK /\ LinesOK /\ RowsOK /\ ResultsOnce

\* Opening or skipping a file.
LEMMA OpenTraceOK == ASSUME LInv, OpenTrace PROVE Rest'
<1>1. ReqNum > 1 /\ ReqNum \in Nat /\ Files \in Seq(STRING)
  BY LogAssumption
<1>2. TypeOK'
  BY SMTT(40) DEF LInv, TypeOK, OpenTrace, log, env, conf, Rounds
<1>3. LoopsOK' /\ LinesOK'
  BY SMTT(40), <1>1 DEF LInv, TypeOK, LoopsOK, LinesOK, OpenTrace, log, env, conf
<1>4. RowsOK' /\ ResultsOnce'
  BY SMTT(40), <1>1 DEF LInv, TypeOK, RowsOK, ResultsOnce, LinesOK, OpenTrace, log, env, conf, is_computed
<1> QED BY <1>2, <1>3, <1>4 DEF Rest

\* Reading a line: its first block is a block of the log.
LEMMA ReadLineOK == ASSUME LInv, NEW r \in Requests, ReadLine(r) PROVE Rest'
<1>1. r \in [off : Nat, size : Nat] /\ EndBlk(r) \in Blocks /\ blocksize \in Nat \ {0}
  BY LogAssumption
<1>2. StartBlk(r) <= EndBlk(r) /\ StartBlk(r) \in Nat
  <2> DEFINE a == KB(r.off)
             e == KB(r.off) + KB(r.size)
  <2>1. a \in Nat /\ e \in Nat /\ a <= e
    BY <1>1 DEF KB
  <2>2. StartBlk(r) = a \div blocksize /\ EndBlk(r) = e \div blocksize
    BY DEF StartBlk, EndBlk
  <2> HIDE DEF a, e
  <2> DEFINE qa == a \div blocksize
             qe == e \div blocksize
             ra == a % blocksize
             re == e % blocksize
  <2>3. /\ qa \in Nat /\ ra \in Nat /\ ra < blocksize /\ a = blocksize * qa + ra
        /\ qe \in Nat /\ re \in Nat /\ re < blocksize /\ e = blocksize * qe + re
    BY <1>1, <2>1, DivMod
  <2> HIDE DEF qa, qe, ra, re
  <2>4. SUFFICES ASSUME qa >= qe + 1 PROVE FALSE
    BY <2>2, <2>3 DEF qa, qe
  <2>5. blocksize * qa >= blocksize * (qe + 1)
    BY <1>1, <2>3, <2>4
  <2>6. blocksize * (qe + 1) = blocksize * qe + blocksize
    BY <1>1, <2>3
  <2> QED BY <1>1, <2>1, <2>3, <2>5, <2>6
<1>3. StartBlk(r) \in Blocks
  BY <1>1, <1>2, LogAssumption DEF Blocks
<1>4. TypeOK'
  BY <1>1, <1>3 DEF LInv, TypeOK, ReadLine, log, flush, env, conf, Rounds
<1>5. LoopsOK'
  BY <1>1, <1>2 DEF LoopsOK, ReadLine, StartBlk, EndBlk
<1>6. LinesOK' /\ RowsOK' /\ ResultsOnce'
  BY DEF LInv, LinesOK, RowsOK, ResultsOnce, ReadLine, log, env, conf, is_computed
<1> QED BY <1>4, <1>5, <1>6 DEF Rest

\* The end of a file.
LEMMA EndOfFileOK == ASSUME LInv, EndOfFile PROVE Rest'
<1>1. TypeOK'
  BY DEF LInv, TypeOK, EndOfFile, log, flush, env, conf, Rounds
<1>2. LoopsOK' /\ LinesOK' /\ RowsOK' /\ ResultsOnce'
  BY DEF LInv, LoopsOK, LinesOK, RowsOK, ResultsOnce, EndOfFile, log, env, conf, is_computed
<1> QED BY <1>1, <1>2 DEF Rest

\* The decision to flush: the log is below its limit when the next line is read.
LEMMA CheckLogOK == ASSUME LInv, CheckLog PROVE Rest'
<1>1. /\ LogBlocks \in Nat /\ ReqNum \in Nat /\ Cardinality(logged) \in Nat
  <2>1. Blocks = 0 .. (NumStripes * ecK - 1) /\ NumStripes * ecK - 1 \in Int
    BY LogAssumption DEF Blocks
  <2>2. IsFiniteSet(logged)
    <3>1. IsFiniteSet(Blocks)
      BY <2>1, FS_Interval
    <3>2. logged \subseteq Blocks
      BY DEF LInv, TypeOK
    <3> QED BY <3>1, <3>2, FS_Subset
  <2> QED BY <2>2, FS_CardinalityType, LogAssumption
<1>2. Len(Rounds) \in Nat /\ Len(Rounds) > 0
  BY DEF Rounds
<1>3. TypeOK'
  BY <1>2 DEF LInv, TypeOK, CheckLog, NextLine, Listed, log, env, conf, Rounds
<1>4. LoopsOK'
  BY DEF LInv, LoopsOK, CheckLog, NextLine
<1>5. LinesOK'
  BY <1>1 DEF LInv, TypeOK, LinesOK, CheckLog, NextLine, log, env, conf
<1>6. RowsOK' /\ ResultsOnce'
  BY DEF LInv, RowsOK, ResultsOnce, CheckLog, NextLine, env, conf, is_computed
<1> QED BY <1>3, <1>4, <1>5, <1>6 DEF Rest

\* The next policy of a flush.
LEMMA NextRoundOK == ASSUME LInv, NextRound PROVE Rest'
<1>1. Len(Rounds) \in Nat
  BY DEF Rounds
<1>2. TypeOK'
  BY <1>1 DEF LInv, TypeOK, NextRound, Listed, log, env, conf, Rounds
<1>3. LoopsOK'
  BY DEF LInv, TypeOK, LoopsOK, NextRound
<1>4. LinesOK' /\ RowsOK' /\ ResultsOnce'
  BY DEF LInv, TypeOK, LinesOK, RowsOK, ResultsOnce, NextRound, log, env, conf, is_computed
<1> QED BY <1>2, <1>3, <1>4 DEF Rest

\* The row of a file: no row of the same name exists.
LEMMA CloseTraceOK == ASSUME LInv, CloseTrace PROVE Rest'
<1> DEFINE row == [name |-> Files[file + 1], run |-> runs]
<1>1. /\ Files \in Seq(STRING) /\ way = "trace" /\ file < Len(Files) /\ file \in Nat
      /\ results \in Seq([name : STRING, run : Nat])
      /\ policy = "all" => ~is_computed(Files[file + 1])
  BY LogAssumption DEF LInv, TypeOK, LinesOK, RowsOK, CloseTrace
<1>2. row \in [name : STRING, run : Nat]
  BY <1>1 DEF LInv, TypeOK
<1>3. /\ results' \in Seq([name : STRING, run : Nat])
      /\ ResultsOnce'
  <2>1. CASE policy = "all" /\ total > 0
    <3>1. results' = Append(results, row)
      BY <2>1 DEF CloseTrace
    <3>2. /\ results' \in Seq([name : STRING, run : Nat])
          /\ Len(results') = Len(results) + 1 /\ Len(results) \in Nat
          /\ \A k \in 1 .. Len(results') :
                results'[k] = IF k <= Len(results) THEN results[k] ELSE row
      <4> HIDE DEF row
      <4> QED BY <1>1, <1>2, <3>1
    <3>3. \A k \in 1 .. Len(results) : results[k].name # row.name
      BY <1>1, <2>1 DEF is_computed
    <3> HIDE DEF row
    <3> QED BY <3>2, <3>3 DEF LInv, ResultsOnce
  <2>2. CASE ~(policy = "all" /\ total > 0)
    BY <1>1, <2>2 DEF CloseTrace, LInv, ResultsOnce
  <2> QED BY <2>1, <2>2
<1>4. TypeOK'
  BY <1>3 DEF LInv, TypeOK, CloseTrace, log, flush, env, conf, Rounds
<1>5. LoopsOK' /\ LinesOK'
  BY <1>1 DEF LInv, LoopsOK, LinesOK, CloseTrace, log, env, conf
<1>6. RowsOK'
  BY <1>1 DEF RowsOK, CloseTrace
<1> QED BY <1>3, <1>4, <1>5, <1>6 DEF Rest

\* The end of the loop over the files.
LEMMA NoMoreFilesOK == ASSUME LInv, NoMoreFiles PROVE Rest'
<1>1. TypeOK'
  BY DEF LInv, TypeOK, NoMoreFiles, log, flush, env, conf, Rounds
<1>2. LoopsOK' /\ LinesOK' /\ RowsOK' /\ ResultsOnce'
  BY DEF LInv, LoopsOK, LinesOK, RowsOK, ResultsOnce, NoMoreFiles, log, env, conf, is_computed
<1> QED BY <1>1, <1>2 DEF Rest

\* A stripe handed to the update path.
LEMMA trigger_updateOK == ASSUME LInv, trigger_update PROVE Rest' /\ LogInv'
<1>1. PICK s \in todo : vec' = UpdBlkVec(s, Rounds[round]) /\ todo' = todo \ {s}
  BY DEF trigger_update
<1>2. s \in Stripes
  BY DEF LInv, TypeOK
<1>3. VecOK'
  BY <1>1, <1>2, VectorOK DEF LInv, VecOK
<1>4. RangesOK' /\ ListsOK' /\ MapsAgree'
  BY DEF LInv, RangesOK, ListsOK, MapsAgree, trigger_update, log
<1>5. TypeOK'
  BY <1>1 DEF LInv, TypeOK, trigger_update, log, env, conf, Rounds
<1>6. LoopsOK' /\ LinesOK' /\ RowsOK' /\ ResultsOnce'
  BY DEF LInv, LoopsOK, LinesOK, RowsOK, ResultsOnce, trigger_update, log, env, conf, is_computed
<1> QED BY <1>3, <1>4, <1>5, <1>6 DEF Rest, LogInv

\* A range set for a block.
LEMMA RangeSet ==
    ASSUME TypeOK, RangesOK, NEW b \in Blocks, NEW x \in Nat, NEW y \in Nat,
           x <= y, y <= blocksize,
           lo' = [lo EXCEPT ![b] = x], hi' = [hi EXCEPT ![b] = y]
    PROVE  RangesOK' /\ lo' \in [Blocks -> Nat] /\ hi' \in [Blocks -> Nat]
BY DEF TypeOK, RangesOK

\* A block added to both maps of the log.
LEMMA BlockAdded ==
    ASSUME TypeOK, ListsOK, MapsAgree, NEW b \in Blocks, b \notin logged,
           logged' = logged \cup {b},
           list' = [list EXCEPT ![b \div ecK] = Append(list[b \div ecK], b % ecK)]
    PROVE  /\ ListsOK' /\ MapsAgree'
           /\ logged' \subseteq Blocks /\ list' \in [Stripes -> Seq(Locals)]
           /\ Len(list'[b \div ecK]) = Len(list[b \div ecK]) + 1
           /\ \A k \in 1 .. Len(list'[b \div ecK]) :
                list'[b \div ecK][k] = IF k <= Len(list[b \div ecK])
                                       THEN list[b \div ecK][k] ELSE b % ecK
<1> DEFINE s == b \div ecK
           l == b % ecK
           old == list[s]
           new == Append(old, l)
<1>1. s \in Stripes /\ l \in Locals
  BY BlockPlace
<1>2. list \in [Stripes -> Seq(Locals)] /\ old \in Seq(Locals) /\ Len(old) \in Nat
  BY <1>1 DEF TypeOK
<1>3. \A k \in 1 .. Len(old) : old[k] # l
  BY DEF MapsAgree
<1>4. list' = [list EXCEPT ![s] = new]
  OBVIOUS
<1>5. /\ new \in Seq(Locals) /\ Len(new) = Len(old) + 1
      /\ \A k \in 1 .. Len(new) : new[k] = IF k <= Len(old) THEN old[k] ELSE l
  <2> HIDE DEF s, l, old
  <2> QED BY <1>1, <1>2
<1>6. \A c \in Blocks : c \div ecK = s /\ c % ecK = l => c = b
  BY BlockPlace
<1>7. \A i, j \in 1 .. Len(old) : old[i] = old[j] => i = j
  BY <1>1 DEF ListsOK
<1> HIDE DEF new
<1>8. list'[s] = new /\ \A t \in Stripes : t # s => list'[t] = list[t]
  BY <1>1, <1>2, <1>4
<1>9. ListsOK'
  <2>1. \A i, j \in 1 .. Len(new) : new[i] = new[j] => i = j
    <3> HIDE DEF s, l, old
    <3> QED BY <1>2, <1>3, <1>5, <1>7
  <2>2. ASSUME NEW t \in Stripes
        PROVE  \A i, j \in 1 .. Len(list'[t]) : list'[t][i] = list'[t][j] => i = j
    <3>1. CASE t = s
      <4>1. list'[t] = new
        BY <1>8, <3>1
      <4> HIDE DEF s, l, old
      <4> QED BY <2>1, <4>1
    <3>2. CASE t # s
      <4>1. list'[t] = list[t]
        BY <1>8, <3>2
      <4>2. \A i, j \in 1 .. Len(list[t]) : list[t][i] = list[t][j] => i = j
        BY DEF ListsOK
      <4> QED BY <4>1, <4>2
    <3> QED BY <3>1, <3>2
  <2> QED BY <2>2 DEF ListsOK
<1>10. MapsAgree'
  <2> SUFFICES ASSUME NEW c \in Blocks
               PROVE  c \in logged' <=>
                        \E k \in 1 .. Len(list'[c \div ecK]) : list'[c \div ecK][k] = c % ecK
    BY DEF MapsAgree
  <2>1. c \in logged <=>
            \E k \in 1 .. Len(list[c \div ecK]) : list[c \div ecK][k] = c % ecK
    BY DEF MapsAgree
  <2>2. CASE c \div ecK # s
    <3>1. list'[c \div ecK] = list[c \div ecK] /\ c # b
      BY <1>8, <2>2, BlockPlace
    <3> QED BY <2>1, <3>1
  <2>3. CASE c \div ecK = s /\ c = b
    <3>1. Len(new) \in 1 .. Len(new) /\ new[Len(new)] = l
      <4> HIDE DEF s, l, old
      <4> QED BY <1>2, <1>5
    <3>2. c \in logged' /\ c % ecK = l /\ list'[c \div ecK] = new
      BY <1>8, <2>3
    <3> HIDE DEF s, l, old
    <3> QED BY <3>1, <3>2
  <2>4. CASE c \div ecK = s /\ c # b
    <3> DEFINE m == c % ecK
    <3>1. m # l /\ list'[c \div ecK] = new /\ (c \in logged' <=> c \in logged)
      BY <1>6, <1>8, <2>4
    <3>2. c \in logged <=> \E k \in 1 .. Len(old) : old[k] = m
      BY <2>1, <2>4
    <3>3. (\E k \in 1 .. Len(old) : old[k] = m) <=> (\E k \in 1 .. Len(new) : new[k] = m)
      <4> HIDE DEF s, l, old, m
      <4>1. \A k \in 1 .. Len(old) : k \in 1 .. Len(new) /\ new[k] = old[k]
        BY <1>2, <1>5
      <4>2. \A k \in 1 .. Len(new) : new[k] = m => k \in 1 .. Len(old) /\ new[k] = old[k]
        BY <1>2, <1>5, <3>1
      <4> QED BY <4>1, <4>2
    <3> HIDE DEF s, l, old
    <3> QED BY <3>1, <3>2, <3>3
  <2> QED BY <2>2, <2>3, <2>4
<1>11. logged' \subseteq Blocks /\ list' \in [Stripes -> Seq(Locals)]
  <2> HIDE DEF s, l, old
  <2> QED BY ZenonT(40), <1>1, <1>2, <1>4, <1>5 DEF TypeOK
<1> QED BY <1>5, <1>8, <1>9, <1>10, <1>11

\* One block of a request: new in both maps, or merged into its range.
LEMMA InsertBlockOK == ASSUME LInv, InsertBlock PROVE Rest' /\ LogInv'
<1> DEFINE s == blk \div ecK
           l == blk % ecK
<1>1. /\ RangeStart \in Nat /\ RangeEnd \in Nat
      /\ RangeStart <= RangeEnd /\ RangeEnd <= blocksize
      /\ blk \in Blocks /\ EndBlk(req) \in Blocks
      /\ pc = "insert"
  BY RequestRange DEF InsertBlock
<1>2. /\ TypeOK /\ RangesOK /\ ListsOK /\ MapsAgree /\ VecOK
  BY DEF LInv
<1>3. /\ RangesOK' /\ ListsOK' /\ MapsAgree'
      /\ lo' \in [Blocks -> Nat] /\ hi' \in [Blocks -> Nat]
      /\ logged' \subseteq Blocks /\ list' \in [Stripes -> Seq(Locals)]
  <2>1. CASE blk \notin logged
    <3>1. lo' = [lo EXCEPT ![blk] = RangeStart] /\ hi' = [hi EXCEPT ![blk] = RangeEnd]
      BY <2>1 DEF InsertBlock
    <3>2. ~ \E k \in 1 .. Len(list[s]) : list[s][k] = l
      BY <1>1, <1>2, <2>1 DEF MapsAgree
    <3>3. logged' = logged \cup {blk} /\ list' = [list EXCEPT ![s] = Append(list[s], l)]
      BY <2>1, <3>2 DEF InsertBlock
    <3>4. ListsOK' /\ MapsAgree' /\ logged' \subseteq Blocks /\ list' \in [Stripes -> Seq(Locals)]
      BY <1>1, <1>2, <2>1, <3>3, BlockAdded
    <3>5. RangesOK' /\ lo' \in [Blocks -> Nat] /\ hi' \in [Blocks -> Nat]
      BY <1>1, <1>2, <3>1, RangeSet
    <3> QED BY <3>4, <3>5
  <2>2. CASE blk \in logged
    <3> DEFINE x == IF RangeStart < lo[blk] THEN RangeStart ELSE lo[blk]
               y == IF RangeEnd < hi[blk] THEN RangeEnd ELSE hi[blk]
    <3>1. lo' = [lo EXCEPT ![blk] = x] /\ hi' = [hi EXCEPT ![blk] = y]
      BY <2>2 DEF InsertBlock
    <3>2. lo[blk] \in Nat /\ hi[blk] \in Nat /\ lo[blk] <= hi[blk] /\ hi[blk] <= blocksize
      BY <1>1, <1>2 DEF TypeOK, RangesOK
    <3>3. x \in Nat /\ y \in Nat /\ x <= y /\ y <= blocksize
      BY <1>1, <3>2, LogAssumption
    <3> HIDE DEF x, y
    <3>4. RangesOK' /\ lo' \in [Blocks -> Nat] /\ hi' \in [Blocks -> Nat]
      BY <1>1, <1>2, <3>1, <3>3, RangeSet
    <3>5. logged' = logged /\ list' = list
      BY <2>2 DEF InsertBlock
    <3> QED BY <1>2, <3>4, <3>5 DEF TypeOK, ListsOK, MapsAgree
  <2> QED BY <2>1, <2>2
<1>4. VecOK'
  BY <1>2 DEF VecOK, InsertBlock, flush
<1>5. blk' \in Blocks /\ LoopsOK'
  <2>1. CASE blk = EndBlk(req)
    BY <1>1, <2>1 DEF InsertBlock, LoopsOK
  <2>2. CASE blk # EndBlk(req)
    <3>1. req \in Requests /\ StartBlk(req) <= blk /\ blk <= EndBlk(req) /\ StartBlk(req) \in Nat
      BY <1>1, RequestRange DEF LInv, LoopsOK
    <3>2. blk' = blk + 1 /\ pc' = "insert" /\ req' = req
      BY <1>1, <2>2 DEF InsertBlock
    <3>3. blk + 1 \in Blocks /\ blk + 1 <= EndBlk(req)
      BY <1>1, <2>2, <3>1, LogAssumption DEF Blocks
    <3>4. StartBlk(req') = StartBlk(req) /\ EndBlk(req') = EndBlk(req)
      BY <3>2
    <3> QED BY <1>1, <3>1, <3>2, <3>3, <3>4 DEF LoopsOK, Blocks
  <2> QED BY <2>1, <2>2
<1>6. pc' \in {"insert", "check"}
  BY <1>1 DEF InsertBlock
<1>7. /\ file' = file /\ count' = count /\ req' = req /\ results' = results
      /\ UNCHANGED <<flush, env>>
  BY DEF InsertBlock
<1>8. TypeOK'
  BY <1>2, <1>3, <1>5, <1>6, <1>7 DEF TypeOK, flush, env, conf, Rounds
<1>9. LinesOK' /\ RowsOK' /\ ResultsOnce'
  BY <1>1, <1>6, <1>7 DEF LInv, LinesOK, RowsOK, ResultsOnce, env, conf, is_computed
<1> QED BY <1>3, <1>4, <1>5, <1>8, <1>9 DEF Rest, LogInv

\* The log is cleared after a flush.
LEMMA ClearLogOK == ASSUME LInv, ClearLog PROVE Rest' /\ LogInv'
<1>1. /\ LogInv' /\ Cardinality(logged') = 0 /\ logged' \subseteq Blocks
      /\ lo' \in [Blocks -> Nat] /\ hi' \in [Blocks -> Nat]
      /\ list' \in [Stripes -> Seq(Locals)]
  BY LogCleared DEF LInv, ClearLog
<1>2. Cardinality(Listed) \in Nat
  <2>1. IsFiniteSet(Stripes)
    <3>1. NumStripes - 1 \in Int /\ 0 \in Int
      BY LogAssumption
    <3> QED BY <3>1, FS_Interval DEF Stripes
  <2>2. Listed \subseteq Stripes
    BY DEF Listed
  <2> QED BY <2>1, <2>2, FS_Subset, FS_CardinalityType
<1>3. TypeOK'
  BY SMTT(40), <1>1, <1>2 DEF LInv, TypeOK, ClearLog, NextLine, env, conf, Rounds
<1>4. LoopsOK'
  BY DEF LoopsOK, ClearLog, NextLine
<1>5. LinesOK'
  <2>1. LogBlocks > 0 /\ ReqNum \in Nat
    BY LogAssumption
  <2> QED BY <1>1, <2>1 DEF LInv, TypeOK, LinesOK, ClearLog, NextLine, env, conf
<1>6. RowsOK' /\ ResultsOnce'
  BY DEF LInv, RowsOK, ResultsOnce, ClearLog, NextLine, env, conf, is_computed
<1> QED BY <1>1, <1>3, <1>4, <1>5, <1>6 DEF Rest

\* A block of the random way: each is new.
LEMMA RandomBlockOK ==
    ASSUME LInv, NEW off \in 0 .. (blocksize - 1), NEW size \in 1 .. blocksize,
           RandomBlock(off, size)
    PROVE  Rest' /\ LogInv'
<1>1. /\ pc = "random" /\ way = "random" /\ blk \in Blocks /\ blk < ecK /\ blk \in Nat
      /\ \A k \in 1 .. Len(list[0]) : list[0][k] < blk
      /\ ecK \in Nat \ {0} /\ NumStripes \in Nat \ {0} /\ blocksize \in Nat
  BY LogAssumption DEF LInv, TypeOK, LoopsOK, LinesOK, RandomBlock, Blocks
<1>2. TypeOK /\ RangesOK /\ ListsOK /\ MapsAgree /\ VecOK
  BY DEF LInv
<1>3. /\ UNCHANGED <<file, count, req, vec, total, results, env>>
  BY DEF RandomBlock
<1>4. CASE off = blocksize - 1
  <2>1. pc' = "fpe" /\ UNCHANGED <<log, blk, round, todo>>
    BY <1>4 DEF RandomBlock
  <2>2. LogInv'
    BY <1>2, <1>3, <2>1, LogFrame DEF LogInv
  <2>3. TypeOK'
    BY <1>2, <1>3, <2>1 DEF TypeOK, log, env, conf, Rounds
  <2>4. LoopsOK' /\ LinesOK' /\ RowsOK' /\ ResultsOnce'
    BY <1>1, <1>3, <2>1 DEF LInv, LoopsOK, LinesOK, RowsOK, ResultsOnce, log, env, conf
  <2> QED BY <2>2, <2>3, <2>4 DEF Rest
<1>5. CASE off # blocksize - 1
  <2>1. /\ lo' = [lo EXCEPT ![blk] = off] /\ hi' = [hi EXCEPT ![blk] = off + size]
        /\ logged' = logged \cup {blk} /\ list' = [list EXCEPT ![0] = Append(list[0], blk)]
        /\ size <= blocksize - off - 1
    BY <1>5 DEF RandomBlock
  <2>2. blk \div ecK = 0 /\ blk % ecK = blk
    BY <1>1
  <2>3. blk \notin logged
    BY SMTT(40), <1>1, <1>2, <2>2 DEF MapsAgree
  <2>4. list' = [list EXCEPT ![blk \div ecK] = Append(list[blk \div ecK], blk % ecK)]
    BY <2>1, <2>2
  <2>5. /\ ListsOK' /\ MapsAgree'
        /\ logged' \subseteq Blocks /\ list' \in [Stripes -> Seq(Locals)]
        /\ \A k \in 1 .. Len(list'[0]) :
             list'[0][k] = IF k <= Len(list[0]) THEN list[0][k] ELSE blk
        /\ Len(list'[0]) = Len(list[0]) + 1
    BY <1>1, <1>2, <2>1, <2>2, <2>3, <2>4, BlockAdded
  <2>6. RangesOK' /\ lo' \in [Blocks -> Nat] /\ hi' \in [Blocks -> Nat]
    <3>1. off \in Nat /\ off + size \in Nat /\ off <= off + size /\ off + size <= blocksize
      BY <1>1, <2>1
    <3> QED BY <1>1, <1>2, <2>1, <3>1, RangeSet
  <2>7. VecOK'
    BY <1>2, <1>3 DEF VecOK
  <2>8. \/ pc' = "flush" /\ round' = 1 /\ todo' = {0} /\ blk' = blk
        \/ /\ blk' = blk + 1 /\ blk + 1 # ecK /\ pc' = "random"
           /\ round' = round /\ todo' = todo
    BY <1>1, <1>5 DEF RandomBlock
  <2>9. Len(Rounds) \in Nat /\ Len(Rounds) > 0 /\ 0 \in Stripes
    BY <1>1 DEF Rounds, Stripes
  <2>10. blk + 1 # ecK => blk + 1 \in Blocks /\ blk + 1 < ecK
    <3>1. ecK <= NumStripes * ecK
      BY <1>1
    <3> QED BY <1>1, <3>1 DEF Blocks
  <2>11. blk' \in Blocks /\ round' \in 0 .. Len(Rounds) /\ todo' \subseteq Stripes
    BY SMTT(40), <1>1, <1>2, <2>8, <2>9, <2>10 DEF TypeOK
  <2>12. TypeOK'
    <3>1. pc' \in {"flush", "random"} /\ Rounds' = Rounds
      BY <1>3, <2>8 DEF env, conf, Rounds
    <3> QED BY <1>2, <1>3, <2>5, <2>6, <2>11, <3>1 DEF TypeOK, env, conf
  <2>13. LoopsOK'
    <3>1. CASE pc' = "flush" /\ round' = 1
      BY <3>1 DEF LoopsOK
    <3>2. CASE blk' = blk + 1 /\ blk + 1 # ecK /\ pc' = "random"
      <4>1. \A k \in 1 .. Len(list'[0]) : list'[0][k] < blk + 1
        <5>1. list[0] \in Seq(Locals) /\ Len(list[0]) \in Nat
          BY <1>2, <2>9 DEF TypeOK
        <5>2. \A k \in 1 .. Len(list[0]) : list[0][k] \in Nat
          BY <5>1, <1>1 DEF Locals
        <5>3. SUFFICES ASSUME NEW k \in 1 .. Len(list'[0])
                       PROVE  list'[0][k] < blk + 1
          OBVIOUS
        <5>4. CASE k <= Len(list[0])
          <6>1. k \in 1 .. Len(list[0]) /\ list'[0][k] = list[0][k]
            BY <2>5, <5>1, <5>4
          <6>2. list[0][k] \in Nat /\ list[0][k] < blk
            BY <1>1, <5>2, <6>1
          <6> QED BY <1>1, <6>1, <6>2
        <5>5. CASE ~(k <= Len(list[0]))
          <6>1. list'[0][k] = blk
            BY <2>5, <5>5
          <6> QED BY <1>1, <6>1
        <5> QED BY <5>4, <5>5
      <4> QED BY <2>10, <3>2, <4>1 DEF LoopsOK
    <3> QED BY <2>8, <3>1, <3>2
  <2>14. LinesOK' /\ RowsOK' /\ ResultsOnce'
    BY <1>1, <1>3, <2>8 DEF LInv, LinesOK, RowsOK, ResultsOnce, env, conf
  <2> QED BY <2>5, <2>6, <2>7, <2>12, <2>13, <2>14 DEF Rest, LogInv
<1> QED BY <1>4, <1>5

\* A new coordinator process, after a crash or for the next experiment.
LEMMA RestartOK ==
    ASSUME LInv, Restart, UNCHANGED conf, way = "trace", crashes' \in Nat, runs' \in Nat
    PROVE  Rest' /\ LogInv'
<1>1. /\ LogInv' /\ Cardinality(logged') = 0 /\ logged' \subseteq Blocks
      /\ lo' \in [Blocks -> Nat] /\ hi' \in [Blocks -> Nat]
      /\ list' \in [Stripes -> Seq(Locals)]
  BY LogCleared DEF Restart
<1>2. 0 \in Blocks /\ LogBlocks > 0 /\ Len(Files) \in Nat
  <2>1. /\ ecK \in Nat \ {0} /\ NumStripes \in Nat \ {0} /\ Files \in Seq(STRING)
        /\ LogBlocks \in Nat \ {0}
    BY LogAssumption
  <2>2. NumStripes * ecK >= 1
    BY <2>1
  <2> QED BY <2>1, <2>2 DEF Blocks
<1>3. TypeOK'
  <2>1. Rounds' = Rounds /\ Len(Rounds) \in Nat /\ NoReq \in [off : Nat, size : Nat]
    BY DEF conf, Rounds, NoReq
  <2>2. /\ way' = way /\ policy' = policy /\ results' = results
        /\ pc' = "next" /\ file' = 0 /\ count' = 0 /\ total' = 0
        /\ req' = NoReq /\ blk' = 0 /\ round' = 0 /\ todo' = {}
    BY DEF Restart, conf
  <2>3. /\ way \in {"trace", "random"} /\ policy \in {"all", "raid", "delta", "crd"}
        /\ results \in Seq([name : STRING, run : Nat])
    BY DEF LInv, TypeOK
  <2>4. 0 \in 0 .. Len(Rounds)
    BY <2>1
  <2> HIDE DEF Rounds
  <2> QED BY <1>1, <1>2, <2>1, <2>2, <2>3, <2>4 DEF TypeOK
<1>4. LoopsOK' /\ LinesOK' /\ RowsOK' /\ ResultsOnce'
  BY <1>1, <1>2 DEF LInv, LoopsOK, LinesOK, RowsOK, ResultsOnce, Restart, conf
<1> QED BY <1>1, <1>3, <1>4 DEF Rest

\* LInv is inductive.
LEMMA NextLInv == ASSUME LInv, [Next]_vars PROVE LInv'
<1> SUFFICES Rest' /\ LogInv'
  BY DEF LInv, Rest, LogInv
<1>1. LogInv
  BY DEF LInv, LogInv
<1>2. CASE OpenTrace
  <2>1. UNCHANGED <<log, vec>>
    BY <1>2 DEF OpenTrace
  <2> QED BY <1>1, <1>2, <2>1, LogFrame, OpenTraceOK
<1>3. CASE \E r \in Requests : ReadLine(r)
  <2>1. UNCHANGED <<log, vec>>
    BY <1>3 DEF ReadLine, flush
  <2> QED BY <1>1, <1>3, <2>1, LogFrame, ReadLineOK
<1>4. CASE EndOfFile
  <2>1. UNCHANGED <<log, vec>>
    BY <1>4 DEF EndOfFile, flush
  <2> QED BY <1>1, <1>4, <2>1, LogFrame, EndOfFileOK
<1>5. CASE InsertBlock
  BY <1>5, InsertBlockOK
<1>6. CASE CheckLog
  <2>1. UNCHANGED <<log, vec>>
    BY <1>6 DEF CheckLog
  <2> QED BY <1>1, <1>6, <2>1, LogFrame, CheckLogOK
<1>7. CASE trigger_update
  BY <1>7, trigger_updateOK
<1>8. CASE NextRound
  <2>1. UNCHANGED <<log, vec>>
    BY <1>8 DEF NextRound
  <2> QED BY <1>1, <1>8, <2>1, LogFrame, NextRoundOK
<1>9. CASE ClearLog
  BY <1>9, ClearLogOK
<1>10. CASE CloseTrace
  <2>1. UNCHANGED <<log, vec>>
    BY <1>10 DEF CloseTrace, flush
  <2> QED BY <1>1, <1>10, <2>1, LogFrame, CloseTraceOK
<1>11. CASE NoMoreFiles
  <2>1. UNCHANGED <<log, vec>>
    BY <1>11 DEF NoMoreFiles, flush
  <2> QED BY <1>1, <1>11, <2>1, LogFrame, NoMoreFilesOK
<1>12. CASE \E off \in 0 .. (blocksize - 1), size \in 1 .. blocksize : RandomBlock(off, size)
  BY <1>12, RandomBlockOK
<1>13. CASE Crash
  <2>1. Restart /\ UNCHANGED conf /\ way = "trace" /\ crashes' \in Nat /\ runs' \in Nat
    BY <1>13 DEF Crash, LInv, TypeOK
  <2> QED BY <2>1, RestartOK
<1>14. CASE NextExperiment
  <2>1. Restart /\ UNCHANGED conf /\ way = "trace" /\ crashes' \in Nat /\ runs' \in Nat
    BY <1>14 DEF NextExperiment, LInv, TypeOK
  <2> QED BY <2>1, RestartOK
<1>15. CASE UNCHANGED vars
  <2>1. UNCHANGED <<log, vec>>
    BY <1>15 DEF vars, flush
  <2>2. TypeOK'
    BY <1>15 DEF LInv, TypeOK, vars, log, flush, env, conf, Rounds
  <2>3. LoopsOK' /\ LinesOK' /\ RowsOK' /\ ResultsOnce'
    BY <1>15 DEF LInv, LoopsOK, LinesOK, RowsOK, ResultsOnce, vars, log, flush, env, conf,
                 is_computed, StartBlk, EndBlk, KB
  <2> QED BY <1>1, <2>1, <2>2, <2>3, LogFrame DEF Rest
<1>16. CASE Terminated
  BY <1>15, <1>16 DEF Terminated
<1> QED BY <1>2, <1>3, <1>4, <1>5, <1>6, <1>7, <1>8, <1>9, <1>10, <1>11, <1>12,
           <1>13, <1>14, <1>15, <1>16 DEF Next, Step
-----------------------------------------------------------------------------
(* Theorems. *)

\* Every reachable state satisfies the inductive invariant.
THEOREM LogInvariant == Spec => []LInv
<1>1. Init => LInv
  BY InitLInv
<1>2. LInv /\ [Next]_vars => LInv'
  BY NextLInv
<1> QED BY <1>1, <1>2, PTL DEF Spec

\* The log, the loops over files, lines, blocks and policies, and the result
\* file keep their types.
THEOREM LogTypeCorrect == Spec => []TypeOK
<1>1. LInv => TypeOK
  BY DEF LInv
<1> QED BY <1>1, LogInvariant, PTL

\* Every vector trigger_update hands to the update path lists no block twice
\* and has every range inside its block, mirrored or not.
THEOREM VectorsWellFormed == Spec => []VecOK
<1>1. LInv => VecOK
  BY DEF LInv
<1> QED BY <1>1, LogInvariant, PTL

\* glo_blk_id2start_end and stripe_id2loc_blk_id hold the same blocks, at
\* every step of every file, flush and restart.
THEOREM MapsAlwaysAgree == Spec => []MapsAgree
<1>1. LInv => MapsAgree
  BY DEF LInv
<1> QED BY <1>1, LogInvariant, PTL

\* The log is below _log_size whenever a line is read or a file opened.
THEOREM LogStaysBounded == Spec => []LogBounded
<1>1. LInv => LogBounded
  BY DEF LInv, LinesOK, LogBounded
<1> QED BY <1>1, LogInvariant, PTL

\* A trace file gets at most one row of <trace>-result.csv, whatever crashes
\* and however often the experiment is run.
THEOREM RowsUnique == Spec => []ResultsOnce
<1>1. LInv => ResultsOnce
  BY DEF LInv
<1> QED BY <1>1, LogInvariant, PTL

\* "count + 1 >= req_num" never triggers a flush.
THEOREM FlushFull == Spec => FlushOnlyWhenFull
<1>1. LInv /\ [Next]_vars =>
        [pc = "check" /\ pc' = "flush" => Cardinality(logged) >= LogBlocks]_vars
  <2> SUFFICES ASSUME LInv, [Next]_vars, pc = "check", pc' = "flush"
               PROVE  Cardinality(logged) >= LogBlocks
    OBVIOUS
  <2>1. CheckLog
    BY DEF Next, Step, OpenTrace, ReadLine, EndOfFile, InsertBlock, trigger_update, NextRound,
           ClearLog, CloseTrace, NoMoreFiles, RandomBlock, Crash, NextExperiment, Restart,
           Terminated, vars
  <2>2. count + 1 < ReqNum
    BY DEF LInv, TypeOK, LinesOK
  <2>3. ~(count + 1 >= ReqNum)
    BY <2>2, LogAssumption DEF LInv, TypeOK
  <2>4. pc' # "flush" \/ Cardinality(logged) >= LogBlocks
    BY <2>1, <2>3 DEF CheckLog, NextLine
  <2> QED BY <2>4
<1> QED BY <1>1, LogInvariant, PTL DEF Spec, FlushOnlyWhenFull
=============================================================================
