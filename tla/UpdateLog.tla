------------------------------ MODULE UpdateLog ------------------------------
(***************************************************************************)
(* How UPCoordinator turns a trace into stripe updates: the requests of a  *)
(* trace file are merged into an in-memory log, one range per global data  *)
(* block; when the log is full, every stripe in it is handed to the update *)
(* path (module StripeUpdate), once per policy, and the log is cleared.    *)
(* With policy "all" a finished file gets a row in <trace>-result.csv, and *)
(* a restarted coordinator skips the files that have one.                  *)
(*                                                                         *)
(* Requests are in half KB (512-byte sectors), everything else in KB.  The *)
(* contents of a trace file are arbitrary.  Reads and requests of less     *)
(* than a KB are skipped by the code and change nothing.                   *)
(***************************************************************************)
EXTENDS CrdSubsets, FiniteSets

CONSTANTS
    ecK,          \* data blocks of a stripe
    blocksize,    \* KB of a block
    LogBlocks,    \* _log_size, in blocks
    ReqNum,       \* req_num: requests replayed of a file
    NumStripes,   \* bound: stripes the requests reach
    Requests,     \* requests a trace may hold: [off, size] in half KB
    Files,        \* the trace files, in the order of readdir
    UPWays,       \* settings of _UPWay: "trace", "random"
    UPPolicies,   \* settings of _UPPolicy: "all" or a policy of single_doProcess
    MaxCrashes,   \* bound: crashes of the coordinator
    MaxRuns       \* bound: experiments run one after the other

KB(x)   == x \div 2
Blocks  == 0 .. (NumStripes * ecK - 1)
Stripes == 0 .. (NumStripes - 1)
Locals  == 0 .. (ecK - 1)

StartBlk(r) == KB(r.off) \div blocksize
EndBlk(r)   == (KB(r.off) + KB(r.size)) \div blocksize

ASSUME LogAssumption ==
    /\ ecK \in Nat \ {0} /\ blocksize \in Nat \ {0} /\ NumStripes \in Nat \ {0}
    /\ LogBlocks \in Nat \ {0} /\ ReqNum \in Nat /\ ReqNum > 1 /\ MaxCrashes \in Nat /\ MaxRuns \in Nat
    /\ UPWays \subseteq {"trace", "random"}
    /\ UPPolicies \subseteq {"all", "raid", "delta", "crd"}
    /\ Files \in Seq(STRING)
    /\ \A r \in Requests : /\ r \in [off : Nat, size : Nat]
                           /\ EndBlk(r) \in Blocks

VARIABLES
    way, policy,   \* _UPWay and _UPPolicy, fixed for the process
    pc,        \* "next" | "read" | "insert" | "check" | "flush" | "clear" | "end"
               \* | "random" | "fpe" | "done"
    file,      \* trace files finished or skipped
    count,     \* requests of the file that were logged
    req, blk,  \* the request at work, and the global block the loop is at
    logged,    \* keys of glo_blk_id2start_end
    lo, hi,    \* its ranges
    list,      \* stripe_id2loc_blk_id, <<>> for a stripe that is not a key
    round,     \* index of the policy the log is flushed with
    todo,      \* stripes still to be updated in this round
    vec,       \* upd_blk_vec last handed to the update path
    total,     \* total_upd_stripe_num of the file
    results,   \* rows of <trace>-result.csv: [name, run], run being a ghost
    crashes,   \* crashes so far
    runs,      \* experiments started so far
    want       \* ghost: units of each block written by the logged requests

log   == <<logged, lo, hi, list, want>>
flush == <<round, todo, vec, total>>
conf  == <<way, policy>>
env   == <<conf, crashes, runs>>
vars  == <<pc, file, count, req, blk, log, flush, results, env>>
-----------------------------------------------------------------------------
NoReq == [off |-> 0, size |-> 0]

\* The policies of one flush.  The random way of multi_doProcess leaves out
\* crd_flip.
Rounds == IF policy # "all" THEN <<policy>>
          ELSE IF way = "random" THEN <<"raid", "delta", "crd">>
          ELSE <<"raid", "delta", "crd", "crd_flip">>

\* Mutant: the end is not taken relative to the block.
RangeEnd_Global == IF blk = EndBlk(req) THEN KB(req.off) + KB(req.size) ELSE blocksize

\* [start, end) of the request in the block the loop is at.
RangeStart == IF blk = StartBlk(req) THEN KB(req.off) % blocksize ELSE 0
RangeEnd   == IF blk = EndBlk(req) THEN (KB(req.off) + KB(req.size)) % blocksize
                                   ELSE blocksize

\* The units of block b that the request writes.
Written(r, b) ==
    {u \in 0 .. (blocksize - 1) :
        b * blocksize + u \in KB(r.off) .. (KB(r.off) + KB(r.size) - 1)}

\* The vector of a stripe; odd blocks are mirrored for crd_flip.
UpdBlkVec(s, upd_policy) ==
    LET v == [k \in 1 .. Len(list[s]) |->
                [id   |-> list[s][k],
                 off  |-> lo[s * ecK + list[s][k]],
                 size |-> hi[s * ecK + list[s][k]] - lo[s * ecK + list[s][k]]]]
    IN  IF upd_policy = "crd_flip" THEN FlipVec(v, blocksize) ELSE v

Listed == {s \in Stripes : list[s] # <<>>}

\* Mutant: the result file is not looked at.
is_computed_Never(f) == FALSE

is_computed(f) == \E k \in 1 .. Len(results) : results[k].name = f

Init ==
    /\ way \in UPWays /\ policy \in UPPolicies
    /\ pc = IF way = "random" THEN "random" ELSE "next"
    /\ file = 0 /\ count = 0 /\ req = NoReq /\ blk = 0
    /\ logged = {} /\ list = [s \in Stripes |-> <<>>]
    /\ lo = [b \in Blocks |-> 0] /\ hi = [b \in Blocks |-> 0]
    /\ want = [b \in Blocks |-> {}]
    /\ round = 0 /\ todo = {} /\ vec = <<>> /\ total = 0
    /\ results = <<>> /\ crashes = 0 /\ runs = 1

\* Mutant: only the ranges are cleared.
ClearMaps_KeepList ==
    /\ logged' = {} /\ UNCHANGED list
    /\ lo' = [b \in Blocks |-> 0] /\ hi' = [b \in Blocks |-> 0]
    /\ want' = [b \in Blocks |-> {}]

\* Both maps cleared.
ClearMaps ==
    /\ logged' = {} /\ list' = [s \in Stripes |-> <<>>]
    /\ lo' = [b \in Blocks |-> 0] /\ hi' = [b \in Blocks |-> 0]
    /\ want' = [b \in Blocks |-> {}]
-----------------------------------------------------------------------------
(* The trace way. *)

\* The loop over the files.  The log is not cleared between two of them.
OpenTrace ==
    /\ pc = "next" /\ file < Len(Files)
    /\ IF policy = "all" /\ is_computed(Files[file + 1])
       THEN file' = file + 1 /\ UNCHANGED <<pc, count, total>>
       ELSE pc' = "read" /\ count' = 0 /\ total' = 0 /\ UNCHANGED file
    /\ UNCHANGED <<req, blk, log, round, todo, vec, results, env>>

\* A write request of at least one KB.
ReadLine(r) ==
    /\ pc = "read" /\ KB(r.size) # 0
    /\ req' = r /\ blk' = StartBlk(r)
    /\ pc' = "insert"
    /\ UNCHANGED <<file, count, log, flush, results, env>>

EndOfFile ==
    /\ pc = "read"
    /\ pc' = "end"
    /\ UNCHANGED <<file, count, req, blk, log, flush, results, env>>

\* One iteration of the loop over the request's blocks.  Both ends of an
\* existing range become the smaller value.
InsertBlock ==
    LET s == blk \div ecK
        l == blk % ecK
        Lower(a, b) == IF a < b THEN a ELSE b
    IN  /\ pc = "insert"
        /\ IF blk \notin logged
           THEN /\ lo' = [lo EXCEPT ![blk] = RangeStart]
                /\ hi' = [hi EXCEPT ![blk] = RangeEnd]
                /\ list' = IF \E k \in 1 .. Len(list[s]) : list[s][k] = l THEN list
                           ELSE [list EXCEPT ![s] = Append(@, l)]
           ELSE /\ lo' = [lo EXCEPT ![blk] = Lower(RangeStart, @)]
                /\ hi' = [hi EXCEPT ![blk] = Lower(RangeEnd, @)]
                /\ UNCHANGED list
        /\ logged' = logged \cup {blk}
        /\ want' = [want EXCEPT ![blk] = @ \cup Written(req, blk)]
        /\ IF blk = EndBlk(req) THEN pc' = "check" /\ UNCHANGED blk
                                ELSE blk' = blk + 1 /\ UNCHANGED pc
        /\ UNCHANGED <<file, count, req, flush, results, env>>

\* The end of the loop over the lines.
NextLine ==
    /\ count' = count + 1
    /\ pc' = IF count + 2 >= ReqNum THEN "end" ELSE "read"

\* Mutant: the log may hold LogBlocks blocks.
CheckLog_Over ==
    /\ pc = "check"
    /\ IF Cardinality(logged) > LogBlocks \/ count + 1 >= ReqNum
       THEN pc' = "flush" /\ round' = 1 /\ todo' = Listed /\ UNCHANGED count
       ELSE NextLine /\ UNCHANGED <<round, todo>>
    /\ UNCHANGED <<file, req, blk, log, vec, total, results, env>>

CheckLog ==
    /\ pc = "check"
    /\ IF Cardinality(logged) >= LogBlocks \/ count + 1 >= ReqNum
       THEN pc' = "flush" /\ round' = 1 /\ todo' = Listed /\ UNCHANGED count
       ELSE NextLine /\ UNCHANGED <<round, todo>>
    /\ UNCHANGED <<file, req, blk, log, vec, total, results, env>>

\* One iteration of trigger_update, or of trigger_update_by_multi_doProcess:
\* the next stripe of the map in the order of its key.  It returns when all
\* parities have acknowledged the stripe (module StripeUpdate).
trigger_update ==
    /\ pc = "flush"
    /\ \E s \in todo :
        /\ \A y \in todo : s <= y
        /\ vec' = UpdBlkVec(s, Rounds[round])
        /\ todo' = todo \ {s}
    /\ UNCHANGED <<pc, file, count, req, blk, log, round, total, results, env>>

\* Mutant: after the last policy the first one is run again.
NextRound_Wrap ==
    /\ pc = "flush" /\ todo = {}
    /\ round' = (round % Len(Rounds)) + 1 /\ todo' = Listed
    /\ UNCHANGED <<pc, file, count, req, blk, log, vec, total, results, env>>

\* The next policy, or the end of the flush.
NextRound ==
    /\ pc = "flush" /\ todo = {}
    /\ IF round < Len(Rounds)
       THEN round' = round + 1 /\ todo' = Listed /\ UNCHANGED pc
       ELSE /\ pc' = IF way = "random" THEN "done" ELSE "clear"
            /\ UNCHANGED <<round, todo>>
    /\ UNCHANGED <<file, count, req, blk, log, vec, total, results, env>>

ClearLog ==
    /\ pc = "clear"
    /\ total' = total + Cardinality(Listed)
    /\ ClearMaps
    /\ NextLine
    /\ UNCHANGED <<file, req, blk, round, todo, vec, results, env>>

\* The row of the file, if any stripe of it was updated (the running times
\* are 0 otherwise); single_doProcess replays one file and writes no row.
CloseTrace ==
    /\ pc = "end"
    /\ results' = IF policy = "all" /\ total > 0
                  THEN Append(results, [name |-> Files[file + 1], run |-> runs]) ELSE results
    /\ file' = file + 1
    /\ pc' = IF policy = "all" THEN "next" ELSE "done"
    /\ UNCHANGED <<count, req, blk, log, flush, env>>

NoMoreFiles ==
    /\ pc = "next" /\ file = Len(Files)
    /\ pc' = "done"
    /\ UNCHANGED <<file, count, req, blk, log, flush, results, env>>
-----------------------------------------------------------------------------
(* The random way: one stripe, a random range in each of its blocks. *)

RandomBlock(off, size) ==
    /\ pc = "random"
    /\ IF off = blocksize - 1
       THEN pc' = "fpe" /\ UNCHANGED <<log, blk, round, todo>>   \* rand() % 0
       ELSE /\ size <= blocksize - off - 1
            /\ lo' = [lo EXCEPT ![blk] = off]
            /\ hi' = [hi EXCEPT ![blk] = off + size]
            /\ logged' = logged \cup {blk}
            /\ list' = [list EXCEPT ![0] = Append(@, blk)]
            /\ want' = [want EXCEPT ![blk] = off .. (off + size - 1)]
            /\ IF blk + 1 = ecK
               THEN pc' = "flush" /\ round' = 1 /\ todo' = {0} /\ UNCHANGED blk
               ELSE blk' = blk + 1 /\ UNCHANGED <<pc, round, todo>>
    /\ UNCHANGED <<file, count, req, vec, total, results, env>>
-----------------------------------------------------------------------------
\* A new coordinator process: of the old one only the result file remains.
Restart ==
    /\ pc' = "next" /\ file' = 0 /\ count' = 0 /\ req' = NoReq /\ blk' = 0
    /\ ClearMaps
    /\ round' = 0 /\ todo' = {} /\ vec' = <<>> /\ total' = 0
    /\ UNCHANGED results

\* The coordinator dies and is started again.
Crash ==
    /\ crashes < MaxCrashes /\ way = "trace" /\ pc # "done"
    /\ crashes' = crashes + 1
    /\ Restart
    /\ UNCHANGED <<conf, runs>>

\* The next experiment: a setting is changed and the cluster is started again.
NextExperiment ==
    /\ runs < MaxRuns /\ way = "trace" /\ pc = "done"
    /\ runs' = runs + 1
    /\ Restart
    /\ UNCHANGED <<conf, crashes>>

Step ==
    \/ OpenTrace
    \/ \E r \in Requests : ReadLine(r)
    \/ EndOfFile
    \/ InsertBlock
    \/ CheckLog
    \/ trigger_update
    \/ NextRound
    \/ ClearLog
    \/ CloseTrace
    \/ NoMoreFiles
    \/ \E off \in 0 .. (blocksize - 1), size \in 1 .. blocksize : RandomBlock(off, size)

\* The process has returned, or was killed by SIGFPE.
Terminated == pc \in {"done", "fpe"} /\ UNCHANGED vars

Next == Step \/ Crash \/ NextExperiment \/ Terminated

Spec == Init /\ [][Next]_vars

\* The replay is a single thread that blocks only in recvAck.
FairSpec == Spec /\ WF_vars(Step)
-----------------------------------------------------------------------------
(* Properties. *)

\* Type correctness: the ranges, lists and vectors are well formed.
TypeOK ==
    /\ way \in {"trace", "random"} /\ policy \in {"all", "raid", "delta", "crd"}
    /\ pc \in {"next", "read", "insert", "check", "flush", "clear", "end",
               "random", "fpe", "done"}
    /\ file \in Nat /\ count \in Nat /\ total \in Nat /\ crashes \in Nat /\ runs \in Nat
    /\ req \in [off : Nat, size : Nat] /\ blk \in Blocks
    /\ logged \subseteq Blocks
    /\ lo \in [Blocks -> Nat] /\ hi \in [Blocks -> Nat]
    /\ list \in [Stripes -> Seq(Locals)]
    /\ results \in Seq([name : STRING, run : Nat])
    /\ round \in 0 .. Len(Rounds) /\ todo \subseteq Stripes

\* Every vector the log hands to the update path is one StripeUpdate assumes:
\* no block twice, every range inside its block, whatever was merged into it
\* and in which order.
VecOK ==
    /\ vec \in Seq([id : Locals, off : Nat, size : Nat])
    /\ \A i \in 1 .. Len(vec) : End(vec[i]) <= blocksize
    /\ \A i, j \in 1 .. Len(vec) : vec[i].id = vec[j].id => i = j

\* The two maps of the log hold the same blocks, so trigger_update reads the
\* range of every block it lists and misses none; also after a flush, across
\* files, and in the middle of one.
MapsAgree ==
    \A b \in Blocks :
        b \in logged <=> \E k \in 1 .. Len(list[b \div ecK]) : list[b \div ecK][k] = b % ecK

\* The log is below its limit whenever a line is read, and when a file is
\* opened although the log is not cleared at the end of the previous one.
LogBounded ==
    pc \in {"next", "read"} => Cardinality(logged) < LogBlocks

\* "count + 1 >= req_num" never triggers a flush: the loop has ended by then.
\* What is left in the log is carried to the next file, or dropped.
FlushOnlyWhenFull ==
    [][pc = "check" /\ pc' = "flush" => Cardinality(logged) >= LogBlocks]_vars

\* A file gets at most one row, also when the coordinator crashes and starts
\* again at the first file.
ResultsOnce ==
    \A k, m \in 1 .. Len(results) : results[k].name = results[m].name => k = m

\* Every experiment ends, also when the coordinator crashes in it.
ReplayEnds == []<>(pc \in {"done", "fpe"})

\* The comments and the README also promise the following, which the code does
\* not keep (see the README of this project).

\* "upd_size = ...;   //[1, blocksize]" (UPCoordinator.cc:1174, 1464).
SizesPositive == \A i \in 1 .. Len(vec) : vec[i].size >= 1

\* "merge multi-address-part within a data block" (UPCoordinator.cc:364): the
\* range of a block covers what the requests wrote.
MergeCovers ==
    pc = "flush" => \A b \in logged : want[b] \subseteq lo[b] .. (hi[b] - 1)

\* "(rand() % (blocksize - offset - 1)) + 1;   //[1, blocksize - offset_add)"
\* (UPCoordinator.cc:1239, 1602): a size is defined for every offset.
RandomDefined == pc # "fpe"

\* "restart the cluster after each change and record Ali-result.csv"
\* (README.md:117): when an experiment has ended the rows are its own.
RowsAreFresh ==
    pc = "done" => \A k \in 1 .. Len(results) : results[k].run = runs
=============================================================================
