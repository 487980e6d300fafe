----------------------------- MODULE KfsClient ------------------------------
(***************************************************************************)
(* The file system client of the patched QFS (qfs-integrate/src/           *)
(* KfsClient.cc): the calls on the namespace, the attribute cache they     *)
(* read and invalidate, and the table of open files.                       *)
(*                                                                         *)
(* A call holds mMutex, so the calls of one client do not overlap; but     *)
(* between its requests to the metaserver other clients change the         *)
(* namespace.  A step is one request with the work up to the next one.     *)
(* Only the end of Close runs without the mutex: what was written reaches  *)
(* the file while other calls run (Flush).                                 *)
(*                                                                         *)
(* The metaserver (srv) is external: tree maps a key, the id of the        *)
(* directory and the name, to the file; dirs are the directories; ver      *)
(* counts the changes of mode, owner, size and times of a file.  A request *)
(* may be refused, and it may be carried out although its reply is lost.   *)
(* Paths are absolute and normalised, at most two names long.              *)
(***************************************************************************)
EXTENDS KfsAttrCache

CONSTANTS
  Calls,          \* the calls made: [op, p, p2]
  OtherCalls,     \* the calls other clients make
  FdCalls,        \* the calls on open files
  MAX_FILES,      \* one more than the files that can be open: slot 0 is not used
  kMaxReaddirEntries, kMaxReadDirRetries,
  MaxCalls,       \* calls of this client
  MaxDisturbed    \* requests that fail and calls of other clients, together

VARIABLES
  srv,        \* the namespace at the metaserver
  cache,      \* the attribute cache
  call,       \* the call under way
  fds,        \* mFileTable: slot -> open file, or None
  freed,      \* mFreeFileTableEntires
  closing,    \* files closed whose data is not written yet
  last,       \* the call that returned last and its result
  ghost,      \* [others, moved: what other clients did; unseen: see below]
  count       \* [calls, disturbed]: against the bounds

vars == <<srv, cache, call, fds, freed, closing, last, ghost, count>>

ROOTFID == 1
RootKey == <<ROOTFID, "/">>
NoResult == [op |-> "none", p |-> <<>>, ok |-> FALSE, fd |-> 0]
Idle == [op |-> "none", p |-> <<>>, p2 |-> <<>>, pc |-> "idle", par |-> 0,
         par2 |-> 0, h |-> None, fid |-> 0, fd |-> 0, i |-> 0, stk |-> <<>>,
         got |-> <<>>, retry |-> 0, err |-> FALSE]

-----------------------------------------------------------------------------
(***************************************************************************)
(* The metaserver.                                                         *)
(***************************************************************************)
Name(p) == IF p = <<>> THEN "/" ELSE Last(p)
Key(par, p) == <<par, Name(p)>>
Children(S, f) == {k \in DOMAIN S.tree \ {RootKey} : k[1] = f}
Below(S, f) == Children(S, f) \union
               UNION {Children(S, S.tree[k]) : k \in Children(S, f)}
Live(S, f) == \E k \in DOMAIN S.tree : S.tree[k] = f
\* The key a path leads to, or None.
Resolve(S, p) ==
  IF Len(p) <= 1 THEN (IF Key(ROOTFID, p) \in DOMAIN S.tree THEN Key(ROOTFID, p) ELSE None)
  ELSE LET d == Key(ROOTFID, <<p[1]>>)
       IN  IF d \in DOMAIN S.tree /\ Key(S.tree[d], p) \in DOMAIN S.tree
           THEN Key(S.tree[d], p) ELSE None
Attr(S, f) ==
  [fid |-> f, dir |-> f \in S.dirs, ver |-> S.ver[f], cnt |-> Cardinality(Below(S, f))]

AddFile(S, k, dir) ==
  [tree |-> With(S.tree, k, S.next), ver |-> Append(S.ver, 0), next |-> S.next + 1,
   dirs |-> IF dir THEN S.dirs \union {S.next} ELSE S.dirs]
Bump(S, fs) == [S EXCEPT !.ver = [f \in DOMAIN @ |-> IF f \in fs THEN @[f] + 1 ELSE @[f]]]

IsLiveDir(S, f) == f \in S.dirs /\ Live(S, f)
\* Requests: the namespace after one, or None when it fails.
MkdirOp(S, k) ==
  IF IsLiveDir(S, k[1]) /\ k \notin DOMAIN S.tree THEN AddFile(S, k, TRUE) ELSE None
CreateOp(S, k) ==
  IF IsLiveDir(S, k[1]) /\ (k \in DOMAIN S.tree => S.tree[k] \notin S.dirs)
  THEN AddFile(S, k, FALSE) ELSE None
RemoveOp(S, k) ==
  IF k \in DOMAIN S.tree /\ S.tree[k] \notin S.dirs
  THEN [S EXCEPT !.tree = Without(@, k)] ELSE None
RmdirOp(S, k) ==
  IF k # RootKey /\ k \in DOMAIN S.tree /\ S.tree[k] \in S.dirs /\ Children(S, S.tree[k]) = {}
  THEN [S EXCEPT !.tree = Without(@, k)] ELSE None
\* The target is given by its path: the metaserver finds its directory.
RenameOp(S, k, p) ==
  LET par == IF Len(p) = 1 THEN ROOTFID
             ELSE IF Resolve(S, Front(p)) = None THEN 0 ELSE S.tree[Resolve(S, Front(p))]
      to  == Key(par, p)
      f   == S.tree[k]
  IN  IF /\ k \in DOMAIN S.tree
         /\ IsLiveDir(S, par)
         /\ f # par
         /\ to \in DOMAIN S.tree => /\ (S.tree[to] \in S.dirs) = (f \in S.dirs)
                                    /\ Children(S, S.tree[to]) = {}
      THEN [S EXCEPT !.tree = With(Without(@, k), to, f)] ELSE None
ChangeOp(S, f) == IF Live(S, f) THEN Bump(S, {f}) ELSE None
ChangePathOp(S, ps) ==
  IF \A p \in ps : Resolve(S, p) # None
  THEN Bump(S, {S.tree[Resolve(S, p)] : p \in ps}) ELSE None

\* How a request ends: its effect and the status the client sees.
Fates == {"done"} \union (IF count.disturbed < MaxDisturbed THEN {"refused", "lost"} ELSE {})
After(S, T, fate) == IF T = None \/ fate = "refused" THEN S ELSE T
Succeeds(T, fate) == T # None /\ fate = "done"

-----------------------------------------------------------------------------
(***************************************************************************)
(* Lookups.  C is the cache; the result is the cache after it and what was *)
(* found.                                                                  *)
(***************************************************************************)
LookupSelf(C, k, p, scan) ==
  IF k \notin DOMAIN srv.tree THEN [cache |-> Delete(C, k), ok |-> FALSE]
  ELSE [cache |-> UpdateFattr(C, k, LookupFAttr(C, k), p, Attr(srv, srv.tree[k]), scan),
        ok    |-> TRUE]

Lookup(C, k, p, scan) ==
  IF k \in DOMAIN C.ent /\ IsValid(C.ent[k])
  THEN [cache |-> UpdatePath(C, k, p), ok |-> TRUE]
  ELSE LookupSelf(C, k, p, scan)

\* Below directory d, which was looked up with result L.
PathBelow(L, d, p, inval) ==
  IF ~ L.ok \/ ~ L.cache.ent[d].dir THEN [cache |-> L.cache, key |-> d, ok |-> FALSE]
  ELSE [cache |-> IF inval THEN SetStale(L.cache, d) ELSE L.cache,
        key   |-> Key(L.cache.ent[d].fid, p), ok |-> TRUE]

\* Mutant: the directories of a path that changes keep their counts.
GetPathComponents_KeepsCounts(C, p, inval, scan) ==
  IF Len(p) <= 1 THEN [cache |-> C, key |-> Key(ROOTFID, p), ok |-> TRUE]
  ELSE PathBelow(Lookup(C, Key(ROOTFID, <<p[1]>>), <<p[1]>>, scan),
                 Key(ROOTFID, <<p[1]>>), p, FALSE)

\* The key of a path; inval: the counts of the directories on it will change.
GetPathComponents(C, p, inval, scan) ==
  IF Len(p) <= 1
  THEN [cache |-> IF inval THEN SetStale(C, RootKey) ELSE C, key |-> Key(ROOTFID, p), ok |-> TRUE]
  ELSE PathBelow(Lookup(IF inval THEN SetStale(C, RootKey) ELSE C,
                        Key(ROOTFID, <<p[1]>>), <<p[1]>>, scan),
                 Key(ROOTFID, <<p[1]>>), p, inval)

Usable(C, h, counts) ==
  h # None /\ IsValid(C.ent[h]) /\ (counts => ~ C.ent[h].stale)

\* Key k is asked for; g is the entry its attributes go to, h the one found by
\* the path.
AskFor(C, k, h, g, p, scan) ==
  IF k \notin DOMAIN srv.tree
  THEN [cache |-> IF h = None THEN C ELSE Delete(C, h), h |-> None]
  ELSE [cache |-> UpdateFattr(C, k, g, p, Attr(srv, srv.tree[k]), scan),
        h     |-> IF g = None THEN k ELSE g]
OneOf(h, g) == IF h = None THEN g ELSE h

\* The attributes of key k, reached by p.  held is the entry StatSelf found
\* by the path, or None; h is the entry that has them now, None when k is gone.
LookupAttr(C, k, held, p, counts, scan) ==
  IF held = None /\ Usable(C, LookupPath(C, p), counts)
  THEN [cache |-> C, h |-> LookupPath(C, p)]
  ELSE AskFor(C, k, OneOf(held, LookupPath(C, p)),
              OneOf(OneOf(held, LookupPath(C, p)), LookupFAttr(C, k)), p, scan)

(***************************************************************************)
(* InvalidateAttributeAndCounts: the entry of the path is deleted, and the *)
(* counts of the directories above it are out of date.  Where mPathCache   *)
(* does not have a path its key is looked up.                              *)
(***************************************************************************)
DeleteFound(G) == IF G.ok THEN Delete(G.cache, G.key) ELSE G.cache
StaleAbove(C, p) ==
  IF Len(p) < 2 THEN C
  ELSE SetStale(C, IF <<p[1]>> \in DOMAIN C.pth THEN C.pth[<<p[1]>>] ELSE Key(ROOTFID, <<p[1]>>))
InvalidateAttribute(C, p, scan) ==
  SetStale(StaleAbove(IF p \in DOMAIN C.pth THEN Delete(C, C.pth[p])
                      ELSE DeleteFound(GetPathComponents(C, p, FALSE, scan)), p), RootKey)

-----------------------------------------------------------------------------
(***************************************************************************)
(* The file table.                                                         *)
(***************************************************************************)
\* The slot a new file gets: one released before, a new one, or 0.
FindFreeFileTableEntry ==
  IF freed # <<>> THEN Last(freed)
  ELSE IF Len(fds) + 1 < MAX_FILES THEN Len(fds) + 1 ELSE 0

AllocFileTableEntry(f) ==
  LET n == FindFreeFileTableEntry
  IN  IF freed # <<>> THEN fds' = [fds EXCEPT ![n] = f] /\ freed' = Front(freed)
      ELSE fds' = Append(fds, f) /\ freed' = freed

ReleaseFileTableEntry(n) ==
  fds' = [fds EXCEPT ![n] = None] /\ freed' = Append(freed, n)

NoFds == UNCHANGED <<fds, freed, closing>>

-----------------------------------------------------------------------------
(***************************************************************************)
(* A call: where it starts, how it returns, and the request that changes   *)
(* the namespace.                                                          *)
(***************************************************************************)
\* Calls that start with StatSelf; "Stat" needs valid counts.
StatOps == {"Stat", "ReaddirPlus", "Chmod", "Chown", "Truncate",
            "SetReplicationFactor", "ChmodR", "ChownR", "SetReplicationFactorR"}
\* Calls that start with GetPathComponents, and those that invalidate counts.
PathOps == {"Mkdir", "Rmdir", "Remove", "Create", "Rename", "CoalesceBlocks",
            "SetMtime", "Open", "OpenWrite", "OpenCreate", "OpenTruncate",
            "OpenDirectory", "Rmdirs"}
CountOps == {"Mkdir", "Rmdir", "Remove", "Create", "Rename", "CoalesceBlocks"}
TwoPathOps == {"Rename", "CoalesceBlocks"}
OpenOps == {"Open", "OpenWrite", "OpenCreate", "OpenTruncate", "OpenDirectory"}

Return(ok, n) ==
  /\ call' = Idle
  /\ last' = [op |-> call.op, p |-> call.p, ok |-> ok, fd |-> n]
Goto(pc) == call' = [call EXCEPT !.pc = pc] /\ last' = last
Frame(k, f, dir) == [key |-> k, fid |-> f, dir |-> dir, listed |-> ~ dir, todo |-> <<>>]

Request(T, fate) ==
  /\ srv' = After(srv, T, fate)
  /\ count' = IF fate = "done" THEN count ELSE [count EXCEPT !.disturbed = @ + 1]
NoRequest == UNCHANGED <<srv, count>>

\* unseen: files whose attributes, or directories whose counts, the client
\* changed without touching what it has cached of them.
Unseen(fs) == ghost' = [ghost EXCEPT !.unseen = @ \union fs]

\* What a call does with the attributes StatSelf found in entry h.
Statted(c, h, C) ==
  LET e == C.ent[h]
  IN  CASE c.op = "Stat" -> call' = Idle /\ last' = [NoResult EXCEPT !.op = "Stat"]
        [] c.op = "ReaddirPlus" /\ e.dir ->
             /\ call' = [c EXCEPT !.pc = "list", !.fid = e.fid, !.retry = kMaxReadDirRetries]
             /\ last' = NoResult
        [] c.op \in {"ChmodR", "ChownR", "SetReplicationFactorR"} ->
             /\ call' = [c EXCEPT !.pc = "rec", !.stk = <<Frame(h, e.fid, e.dir)>>]
             /\ last' = NoResult
        [] \/ c.op \in {"Chmod", "Chown"}
           \/ c.op \in {"Truncate", "SetReplicationFactor"} /\ ~ e.dir ->
             /\ call' = [c EXCEPT !.pc = "apply", !.fid = e.fid, !.h = h]
             /\ last' = NoResult
        [] OTHER -> call' = Idle /\ last' = NoResult

Begin(c) ==
  /\ call = Idle
  /\ count.calls < MaxCalls
  /\ count' = [count EXCEPT !.calls = @ + 1]
  /\ LET h == LookupPath(cache, c.p)
         b == [Idle EXCEPT !.op = c.op, !.p = c.p, !.p2 = c.p2, !.pc = "walk"]
     IN  CASE c.op \in StatOps /\ Usable(cache, h, c.op = "Stat") -> Statted(b, h, cache)
           [] c.op \in StatOps /\ ~ Usable(cache, h, c.op = "Stat") ->
                call' = [b EXCEPT !.h = h] /\ last' = NoResult
           [] c.op = "Mkdirs" ->
                call' = [b EXCEPT !.pc = "mkdirs", !.i = 1, !.par = ROOTFID] /\ last' = NoResult
           [] OTHER -> call' = b /\ last' = NoResult
  /\ UNCHANGED <<srv, cache, ghost>> /\ NoFds

(***************************************************************************)
(* GetPathComponents.  StatSelf keeps the entry it found by the path; it   *)
(* is told when the walk deletes it (mDeleteClearFattr).                   *)
(***************************************************************************)
Walk(scan) ==
  /\ call.pc = "walk"
  /\ \E G \in {GetPathComponents(cache, call.p, call.op \in CountOps, scan)} :
     \E C \in {IF call.op = "Create" THEN Delete(G.cache, G.key) ELSE G.cache} :
         /\ cache' = C
         /\ IF ~ G.ok THEN Return(FALSE, 0)
            ELSE /\ call' = [call EXCEPT
                      !.par = G.key[1],
                      !.h   = IF @ \in DOMAIN C.ent THEN @ ELSE None,
                      !.pc  = CASE call.op \in StatOps \union {"Rmdirs"} -> "look"
                                [] call.op \in TwoPathOps -> "walk2"
                                [] call.op \in OpenOps -> "open"
                                [] OTHER -> "apply"]
                 /\ last' = last
  /\ NoRequest /\ NoFds /\ UNCHANGED ghost

\* The second path of Rename and CoalesceBlocks.
Walk2(scan) ==
  /\ call.pc = "walk2"
  /\ \E G \in {GetPathComponents(cache, call.p2, TRUE, scan)} :
         /\ cache' = G.cache
         /\ IF ~ G.ok THEN Return(FALSE, 0)
            ELSE IF G.key = Key(call.par, call.p) THEN Return(FALSE, 0)
            ELSE call' = [call EXCEPT !.par2 = G.key[1], !.pc = "apply"] /\ last' = last
  /\ NoRequest /\ NoFds /\ UNCHANGED ghost

\* LookupAttr, at the end of StatSelf and in RmdirsFast.
Look(scan) ==
  /\ call.pc = "look"
  /\ \E L \in {LookupAttr(cache, Key(call.par, call.p), call.h, call.p, call.op = "Stat", scan)} :
         /\ cache' = L.cache
         /\ IF L.h = None THEN Return(FALSE, 0)
            ELSE IF call.op # "Rmdirs" THEN Statted(call, L.h, L.cache)
            ELSE IF ~ L.cache.ent[L.h].dir THEN Return(FALSE, 0)
            ELSE /\ call' = [call EXCEPT !.pc = "rec",
                              !.stk = <<Frame(Key(call.par, call.p), L.cache.ent[L.h].fid, TRUE)>>]
                 /\ last' = last
  /\ NoRequest /\ NoFds /\ UNCHANGED ghost

-----------------------------------------------------------------------------
(***************************************************************************)
(* The request at the end of each call and what it does with the cache.    *)
(***************************************************************************)
Applying(op) == call.pc = "apply" /\ call.op = op
ThisKey == Key(call.par, call.p)

Mkdir(fate) ==
  /\ Applying("Mkdir")
  /\ LET T == MkdirOp(srv, ThisKey)
     IN  Request(T, fate) /\ Return(Succeeds(T, fate), 0)
  /\ UNCHANGED <<cache, ghost>> /\ NoFds

Rmdir(fate) ==
  /\ Applying("Rmdir")
  /\ LET T == RmdirOp(srv, ThisKey)
     IN  Request(T, fate) /\ Return(Succeeds(T, fate), 0)
  /\ cache' = Delete(cache, ThisKey)
  /\ UNCHANGED ghost /\ NoFds

RemoveFile(fate) ==
  /\ Applying("Remove")
  /\ LET T == RemoveOp(srv, ThisKey)
     IN  Request(T, fate) /\ Return(Succeeds(T, fate), 0)
  /\ cache' = Delete(cache, ThisKey)
  /\ UNCHANGED ghost /\ NoFds

\* The entry was deleted before the request.  The file stays when no slot is
\* free for it.
Create(fate) ==
  /\ Applying("Create")
  /\ LET T == CreateOp(srv, ThisKey)
         n == FindFreeFileTableEntry
     IN  /\ Request(T, fate)
         /\ IF Succeeds(T, fate) /\ n # 0
            THEN /\ AllocFileTableEntry([key |-> ThisKey, path |-> call.p, fid |-> srv.next,
                                         dir |-> FALSE, write |-> TRUE, used |-> FALSE,
                                         pending |-> FALSE])
                 /\ Return(TRUE, n)
            ELSE Return(FALSE, 0) /\ UNCHANGED <<fds, freed>>
  /\ UNCHANGED <<cache, ghost, closing>>

Rename(fate) ==
  /\ Applying("Rename")
  /\ LET T == RenameOp(srv, ThisKey, call.p2)
     IN  Request(T, fate) /\ Return(Succeeds(T, fate), 0)
  /\ \E I \in {InvalidateCachedAttrsWithPathPrefix(cache, call.p, TRUE, None)} :
     \E J \in {IF I.all THEN I
               ELSE InvalidateCachedAttrsWithPathPrefix(I.cache, call.p2, TRUE, None)} :
       cache' = IF J.all THEN J.cache
                ELSE Delete(Delete(J.cache, ThisKey), Key(call.par2, call.p2))
  /\ UNCHANGED ghost /\ NoFds

CoalesceBlocks(fate) ==
  /\ Applying("CoalesceBlocks")
  /\ LET T == ChangePathOp(srv, {call.p, call.p2})
     IN  Request(T, fate) /\ Return(Succeeds(T, fate), 0)
  /\ cache' = Delete(Delete(cache, ThisKey), Key(call.par2, call.p2))
  /\ UNCHANGED ghost /\ NoFds

SetMtime(fate) ==
  /\ Applying("SetMtime")
  /\ LET T == ChangePathOp(srv, {call.p})
     IN  Request(T, fate) /\ Return(Succeeds(T, fate), 0)
  /\ cache' = Delete(cache, ThisKey)
  /\ UNCHANGED ghost /\ NoFds

\* The entry is not deleted when the request is reported to have failed.
Truncate(fate, scan) ==
  /\ Applying("Truncate")
  /\ LET T == ChangeOp(srv, call.fid)
     IN  /\ Request(T, fate) /\ Return(Succeeds(T, fate), 0)
         /\ cache' = IF Succeeds(T, fate) THEN InvalidateAttribute(cache, call.p, scan) ELSE cache
         /\ Unseen(IF fate = "lost" THEN {call.fid} ELSE {})
  /\ NoFds

SetReplicationFactor(fate, scan) ==
  /\ Applying("SetReplicationFactor")
  /\ LET T == ChangeOp(srv, call.fid)
     IN  Request(T, fate) /\ Return(Succeeds(T, fate), 0)
  /\ cache' = InvalidateAttribute(cache, call.p, scan)
  /\ UNCHANGED ghost /\ NoFds

\* The mode of a file is changed, but not in the entry that has it.
Chmod(fate) ==
  /\ Applying("Chmod")
  /\ LET T   == ChangeOp(srv, call.fid)
         all == Succeeds(T, fate) /\ cache.ent[call.h].dir
     IN  /\ Request(T, fate) /\ Return(Succeeds(T, fate), 0)
         /\ cache' = IF all THEN InvalidateAllCachedAttrs(cache) ELSE cache
         /\ Unseen(IF all THEN {} ELSE {call.fid})
  /\ NoFds

\* The owner in the entry is the one the reply has.
Chown(fate) ==
  /\ Applying("Chown")
  /\ LET T == ChangeOp(srv, call.fid)
         e == cache.ent[call.h]
         C == IF e.ver = srv.ver[call.fid]
              THEN [cache EXCEPT !.ent[call.h].ver = @ + 1] ELSE cache
     IN  /\ Request(T, fate) /\ Return(Succeeds(T, fate), 0)
         /\ cache' = IF ~ Succeeds(T, fate) THEN cache
                     ELSE IF e.dir THEN InvalidateAllCachedAttrs(C) ELSE C
         /\ Unseen(IF fate = "lost" THEN {call.fid} ELSE {})
  /\ NoFds

-----------------------------------------------------------------------------
(***************************************************************************)
(* Mkdirs: down the path, a name at a time.                                *)
(***************************************************************************)
MkdirsKey == <<call.par, call.p[call.i]>>

\* The i-th name is the directory in entry h.
Descend(C, h) ==
  IF ~ C.ent[h].dir THEN cache' = C /\ Return(FALSE, 0)
  ELSE /\ cache' = SetStale(C, h)
       /\ IF call.i = Len(call.p) THEN Return(TRUE, 0)
          ELSE /\ call' = [call EXCEPT !.pc = "mkdirs", !.par = C.ent[h].fid, !.i = @ + 1]
               /\ last' = last

MkdirsLook(scan) ==
  /\ call.pc \in {"mkdirs", "exists"}
  /\ \E h \in {LookupFAttr(cache, MkdirsKey)} :
     \E L \in {LookupAttr(cache, MkdirsKey, IF call.pc = "mkdirs" THEN h ELSE None,
                          SubSeq(call.p, 1, call.i), FALSE, scan)} :
         IF call.pc = "mkdirs" /\ Usable(cache, h, FALSE) THEN Descend(cache, h)
         ELSE IF L.h # None THEN Descend(L.cache, L.h)
         ELSE /\ cache' = L.cache
              /\ IF call.pc = "mkdirs" THEN Goto("mkdir") ELSE Return(FALSE, 0)
  /\ NoRequest /\ NoFds /\ UNCHANGED ghost

MkdirsMake(fate) ==
  /\ call.pc = "mkdir"
  /\ LET T == MkdirOp(srv, MkdirsKey)
     IN  /\ Request(T, fate)
         /\ cache' = IF Succeeds(T, fate) THEN SetStale(cache, RootKey) ELSE cache
         /\ CASE Succeeds(T, fate) ->
                   IF call.i = Len(call.p) THEN Return(TRUE, 0)
                   ELSE /\ call' = [call EXCEPT !.pc = "mkdirs", !.par = srv.next, !.i = @ + 1]
                        /\ last' = last
              [] T = None /\ fate = "done" /\ MkdirsKey \in DOMAIN srv.tree -> Goto("exists")
              [] OTHER -> Return(FALSE, 0)
         /\ Unseen(IF fate = "lost" THEN {ROOTFID} ELSE {})
  /\ NoFds

-----------------------------------------------------------------------------
(***************************************************************************)
(* RmdirsSelf and RecursivelyApply: depth first, a directory after what it *)
(* has.  An error is remembered and passed over (DefaultErrHandler); the   *)
(* entries are only outdated at the end, all together.                     *)
(***************************************************************************)
Top == Last(call.stk)
SetTop(f) == [call EXCEPT !.stk = Append(Front(@), f)]
Listing(f) ==
  SelectSeq(NameOrder, LAMBDA n : IsLiveDir(srv, f) /\ <<f, n>> \in DOMAIN srv.tree)
Entry(f, n) == [name |-> n, attr |-> Attr(srv, srv.tree[<<f, n>>])]
DefaultErrHandler(c, failed) == [c EXCEPT !.err = @ \/ failed]

\* What is done to a file or, after its entries, to a directory.
RmdirsFunc(k, dir) == IF dir THEN RmdirOp(srv, k) ELSE RemoveOp(srv, k)
ChmodFunc(f) == ChangeOp(srv, f)
ChownFunc(f) == ChangeOp(srv, f)
SetReplicationFactorFunc(f, dir) == IF dir THEN srv ELSE ChangeOp(srv, f)
Apply(op, k, f, dir) ==
  CASE op = "Rmdirs" -> RmdirsFunc(k, dir)
    [] op = "ChmodR" -> ChmodFunc(f)
    [] op = "ChownR" -> ChownFunc(f)
    [] op = "SetReplicationFactorR" -> SetReplicationFactorFunc(f, dir)

RecList ==
  /\ call.pc = "rec" /\ ~ Top.listed
  /\ LET ns == Listing(Top.fid)
     IN  call' = DefaultErrHandler(
                   SetTop([Top EXCEPT !.listed = TRUE,
                             !.todo = [i \in DOMAIN ns |-> Entry(Top.fid, ns[i])]]),
                   ~ IsLiveDir(srv, Top.fid))
  /\ NoRequest /\ NoFds /\ UNCHANGED <<cache, ghost, last>>

\* The next entry of a directory: it is entered, or applied to.
RecItem(fate) ==
  /\ call.pc = "rec" /\ Top.listed /\ Top.todo # <<>>
  /\ LET x == Head(Top.todo)
         k == <<Top.fid, x.name>>
         c == SetTop([Top EXCEPT !.todo = Tail(@)])
         T == Apply(call.op, k, x.attr.fid, FALSE)
     IN  IF x.attr.dir
         THEN /\ call' = [c EXCEPT !.stk = Append(@, Frame(k, x.attr.fid, TRUE))]
              /\ fate = "done" /\ NoRequest
         ELSE Request(T, fate) /\ call' = DefaultErrHandler(c, ~ Succeeds(T, fate))
  /\ NoFds /\ UNCHANGED <<cache, ghost, last>>

\* Mutant: what was removed stays valid in the cache.
RecDone_KeepsCache(fate) ==
  /\ call.pc = "rec" /\ Top.listed /\ Top.todo = <<>>
  /\ LET T == Apply(call.op, Top.key, Top.fid, Top.dir)
     IN  /\ Request(T, fate)
         /\ IF Len(call.stk) > 1
            THEN /\ call' = DefaultErrHandler([call EXCEPT !.stk = Front(@)], ~ Succeeds(T, fate))
                 /\ UNCHANGED last
            ELSE Return(Succeeds(T, fate) /\ ~ call.err, 0)
  /\ NoFds /\ UNCHANGED <<ghost, cache>>

RecDone(fate) ==
  /\ call.pc = "rec" /\ Top.listed /\ Top.todo = <<>>
  /\ LET T == Apply(call.op, Top.key, Top.fid, Top.dir)
     IN  /\ Request(T, fate)
         /\ IF Len(call.stk) > 1
            THEN /\ call' = DefaultErrHandler([call EXCEPT !.stk = Front(@)], ~ Succeeds(T, fate))
                 /\ UNCHANGED <<cache, last>>
            ELSE /\ Return(Succeeds(T, fate) /\ ~ call.err, 0)
                 /\ cache' = InvalidateAllCachedAttrs(cache)
  /\ NoFds /\ UNCHANGED ghost

-----------------------------------------------------------------------------
(***************************************************************************)
(* ReaddirPlus: a page at a time, from the last name on; when that name is *)
(* gone the listing starts anew.  At the end the entries, or only the      *)
(* directories when there are many, go into the cache.                     *)
(***************************************************************************)
CacheListing(C, scan) ==
  LET full == /\ Len(call.got) <= kMaxUpdateSize
              /\ Cardinality(DOMAIN C.ent) < kMaxUpdateSize
      some == IF full THEN call.got ELSE SelectSeq(call.got, LAMBDA g : g.attr.dir)
      D    == InvalidateCachedAttrsWithPathPrefix(C, call.p, FALSE, None).cache
  IN  IF full \/ some # <<>>
      THEN FoldLeft(LAMBDA E, g : Cache(E, call.p, call.fid, g.name, g.attr, scan), D, some)
      ELSE C

ListPage ==
  /\ call.pc = "list"
  /\ LET ns   == Listing(call.fid)
         got  == call.got
         at   == IF got = <<>> THEN 0
                 ELSE IF \E i \in DOMAIN ns : ns[i] = Last(got).name
                 THEN CHOOSE i \in DOMAIN ns : ns[i] = Last(got).name ELSE -1
         end  == IF at + kMaxReaddirEntries < Len(ns) THEN at + kMaxReaddirEntries ELSE Len(ns)
         page == SubSeq(ns, at + 1, end)
     IN  IF ~ IsLiveDir(srv, call.fid) \/ at = -1
         THEN IF got # <<>> /\ call.retry > 1
              THEN /\ call' = [call EXCEPT !.got = <<>>, !.retry = @ - 1]
                   /\ UNCHANGED <<last, fds, freed>>
              ELSE /\ Return(FALSE, 0)
                   /\ IF call.fd # 0 THEN ReleaseFileTableEntry(call.fd)
                      ELSE UNCHANGED <<fds, freed>>
         ELSE /\ call' = [call EXCEPT
                   !.got = got \o [i \in DOMAIN page |-> Entry(call.fid, page[i])],
                   !.pc  = IF end < Len(ns) THEN "list" ELSE "listed"]
              /\ UNCHANGED <<last, fds, freed>>
  /\ NoRequest /\ UNCHANGED <<cache, ghost, closing>>

Listed(scan) ==
  /\ call.pc = "listed"
  /\ cache' = CacheListing(cache, scan)
  /\ Return(TRUE, call.fd)
  /\ NoRequest /\ NoFds /\ UNCHANGED ghost

-----------------------------------------------------------------------------
(***************************************************************************)
(* OpenSelf.  A valid entry is used unless it is a file's and about to run *)
(* out (short).  An entry does not outlive an open for writing.            *)
(***************************************************************************)
OpenFile(f, dir, write) ==
  [key |-> ThisKey, path |-> call.p, fid |-> f, dir |-> dir, write |-> write,
   used |-> FALSE, pending |-> FALSE]

OpenSelf(short, scan) ==
  /\ call.pc = "open"
  /\ \E read \in {call.op \in {"Open", "OpenDirectory"}} :
     \E h \in {LookupFAttr(cache, ThisKey)} :
     \E hit \in {Usable(cache, h, FALSE) /\ (cache.ent[h].dir \/ ~ short)} :
     \E C \in {IF hit THEN UpdatePath(cache, h, call.p)
               ELSE IF read THEN LookupSelf(cache, ThisKey, call.p, scan).cache
               ELSE Delete(cache, ThisKey)} :
     LET a == IF hit THEN [fid |-> cache.ent[h].fid, dir |-> cache.ent[h].dir]
              ELSE Attr(srv, srv.tree[ThisKey])
         n == FindFreeFileTableEntry
     IN  CASE ~ hit /\ ThisKey \notin DOMAIN srv.tree ->
                /\ cache' = C
                /\ IF call.op = "OpenCreate"
                   THEN call' = [call EXCEPT !.op = "Create", !.pc = "walk"] /\ last' = last
                   ELSE Return(FALSE, 0)
                /\ UNCHANGED <<fds, freed>>
           [] (hit \/ ThisKey \in DOMAIN srv.tree) /\ (n = 0 \/ (a.dir /\ ~ read)) ->
                cache' = C /\ Return(FALSE, 0) /\ UNCHANGED <<fds, freed>>
           [] (hit \/ ThisKey \in DOMAIN srv.tree) /\ n # 0 /\ (a.dir => read) ->
                IF call.op = "OpenDirectory" /\ ~ a.dir
                THEN /\ cache' = C /\ Return(FALSE, 0)
                     /\ fds' = IF freed = <<>> THEN Append(fds, None) ELSE fds
                     /\ freed' = IF freed = <<>> THEN <<n>> ELSE freed
                ELSE /\ AllocFileTableEntry(OpenFile(a.fid, a.dir, ~ read))
                     /\ CASE call.op = "OpenDirectory" ->
                               /\ call' = [call EXCEPT !.pc = "list", !.fid = a.fid, !.fd = n,
                                                       !.retry = kMaxReadDirRetries]
                               /\ cache' = C /\ last' = last
                          [] call.op = "OpenTruncate" ->
                               /\ call' = [call EXCEPT !.pc = "truncate", !.fid = a.fid, !.fd = n]
                               /\ cache' = C /\ last' = last
                          [] OTHER ->
                               /\ Return(TRUE, n)
                               /\ cache' = IF read THEN C ELSE Delete(C, ThisKey)
  /\ NoRequest /\ UNCHANGED <<ghost, closing>>

\* The truncation of an open with O_TRUNC; the slot is released if it fails.
OpenTruncate(fate) ==
  /\ call.pc = "truncate"
  /\ LET T == ChangeOp(srv, call.fid)
     IN  /\ Request(T, fate)
         /\ Return(Succeeds(T, fate), IF Succeeds(T, fate) THEN call.fd ELSE 0)
         /\ IF Succeeds(T, fate) THEN UNCHANGED <<fds, freed>>
            ELSE ReleaseFileTableEntry(call.fd)
  /\ cache' = Delete(cache, ThisKey)
  /\ UNCHANGED <<ghost, closing>>

-----------------------------------------------------------------------------
(***************************************************************************)
(* Calls on open files; each makes one request.                            *)
(***************************************************************************)
FdCall(op, n) ==
  /\ call = Idle /\ op \in FdCalls
  /\ fds[n] # None
  /\ count.calls < MaxCalls

FdRequest(T, fate) ==
  /\ srv' = After(srv, T, fate)
  /\ count' = [count EXCEPT !.calls = @ + 1, !.disturbed = IF fate = "done" THEN @ ELSE @ + 1]
  /\ last' = NoResult

\* Data goes to the buffers of the protocol worker.
Write(n) ==
  /\ FdCall("Write", n) /\ fds[n].write
  /\ fds' = [fds EXCEPT ![n].used = TRUE, ![n].pending = TRUE]
  /\ FdRequest(None, "done")
  /\ UNCHANGED <<cache, call, freed, closing, ghost>>

\* Without the mutex the worker writes them; the cache is left alone.
Sync(n) ==
  /\ FdCall("Sync", n) /\ fds[n].pending /\ fds[n].used
  /\ fds' = [fds EXCEPT ![n].pending = FALSE]
  /\ FdRequest(ChangeOp(srv, fds[n].fid), "done")
  /\ Unseen({fds[n].fid})
  /\ UNCHANGED <<cache, call, freed, closing>>

\* Truncate, TruncateSelf and PruneFromHead on an open file.
TruncateFd(n, fate) ==
  /\ FdCall("Truncate", n) /\ fds[n].write
  /\ fds' = [fds EXCEPT ![n].pending = FALSE]
  /\ FdRequest(ChangeOp(srv, fds[n].fid), fate)
  /\ Unseen({fds[n].fid})
  /\ UNCHANGED <<cache, call, freed, closing>>

\* The entry of an open directory's mode; the owner is never outdated.
ChmodFd(n, fate) ==
  /\ FdCall("Chmod", n)
  /\ LET T   == ChangeOp(srv, fds[n].fid)
         all == Succeeds(T, fate) /\ fds[n].dir
     IN  /\ FdRequest(T, fate)
         /\ cache' = IF all THEN InvalidateAllCachedAttrs(cache) ELSE cache
         /\ Unseen(IF all THEN {} ELSE {fds[n].fid})
  /\ NoFds /\ UNCHANGED call

ChownFd(n, fate) ==
  /\ FdCall("Chown", n)
  /\ FdRequest(ChangeOp(srv, fds[n].fid), fate)
  /\ Unseen({fds[n].fid})
  /\ NoFds /\ UNCHANGED <<call, cache>>

(***************************************************************************)
(* UpdateFilesize: for a directory or a striped file the attributes are    *)
(* looked up by the key the file had when it was opened; for another file  *)
(* the size is computed and put into the entry of that key, whichever file *)
(* it is about now.                                                        *)
(***************************************************************************)
UpdateFilesize(n, striped) ==
  /\ FdCall("UpdateFilesize", n)
  /\ LET k == fds[n].key
         A == IF k \in DOMAIN cache.ent /\ ~ cache.ent[k].gen THEN Delete(cache, k) ELSE cache
         B == [A EXCEPT !.ent[k] = Fresh(Attr(srv, srv.tree[k])) @@ [path |-> @.path],
                        !.lru = Append(SelectSeq(@, LAMBDA j : j # k), k)]
     IN  IF fds[n].dir \/ striped
         THEN /\ cache' = IF k \notin DOMAIN srv.tree \/ srv.tree[k] # fds[n].fid
                          THEN Delete(A, k)
                          ELSE IF k \in DOMAIN A.ent THEN B ELSE A
              /\ UNCHANGED ghost
         ELSE /\ cache' = A
              /\ Unseen(IF k \in DOMAIN A.ent /\ A.ent[k].fid # fds[n].fid
                        THEN {A.ent[k].fid} ELSE {})
  /\ FdRequest(None, "done")
  /\ NoFds /\ UNCHANGED call

\* The entry is deleted and the slot released under the mutex ...
Close(n, scan) ==
  /\ FdCall("Close", n)
  /\ cache' = IF fds[n].used
              THEN Delete(InvalidateAttribute(cache, fds[n].path, scan), fds[n].key)
              ELSE cache
  /\ closing' = IF fds[n].used THEN closing \union {fds[n].fid} ELSE closing
  /\ ReleaseFileTableEntry(n)
  /\ FdRequest(None, "done")
  /\ UNCHANGED <<call, ghost>>

\* ... and then the data is written.  A call of another thread in between may
\* have brought the entry back.
CloseWrites(f) ==
  /\ f \in closing
  /\ closing' = closing \ {f}
  /\ srv' = After(srv, ChangeOp(srv, f), "done")
  /\ Unseen(IF call # Idle \/ \E k \in DOMAIN cache.ent : cache.ent[k].fid = f
            THEN {f} ELSE {})
  /\ UNCHANGED <<cache, call, fds, freed, last, count>>

-----------------------------------------------------------------------------
(***************************************************************************)
(* Other clients, and time.                                                *)
(***************************************************************************)
\* After the last call nothing depends on them any more.
Going == call # Idle \/ count.calls < MaxCalls

\* A directory is moved away and another one with a file of the same name put
\* in its place: three requests between two of this client.
ReplaceOp(S, k, p) ==
  LET A == RenameOp(S, k, p)
      B == MkdirOp(A, k)
      f == CHOOSE j \in Children(S, S.tree[k]) : TRUE
  IN  IF k \notin DOMAIN S.tree \/ Children(S, S.tree[k]) = {} \/ A = None THEN None
      ELSE CreateOp(B, <<A.next, f[2]>>)

Other(c) ==
  /\ Going /\ count.disturbed < MaxDisturbed
  /\ LET par == IF Len(c.p) = 1 THEN ROOTFID
                ELSE IF Resolve(srv, Front(c.p)) = None THEN 0
                ELSE srv.tree[Resolve(srv, Front(c.p))]
         k   == Key(par, c.p)
         T   == CASE c.op = "Create" -> CreateOp(srv, k)
                  [] c.op = "Remove" -> RemoveOp(srv, k)
                  [] c.op = "Mkdir"  -> MkdirOp(srv, k)
                  [] c.op = "Rmdir"  -> RmdirOp(srv, k)
                  [] c.op = "Rename" -> RenameOp(srv, k, c.p2)
                  [] c.op = "Replace" -> ReplaceOp(srv, k, c.p2)
     IN  /\ T # None
         /\ srv' = T
         /\ ghost' = [ghost EXCEPT !.others = TRUE,
              !.moved = @ \/ (c.op \in {"Rmdir", "Rename", "Replace"} /\ srv.tree[k] \in srv.dirs)]
  /\ count' = [count EXCEPT !.disturbed = @ + 1]
  /\ UNCHANGED <<cache, call, fds, freed, closing, last>>

\* mFileAttributeRevalidateTime has passed since the least recently validated
\* entry that is still fresh was validated.
Expire ==
  \E i \in DOMAIN cache.lru :
    /\ Going
    /\ cache.ent[cache.lru[i]].fresh
    /\ \A j \in 1..(i - 1) : ~ cache.ent[cache.lru[j]].fresh
    /\ cache' = [cache EXCEPT !.ent[cache.lru[i]].fresh = FALSE]
    /\ UNCHANGED <<srv, call, fds, freed, closing, last, ghost, count>>

-----------------------------------------------------------------------------
Init ==
  /\ srv = [tree |-> (RootKey :> ROOTFID) @@ (<<ROOTFID, "d">> :> 2) @@ (<<2, "f">> :> 3),
            dirs |-> {ROOTFID, 2}, ver |-> <<0, 0, 0>>, next |-> 4]
  /\ cache = EmptyCache
  /\ call = Idle
  /\ fds = <<>> /\ freed = <<>> /\ closing = {}
  /\ last = NoResult
  /\ ghost = [others |-> FALSE, moved |-> FALSE, unseen |-> {}]
  /\ count = [calls |-> 0, disturbed |-> 0]

ApplyStep(fate, scan) ==
  \/ Mkdir(fate) \/ Rmdir(fate) \/ RemoveFile(fate) \/ Create(fate) \/ Rename(fate)
  \/ CoalesceBlocks(fate) \/ SetMtime(fate) \/ Chmod(fate) \/ Chown(fate)
  \/ Truncate(fate, scan) \/ SetReplicationFactor(fate, scan)
  \/ MkdirsMake(fate) \/ RecItem(fate) \/ RecDone(fate) \/ OpenTruncate(fate)

FdStep(n, fate, scan) ==
  \/ TruncateFd(n, fate) \/ ChmodFd(n, fate) \/ ChownFd(n, fate)
  \/ fate = "done" /\ (Write(n) \/ Sync(n) \/ Close(n, scan))
  \/ fate = "done" /\ \E striped \in BOOLEAN : UpdateFilesize(n, striped)

\* Insertions are counted, and now and then the front of a list longer than
\* twice mFileAttributeRevalidateScan is validated.
Scans ==
  IF Cardinality(DOMAIN cache.ent) >= 2 * mFileAttributeRevalidateScan THEN BOOLEAN ELSE {FALSE}

Next ==
  \/ \E c \in Calls : Begin(c)
  \/ \E scan \in Scans :
       \/ Walk(scan) \/ Walk2(scan) \/ Look(scan) \/ MkdirsLook(scan) \/ Listed(scan)
       \/ \E short \in BOOLEAN : OpenSelf(short, scan)
       \/ \E fate \in Fates : ApplyStep(fate, scan)
       \/ \E fate \in Fates, n \in DOMAIN fds : FdStep(n, fate, scan)
  \/ RecList \/ ListPage
  \/ \E f \in closing : CloseWrites(f)
  \/ \E c \in OtherCalls : Other(c)
  \/ Expire

Spec == Init /\ [][Next]_vars

-----------------------------------------------------------------------------
(***************************************************************************)
(* Validate, LookupFAttr, NewFAttr: whatever other clients do between the  *)
(* requests of a call, the two indexes and the LRU list describe the same  *)
(* entries: no iterator in an entry dangles and no insertion aborts.       *)
(***************************************************************************)
CacheIndexesAgree == Validate(cache)

(***************************************************************************)
(* A client that is alone sees its own changes: between calls every entry  *)
(* it would use is what the metaserver has under that key and path, with   *)
(* the counts of a directory unless they are marked stale, and with the    *)
(* attributes of a file unless a call changed them that leaves the cache   *)
(* alone (unseen: Chmod of a file, calls on open files, a truncation       *)
(* whose reply was lost).  And what it opens or creates is the file its    *)
(* path names.                                                             *)
(***************************************************************************)
OwnChangesSeen ==
  (call = Idle /\ ~ ghost.others) =>
    /\ \A k \in DOMAIN cache.ent :
         LET e == cache.ent[k]
         IN  IsValid(e) =>
               /\ k \in DOMAIN srv.tree /\ srv.tree[k] = e.fid
               /\ e.path # None => Resolve(srv, e.path) = k
               /\ e.fid \notin ghost.unseen =>
                    /\ e.ver = srv.ver[e.fid]
                    /\ e.stale \/ e.cnt = Attr(srv, e.fid).cnt
    /\ last.ok /\ last.fd # 0 /\ fds[last.fd] # None =>
         /\ Resolve(srv, last.p) # None
         /\ fds[last.fd].fid = srv.tree[Resolve(srv, last.p)]

(***************************************************************************)
(* Remove, Rmdir, Rmdirs, Rename: when one of them returns success, no     *)
(* entry is left that would serve the path, also when other clients create *)
(* and remove files at the same time, as long as they move no directory.   *)
(***************************************************************************)
RemovedIsNotServed ==
  (/\ last.ok /\ last.op \in {"Remove", "Rmdir", "Rmdirs", "Rename"}
   /\ ~ ghost.moved) =>
    ~ Usable(cache, LookupPath(cache, last.p), FALSE)
=============================================================================
