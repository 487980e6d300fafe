---------------------------- MODULE KfsAttrCache ----------------------------
(***************************************************************************)
(* The attribute cache of the patched QFS client                           *)
(* (qfs-integrate/src/KfsClient.cc).  An FAttr is kept under two indexes:  *)
(* mFidNameToFAttrMap, by the file id of the directory and the name in it  *)
(* ("key"), and mPathCache, by the path it was last reached by.  A cache   *)
(* is a record                                                             *)
(*   ent  key -> entry, with the path of the entry or None (nameIt)        *)
(*   pth  path -> key                                                      *)
(*   lru  the keys, the least recently validated one first                 *)
(*   abort  an insertion found its key taken: the code calls abort()       *)
(* An entry has the attributes it caches (fid, dir, ver, cnt), whether its *)
(* generation is the current one (gen), whether its time has not run out   *)
(* (fresh), and staleSubCountsFlag (stale).  Time runs out in the order of *)
(* the LRU list.  A path is the sequence of its names.                     *)
(***************************************************************************)
EXTENDS Integers, Sequences, FiniteSets, SequencesExt

CONSTANTS
  None,                 \* no entry, no path
  NameOrder,            \* the names, in their order
  kMaxInodeCacheSize, kMaxUpdateSize, mFileAttributeRevalidateScan,
  kMaxInvalidate        \* the 256 of InvalidateCachedAttrsWithPathPrefix

EmptyCache == [ent |-> <<>>, pth |-> <<>>, lru |-> <<>>, abort |-> FALSE]

Without(f, x) == [y \in DOMAIN f \ {x} |-> f[y]]
With(f, x, v) == [y \in DOMAIN f \union {x} |-> IF y = x THEN v ELSE f[y]]

IsValid(e) == e.gen /\ e.fresh

\* The two ways to look an entry up: by its key and by a path.
LookupFAttr(C, k) == IF k \in DOMAIN C.ent THEN k ELSE None
LookupPath(C, p) == IF p \in DOMAIN C.pth THEN C.pth[p] ELSE None

Delete(C, k) ==
  IF k \notin DOMAIN C.ent THEN C
  ELSE [C EXCEPT
         !.ent = Without(@, k),
         !.pth = IF C.ent[k].path = None THEN @ ELSE Without(@, C.ent[k].path),
         !.lru = SelectSeq(@, LAMBDA j : j # k)]

InvalidateAllCachedAttrs(C) ==
  [C EXCEPT !.ent = [k \in DOMAIN C.ent |-> [C.ent[k] EXCEPT !.gen = FALSE]]]

Index(n) == CHOOSE i \in 1..Len(NameOrder) : NameOrder[i] = n
\* The order of the strings in mPathCache.
Before(a, b) ==
  \E i \in 0..Len(a) :
     /\ SubSeq(a, 1, i) = SubSeq(b, 1, i)
     /\ i < Len(b)
     /\ i = Len(a) \/ Index(a[i + 1]) < Index(b[i + 1])

DeleteAll(C, ks) ==
  [C EXCEPT !.ent = [k \in DOMAIN @ \ ks |-> @[k]],
            !.pth = [p \in {q \in DOMAIN @ : @[q] \notin ks} |-> @[p]],
            !.lru = SelectSeq(@, LAMBDA k : k \notin ks)]

\* The first entries found, in the order of the paths.
FirstBelow(below, max) ==
  IF Cardinality(below) <= max THEN below
  ELSE CHOOSE S \in SUBSET below :
         /\ Cardinality(S) = max
         /\ \A a \in S, b \in below \ S : Before(a, b)

MaxInvalidate(C) ==
  IF Cardinality(DOMAIN C.ent) \div 2 + 1 < kMaxInvalidate
  THEN Cardinality(DOMAIN C.ent) \div 2 + 1 ELSE kMaxInvalidate

\* Entry keep is only outdated.
DropFound(C, found, keep) ==
  IF keep \in found
  THEN [DeleteAll(C, found \ {keep}) EXCEPT !.ent[keep].gen = FALSE]
  ELSE DeleteAll(C, found)

InvalidateFound(C, below, first, keep) ==
  [cache |-> IF first = below THEN DropFound(C, {C.pth[q] : q \in first}, keep)
             ELSE InvalidateAllCachedAttrs(DropFound(C, {C.pth[q] : q \in first}, keep)),
   all   |-> first # below]

PathsBelow(C, p, slash) ==
  {q \in DOMAIN C.pth : slash /\ Len(q) > Len(p) /\ IsPrefix(p, q)}

(***************************************************************************)
(* The entries below a path are deleted, keep only outdated; when there    *)
(* are too many, or when the path is the root or none, all entries are     *)
(* outdated.  The comparison takes the length of the path as given and the *)
(* text of the prefix with its slash: a path given without the slash finds *)
(* nothing.  "all" is the value returned.                                  *)
(***************************************************************************)
InvalidateCachedAttrsWithPathPrefix(C, p, slash, keep) ==
  IF DOMAIN C.pth = {} THEN [cache |-> C, all |-> TRUE]
  ELSE IF p = <<>> \/ p = None
  THEN [cache |-> InvalidateAllCachedAttrs(C), all |-> TRUE]
  ELSE InvalidateFound(C, PathsBelow(C, p, slash),
                       FirstBelow(PathsBelow(C, p, slash), MaxInvalidate(C)), keep)

DropPath(C, k) ==
  IF C.ent[k].path = None THEN C ELSE [C EXCEPT !.pth = Without(@, C.ent[k].path)]
SetPath(C, k, p) == [C EXCEPT !.pth = With(@, p, k), !.ent[k].path = p]
LosePath(C, k) == IF k = None THEN C ELSE [C EXCEPT !.ent[k].path = None]
GivePath(C, k, p) == SetPath(LosePath(C, LookupPath(C, p)), k, p)

\* An entry is reached by another path: the entry that had it has none now.
UpdatePath(C, k, p) ==
  IF k \notin DOMAIN C.ent \/ C.ent[k].path = p THEN C ELSE GivePath(DropPath(C, k), k, p)

\* Up to mFileAttributeRevalidateScan + 1 entries that are not valid any more
\* are deleted from the front of the LRU list.
ValidateFAttrCache(C) ==
  LET stale == {i \in 1..Len(C.lru) :
                  /\ i <= mFileAttributeRevalidateScan + 1
                  /\ \A j \in 1..i : ~ IsValid(C.ent[C.lru[j]])}
  IN  DeleteAll(C, {C.lru[i] : i \in stale})

ScanFront(C, scan) ==
  IF scan /\ Cardinality(DOMAIN C.ent) > 2 * mFileAttributeRevalidateScan
  THEN ValidateFAttrCache(C) ELSE C
Evict(C) ==
  IF Cardinality(DOMAIN C.ent) >= kMaxInodeCacheSize THEN Delete(C, Head(C.lru)) ELSE C
AddEntry(C, k, attr) ==
  [C EXCEPT !.ent = With(@, k, attr @@ [path |-> None]), !.lru = Append(@, k)]
\* The entry reached by path p before, was, gives way.
TakeOver(C, p, was) ==
  IF was = None THEN C
  ELSE IF ~ C.ent[was].gen THEN Delete(C, was)
  ELSE Delete(InvalidateCachedAttrsWithPathPrefix(C, Front(p), TRUE, was).cache, was)
Insert(C, k, p, attr) ==
  IF k \in DOMAIN C.ent THEN [C EXCEPT !.abort = TRUE]
  ELSE SetPath(TakeOver(AddEntry(C, k, attr), p, LookupPath(C, p)), k, p)

\* Mutant: an entry that takes over a path does not remove the one it had.
NewFAttr_TwoOnPath(C, k, p, attr, scan) ==
  SetPath(AddEntry(Evict(ScanFront(C, scan)), k, attr), k, p)

(***************************************************************************)
(* A new entry for key k, reached by path p.  The least recently validated *)
(* entry makes place for it; an entry that was reached by the same path    *)
(* under another key belongs to a directory that is no longer there: it is *)
(* deleted and what its directory had is outdated.  scan: whether the      *)
(* counter of insertions lets the front of the list be validated now.      *)
(***************************************************************************)
NewFAttr(C, k, p, attr, scan) == Insert(Evict(ScanFront(C, scan)), k, p, attr)

Fresh(attr) == attr @@ [gen |-> TRUE, fresh |-> TRUE, stale |-> FALSE]

\* I: what invalidating below the entry's own path did.
OutdatePath(I, h, p, changed, attr) ==
  IF ~ I.all /\ changed /\ attr.dir
  THEN InvalidateCachedAttrsWithPathPrefix(I.cache, p, FALSE, h).cache ELSE I.cache
OutdateBelow(C, h, p, e, attr) ==
  IF attr.fid = e.fid \/ ~ (e.dir \/ attr.dir) THEN C
  ELSE OutdatePath(IF e.dir THEN InvalidateCachedAttrsWithPathPrefix(C, e.path, FALSE, h)
                   ELSE [cache |-> C, all |-> FALSE], h, p, e.path # p, attr)
Refresh(C, h, attr) ==
  [C EXCEPT !.ent[h] = Fresh(attr) @@ [path |-> @.path],
            !.lru = Append(SelectSeq(@, LAMBDA j : j # h), h)]

(***************************************************************************)
(* The attributes of key k, just read from the metaserver, are put into    *)
(* entry h when there is one (StatSelf finds h by the path: its key need   *)
(* not be k), into a new entry otherwise.                                  *)
(***************************************************************************)
UpdateFattr(C, k, h, p, attr, scan) ==
  IF h = None THEN NewFAttr(C, k, p, Fresh(attr), scan)
  ELSE Refresh(UpdatePath(OutdateBelow(C, h, p, C.ent[h], attr), h, p), h, attr)

SetStale(C, k) ==
  IF k \in DOMAIN C.ent THEN [C EXCEPT !.ent[k].stale = TRUE] ELSE C

\* An entry of a directory listing.
Cache(C, dir, fid, n, attr, scan) ==
  UpdateFattr(C, <<fid, n>>, LookupFAttr(C, <<fid, n>>), Append(dir, n), attr, scan)

(***************************************************************************)
(* What Validate demands of every entry before it calls abort(): an entry  *)
(* is in the LRU list, once, and the two indexes lead to each other.       *)
(***************************************************************************)
Validate(C) ==
  /\ ~ C.abort
  /\ Range(C.lru) = DOMAIN C.ent /\ Len(C.lru) = Cardinality(DOMAIN C.ent)
  /\ \A k \in DOMAIN C.ent : C.ent[k].path # None => LookupPath(C, C.ent[k].path) = k
  /\ \A p \in DOMAIN C.pth : C.pth[p] \in DOMAIN C.ent /\ C.ent[C.pth[p]].path = p
=============================================================================
