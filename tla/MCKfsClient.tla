---------------------------- MODULE MCKfsClient -----------------------------
\* Directory d with file f; e is free.  The calls are chosen so that every one
\* meets a path that exists, one that does not, and one of the wrong type.
EXTENDS KfsClient

d == <<"d">>
e == <<"e">>
df == <<"d", "f">>
ef == <<"e", "f">>
One(op, ps) == {[op |-> op, p |-> q, p2 |-> <<>>] : q \in ps}
Two(op, qs) == {[op |-> op, p |-> q[1], p2 |-> q[2]] : q \in qs}

MCCalls ==
  One("Stat", {<<>>, d, df}) \union One("ReaddirPlus", {<<>>, d})
  \union One("Chmod", {d, df}) \union One("Chown", {df})
  \union One("Truncate", {df}) \union One("SetReplicationFactor", {df})
  \union One("SetReplicationFactorR", {d})
  \union One("Mkdir", {e}) \union One("Rmdir", {d}) \union One("Remove", {df})
  \union One("Create", {df}) \union One("SetMtime", {df})
  \union One("Mkdirs", {df}) \union One("Rmdirs", {d})
  \union One("Open", {df}) \union One("OpenCreate", {df})
  \union One("OpenTruncate", {df}) \union One("OpenDirectory", {d, df})
  \union Two("Rename", {<<d, e>>, <<df, ef>>})
  \union Two("CoalesceBlocks", {<<df, e>>})

MCOthers ==
  One("Create", {df}) \union One("Remove", {df}) \union One("Mkdir", {e})
  \union One("Rmdir", {d}) \union Two("Rename", {<<d, e>>}) \union Two("Replace", {<<d, e>>})

MCFdCalls == {"Write", "Sync", "Truncate", "Chmod", "Chown", "UpdateFilesize", "Close"}
MCNames == <<"d", "e", "f">>
=============================================================================
