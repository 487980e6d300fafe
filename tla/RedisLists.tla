---- MODULE RedisLists ----
(***************************************************************************)
(* What the repair threads do to packets and to the Redis lists they pass  *)
(* them through.  A packet is the set of terms XORed into it, the zero     *)
(* packet is {}.                                                           *)
(***************************************************************************)
EXTENDS DrCmds

\* Redis (external): a list and what RPUSH and BLPOP do to it.
Push(lists, key, v) == [lists EXCEPT ![key] = Append(@, v)]
Pop(lists, key) == [lists EXCEPT ![key] = Tail(@)]

\* Computation::XORBuffers
Xor(a, b) == (a \ b) \cup (b \ a)
====
