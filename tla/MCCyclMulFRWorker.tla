---- MODULE MCCyclMulFRWorker ----
EXTENDS CyclMulFRWorker

\* Where neither property says anything any more, the run does not go on: after a
\* race (but for what a first packet leads to), after a helper died early, and
\* after a thread slept through a notification.  If that thread is woken later, it
\* then stands where it would have stood had it only been slow, in a state the run
\* reaches without the loss.
StillJudged ==
  /\ \A h \in Ids : Raced(h) => \A g \in Ids : sent[g] = 0 /\ read[g] <= 1
  /\ \A h \in crashed : Freed(h)
  /\ missed = {}
====
