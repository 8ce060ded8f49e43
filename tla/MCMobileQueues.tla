---------------------------- MODULE MCMobileQueues ----------------------------
EXTENDS MobileQueues, TLC

CONSTANTS r1, r2

Act(page, op) == [page |-> page, op |-> op]

MCScripts ==
  {<<Act("pick", "start"), Act("pick", "update"), Act("pick", "pack")>>,
   <<Act("stocktake", "count"), Act("receive", "receive"), Act("stocktake", "count")>>,
   <<Act("worker", "post"), Act("worker", "post"), Act("stocktake", "count")>>}

Symmetry == Permutations(Replay)
=============================================================================
