-------------------------- MODULE MCBulkEmailQueue --------------------------
(* Small instances of BulkEmailQueue. *)
EXTENDS BulkEmailQueue, TLC

CONSTANTS w1, w2, j1, j2, c1, c2, a1, a2

\* One campaign of two customers.
OneCampaignOf == [j \in Jobs |-> c1]
OneIndex      == [j \in Jobs |-> IF j = j1 THEN 0 ELSE 1]
OneAddress    == [j \in Jobs |-> IF j = j1 THEN a1 ELSE a2]

\* Two campaigns of a customer each, who share an address.
TwoCampaignsOf == [j \in Jobs |-> IF j = j1 THEN c1 ELSE c2]
FirstIndex     == [j \in Jobs |-> 0]
SharedAddress  == [j \in Jobs |-> a1]

WorkerSymmetry == Permutations(Schedulers)

ShortBackoff == [n \in 1..MaxAttempts |-> n]
=============================================================================
