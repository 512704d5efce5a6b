---------------------------- MODULE RecordStoreMC ----------------------------
(* The record store as the application uses it: the consensus connection       *)
(* writes, the mempool connection checks inputs, the query connection scans.   *)
EXTENDS RecordStoreRefinement

CONSTANTS consensus, mempool, query

MCThreads == {consensus, mempool, query}

MCAllowed ==
    [t \in MCThreads |->
        CASE t = consensus -> {"Add", "Spend", "IsUnspent", "Commit"}
          [] t = mempool -> {"IsUnspent"}
          [] t = query -> {"ScanRecords", "ScanSpentRecords"}]
============================================================================
