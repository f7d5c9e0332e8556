---- MODULE MCMemoryStore ----
(* Small instances of MemoryStore. *)
EXTENDS MemoryStore, TLC
CONSTANTS s1, s2, s3, s4, t1, t2, t3, b1, b2

HandleCalls == {"branch", "commit", "lock_data", "drop", "close"}
OpenCalls == {"find", "find_branch", "master", "parent"}
HeadCalls == {"set_master", "set_branch", "remove_branch"}
AllCalls == HandleCalls \cup OpenCalls \cup HeadCalls
            \cup {"pack", "store", "store_timed", "load", "memory_stat",
                  "linear_history"}
HistoryCalls == AllCalls \ {"store", "store_timed", "load", "lock_data"}
RaceCalls == {"branch", "commit", "drop", "close", "parent", "master", "set_master",
              "pack"}
StoreCalls == {"branch", "commit", "lock_data", "drop", "close", "master",
               "find_branch", "set_branch", "store_timed", "load"}
WaitCalls == {"branch", "commit", "close", "find", "pack", "store", "store_timed"}
StoreOrDropCalls == {"find", "branch", "drop", "close", "store"}
ReopenCalls == {"find", "branch", "commit", "drop", "close", "parent"}
FindPackedCalls == {"find", "branch", "commit", "drop", "close", "pack"}

Symmetry == Permutations(Snapshots \ {Root}) \cup Permutations(Threads)
            \cup Permutations(Names)

====
