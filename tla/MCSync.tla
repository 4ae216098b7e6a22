-------------------------------- MODULE MCSync --------------------------------
(* Setups for TLC: each policy with a failing transport, with a restart and  *)
(* with two records in one push; clocks that move; a filtered replica; and   *)
(* a server with a newer schema, which can or cannot upgrade and serve the   *)
(* older one.                                                                *)
EXTENDS Sync

All == [r \in Replicas |-> Everyone]

Plain(policy) ==
    [policy |-> policy, version |-> 1, minimum |-> 1, upgrades |-> {}, filter |-> All,
     owners |-> {"ada"}, ids |-> 1, writes |-> 2, deletes |-> FALSE, now |-> 1,
     faults |-> 0, restarts |-> 0]

Faulty(policy) == [Plain(policy) EXCEPT !.writes = 3, !.faults = 1]
Restarted(policy) == [Plain(policy) EXCEPT !.deletes = TRUE, !.restarts = 1]
Timed == [Plain("LastWriterWins") EXCEPT !.now = 2, !.faults = 1]
Batched(policy) == [Plain(policy) EXCEPT !.ids = 2, !.writes = 3]
Filtered == [Plain("LastWriterWins") EXCEPT !.owners = {"ada", "grace"}, !.writes = 3,
                                            !.filter = [All EXCEPT ![1] = "ada"], !.deletes = TRUE]
Newer(minimum, upgrades) ==
    [Plain("Merge") EXCEPT !.version = 2, !.minimum = minimum, !.upgrades = upgrades,
                           !.restarts = 1]

AllSetups ==
    {Faulty(p) : p \in Policies} \union {Restarted(p) : p \in Policies}
        \union {Batched(p) : p \in Policies} \union {Timed, Filtered}
        \union {Newer(1, {}), Newer(2, {1})}

OneAhead == [r \in Replicas |-> IF r = 1 THEN 1 ELSE 0]
=============================================================================
