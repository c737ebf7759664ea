---------------------------- MODULE MCApiService ----------------------------
EXTENDS ApiService, TLC

Records(a, b, c) == [slot \in Slots |->
  CASE slot = <<"v", 1>> -> a [] slot = <<"v", 2>> -> b [] slot = <<"v", 3>> -> c
    [] OTHER -> NoRecord]
Rev(n) == [revision |-> n, dead |-> FALSE]
Dead(n) == [revision |-> n, dead |-> TRUE]

Item(slot, expected, dead) == [slot |-> slot, expected |-> expected, dead |-> dead]
Call(op, items, faults) ==
  [op |-> op, ip |-> "ip", vault |-> "v", items |-> items, faults |-> faults]
Probe(op, faults) == Call(op, <<Item(<<"v", 1>>, {}, FALSE)>>, faults)
Put(id, expected) == Call("put", <<Item(<<"v", id>>, expected, FALSE)>>, {})
Delete(id, revision) == Call("delete", <<Item(<<"v", id>>, {revision}, TRUE)>>, {})
Rekey(ids) == Call("rekey", [i \in DOMAIN ids |-> Item(<<"w", ids[i]>>, {}, FALSE)], {})

Scene(limit, ticks, calls, records0, reads, new) ==
  [limit |-> limit, ticks |-> ticks, calls |-> calls, records |-> records0,
   reads |-> reads, new |-> new, vault |-> "v", pageSize |-> 1]

MCScenarios ==
  { Scene(1, 1, {Probe("healthz", {})}, Records(NoRecord, NoRecord, NoRecord), FALSE, FALSE),
    Scene(0, 0, {Put(1, {1}), Put(1, {2}), Put(1, {}), Delete(1, 2), Delete(1, 1),
                 Call("purge", Put(1, {}).items, {}), Rekey(<<1, 2>>),
                 Call("batch", Put(1, {1}).items \o Put(2, {}).items, {})},
          Records(Rev(1), Dead(2), NoRecord), FALSE, FALSE),
    Scene(0, 0, {Put(1, {}), Put(2, {}), Delete(2, 1), Probe("embed", {}), Call("purge", Put(1, {}).items, {}),
                 Rekey(<<3>>)},
          Records(NoRecord, Rev(1), Rev(1)), TRUE, FALSE),
    Scene(0, 0, {Probe("options", {"UNAUTHORIZED"}), Probe("readyz", {}), Probe("get", {}),
                 Probe("rekey", {"MIXED", "BAD_QUERY"}),
                 Probe("put", {"UNAUTHORIZED", "TOO_LARGE"}),
                 Probe("delete", {"BAD_BODY"})},
          Records(NoRecord, NoRecord, NoRecord), FALSE, TRUE) }

Symmetry == Permutations(Requests) \cup Permutations(Migrators)
=============================================================================
