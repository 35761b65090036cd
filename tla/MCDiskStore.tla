---------------------------- MODULE MCDiskStore ----------------------------
\* One transaction and one call of a store method on the same change.
EXTENDS DiskStore

CONSTANTS a, s, opA, opB, h1, tasks

MCClients == {a}
MCOpIds == {opA, opB}
MCPayloads == {h1}
MCFields == {tasks}

Ask(op, effect) ==
    [op |-> op, payload |-> h1, expected |-> Undefined, state |-> Undefined,
     effect |-> [f \in MCFields |-> effect], allow |-> {}, throws |-> FALSE,
     verifies |-> TRUE, normalizes |-> TRUE]

MCStoreCallers == {s}
MCRequests == {Ask(opA, "grow"), Ask(opB, "keep")}
=============================================================================
