---------------------------- MODULE MCRetirement ----------------------------
\* Two callers: one closes the change while the other still mutates it.
EXTENDS Retirement

CONSTANTS a, b, opA, opB, h1, tasks

MCClients == {a, b}
MCOpIds == {opA, opB}
MCPayloads == {h1}
MCFields == {tasks}

Ask(op, effect) ==
    [op |-> op, payload |-> h1, expected |-> Undefined, state |-> Undefined,
     effect |-> [f \in MCFields |-> effect], allow |-> {}, throws |-> FALSE,
     verifies |-> TRUE, normalizes |-> TRUE]

MCRequests == {Ask(opA, "grow"), Ask(opB, "keep"), Ask(NoOp, "shrink")}
MCClosing == {Ask(opB, "keep")}
=============================================================================
