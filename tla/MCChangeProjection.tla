------------------------- MODULE MCChangeProjection -------------------------
\* Two callers and a handful of requests that meet every fence.
EXTENDS ChangeProjection

CONSTANTS a, b, opA, opB, h1, h2, tasks

MCClients == {a, b}
MCOpIds == {opA, opB}
MCPayloads == {h1, h2}
MCFields == {tasks}

Ask(op, payload, expected, state, effect) ==
    [op |-> op, payload |-> payload, expected |-> expected, state |-> state,
     effect |-> [f \in MCFields |-> effect], allow |-> {}, throws |-> FALSE,
     verifies |-> TRUE, normalizes |-> FALSE]

MCRequests ==
    { \* an ordinary mutation that a repair call may apply to a legacy document
      [Ask(opA, h1, Undefined, Undefined, "grow") EXCEPT !.normalizes = TRUE],
      \* the same operation id with another payload, and a postcondition that fails
      [Ask(opA, h2, Undefined, 1, "keep") EXCEPT !.verifies = FALSE],
      \* a revision-fenced mutation that may empty the collection
      Ask(opB, h1, 1, 1, "shrink"),
      \* a caller without identity that declares it empties the collection
      [Ask(NoOp, h2, Undefined, 0, "clear") EXCEPT !.allow = MCFields] }
=============================================================================
