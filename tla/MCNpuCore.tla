----------------------------- MODULE MCNpuCore -----------------------------
\* Small instances of the core: convolutions with one and two products per
\* output element, one with padding, and a vector command.
EXTENDS NpuCore

MCCmd == {"zero", "dot", "map", "edge", "add"}
MCOuts(c) == CASE c = "map" -> 3 [] c = "edge" -> 2 [] c = "add" -> 2 [] OTHER -> 1
MCInner(c) == CASE c = "dot" -> 2 [] c = "edge" -> 3 [] OTHER -> 1
MCIsVec(c) == c = "add"

\* The first product of the first element of "edge" and the last of the second
\* lie in the padding, and all of the second element of "map" does.
MCZeroPad(c, out, inn) ==
    \/ c = "edge" /\ <<out, inn>> \in {<<0, 0>>, <<1, 2>>}
    \/ c = "map" /\ out = 1
=============================================================================
