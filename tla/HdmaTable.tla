----------------------------- MODULE HdmaTable -----------------------------
(***************************************************************************)
(* What an HDMA channel is promised to do with its table, said of the      *)
(* table as a list of entries rather than of the bytes it is made of: the  *)
(* entry a scanline falls in is the one its predecessors leave it, and a   *)
(* line transfers one unit of it, or nothing.                              *)
(***************************************************************************)
EXTENDS Integers, Sequences

CONSTANTS
    Half,       \* the repeat flag of a line count (0x80)
    Width       \* bytes a unit has

VARIABLES
    table,      \* the line counts, in order
    line,       \* scanlines the channel has had since it was set up
    on,         \* whether it still runs
    moved       \* the bytes the last line moved

tableVars == <<table, line, on, moved>>

Repeats(count) == count > Half
LinesOf(count) == IF Repeats(count) THEN count - Half ELSE count

(* Scanlines used up before entry i. *)
Before(t) ==
    LET sum[i \in 1 .. Len(t) + 1] == IF i = 1 THEN 0 ELSE sum[i - 1] + LinesOf(t[i - 1])
    IN  sum

Unit(i, j) == [k \in 1 .. Width |-> <<i, j, k - 1>>]

Lasts(t, l) == l <= Before(t)[Len(t) + 1]

(* The unit line l of table t moves: an entry that repeats has one for     *)
(* every line, another only for its first.                                 *)
Due(t, l) ==
    LET i == CHOOSE i \in 1 .. Len(t) : Before(t)[i] < l /\ l <= Before(t)[i + 1]
        j == l - Before(t)[i] - 1
    IN  IF Repeats(t[i]) \/ j = 0 THEN Unit(i, j) ELSE <<>>

SetUp == line' = 0 /\ moved' = <<>> /\ on' \in BOOLEAN /\ UNCHANGED table

Scanline ==
    /\ on
    /\ line' = line + 1
    /\ on' = Lasts(table, line')
    /\ moved' = IF Lasts(table, line') THEN Due(table, line') ELSE <<>>
    /\ UNCHANGED table

TableInit == line = 0 /\ moved = <<>> /\ on = FALSE

TableSpec == TableInit /\ [][SetUp \/ Scanline]_tableVars
=============================================================================
