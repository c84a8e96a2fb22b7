-------------------------------- MODULE Hdma --------------------------------
(***************************************************************************)
(* One HDMA channel of cpu/c_dma.c, byte by byte: the table in memory, the *)
(* running address, the line counter with the repeat flag in its top bit,  *)
(* and the bit of hdmatype that says no entry has been read yet.  Channels *)
(* share nothing but the registers that start them.  A game leaves the     *)
(* channel's registers and table alone while the channel runs.             *)
(***************************************************************************)
EXTENDS Integers, Sequences, SequencesExt

CONSTANTS
    Half, Width,        \* the repeat flag, bytes a unit has
    Tables, Indirects   \* the tables and addressing modes there may be

ASSUME HdmaAssumption ==
    /\ Half \in Nat \ {0} /\ Width \in Nat \ {0}
    /\ \A t \in Tables : t \in Seq(1 .. 2 * Half - 1)
    /\ Indirects \subseteq BOOLEAN

VARIABLES
    table, indirect,    \* what the game set up, for good
    curhdma, nexthdma,  \* the channel's bit: wanted, and running this frame
    line_counter, addr_inc, count, hdmatype,
    lines, moved        \* history: scanlines since set-up, bytes moved by the last

hdmaVars == <<table, indirect, curhdma, nexthdma, line_counter, addr_inc, count, hdmatype, lines, moved>>

Ref == INSTANCE HdmaTable WITH line <- lines, on <- nexthdma

-----------------------------------------------------------------------------
(* The table as bytes.  An entry is its line count and then its units, or  *)
(* the two bytes of a pointer to them; a count of 0 ends the table.        *)
Units(i) == FlattenSeq([j \in 1 .. Ref!LinesOf(table[i]) |-> Ref!Unit(i, j - 1)])

Entry(i) ==
    IF indirect THEN <<<<table[i]>>, <<i, "low">>, <<i, "high">>>>
    ELSE <<<<table[i]>>>> \o IF Ref!Repeats(table[i]) THEN Units(i) ELSE Ref!Unit(i, 0)

TableBytes == FlattenSeq([i \in 1 .. Len(table) |-> Entry(i)]) \o <<<<0>>>>

memr8(a) == IF a + 1 \in DOMAIN TableBytes THEN TableBytes[a + 1] ELSE <<a, "beyond">>

(* A byte read as a line count. *)
LineCount(a) == IF Len(memr8(a)) = 1 THEN memr8(a)[1] ELSE 0

(* A pointer: an entry, and an offset into its units. *)
Pointer(a) == <<memr8(a)[1], 0>>
On(p, n) == <<p[1], p[2] + n>>
Data(p, k) == <<p[1], (p[2] + k) \div Width, (p[2] + k) % Width>>

FromTable(a) == [k \in 1 .. Width |-> memr8(a + k - 1)]
FromData(p) == [k \in 1 .. Width |-> Data(p, k - 1)]

-----------------------------------------------------------------------------
(* setuphdma. *)
setuphdma == addr_inc' = 0 /\ line_counter' = 0 /\ hdmatype' = TRUE

SetUp(bit) ==
    /\ nexthdma' = bit
    /\ IF bit THEN setuphdma ELSE UNCHANGED <<addr_inc, line_counter, hdmatype>>
    /\ lines' = 0 /\ moved' = <<>>
    /\ UNCHANGED <<table, indirect, count>>

(* A frame begins. *)
starthdma == SetUp(curhdma) /\ UNCHANGED curhdma

(* A write to $420C takes effect on the frame under way only where c_dma.c *)
(* has found games to need it.                                             *)
reg420Cw ==
    \E bit \in BOOLEAN :
        /\ curhdma' = bit
        /\ \/ SetUp(bit)
           \/ UNCHANGED <<table, indirect, nexthdma, line_counter, addr_inc, count, hdmatype, lines, moved>>

(* A state that is loaded ends HDMA for the frame (zstate.c). *)
EndedByLoad ==
    /\ nexthdma' = FALSE /\ lines' = 0 /\ moved' = <<>>
    /\ UNCHANGED <<table, indirect, curhdma, line_counter, addr_inc, count, hdmatype>>

-----------------------------------------------------------------------------
NeedsEntry == line_counter % Half = 0
Repeating(counter) == counter >= Half

(* A count of 0x80 is 128 lines of one unit. *)
TakesUnitALine(counter) == counter > Half

(* Past the unit of an entry that did not repeat; past a pointer. *)
SkipsAlways == IF ~hdmatype THEN addr_inc + Width ELSE addr_inc
SkipsUnit == IF ~hdmatype /\ ~Repeating(line_counter) THEN addr_inc + Width ELSE addr_inc
SkipsPointer == IF ~hdmatype THEN addr_inc + 2 ELSE addr_inc

(* The table ends: the channel's bit is flipped. *)
TableEnds(a) ==
    /\ LineCount(a) = 0
    /\ nexthdma' = ~nexthdma
    /\ line_counter' = 0 /\ addr_inc' = a + 1 /\ moved' = <<>>

CountsFrom(from) == line_counter' = from - 1

(* dohdma, the table holding the data. *)
Direct ==
    /\ ~indirect
    /\ UNCHANGED count
    /\ \/ /\ NeedsEntry /\ hdmatype' = FALSE
          /\ LET a == SkipsUnit IN
             \/ TableEnds(a)
             \/ /\ LineCount(a) # 0 /\ UNCHANGED nexthdma
                /\ CountsFrom(LineCount(a))
                /\ moved' = FromTable(a + 1)
                /\ addr_inc' = a + 1 + (IF TakesUnitALine(LineCount(a)) THEN Width ELSE 0)
       \/ /\ ~NeedsEntry /\ CountsFrom(line_counter) /\ UNCHANGED <<nexthdma, hdmatype>>
          /\ \/ Repeating(line_counter) /\ moved' = FromTable(addr_inc) /\ addr_inc' = addr_inc + Width
             \/ ~Repeating(line_counter) /\ moved' = <<>> /\ UNCHANGED addr_inc

(* indirectaddr, the table holding pointers to it. *)
Indirect ==
    /\ indirect
    /\ \/ /\ NeedsEntry /\ hdmatype' = FALSE
          /\ LET a == SkipsPointer IN
             \/ TableEnds(a) /\ count' = Pointer(a + 1)
             \/ /\ LineCount(a) # 0 /\ UNCHANGED nexthdma
                /\ CountsFrom(LineCount(a))
                /\ moved' = FromData(Pointer(a + 1))
                /\ addr_inc' = a + 1
                /\ count' = On(Pointer(a + 1), IF TakesUnitALine(LineCount(a)) THEN Width ELSE 0)
       \/ /\ ~NeedsEntry /\ CountsFrom(line_counter) /\ UNCHANGED <<nexthdma, hdmatype, addr_inc>>
          /\ \/ Repeating(line_counter) /\ moved' = FromData(count) /\ count' = On(count, Width)
             \/ ~Repeating(line_counter) /\ moved' = <<>> /\ UNCHANGED count

exechdma ==
    /\ nexthdma
    /\ Direct \/ Indirect
    /\ lines' = lines + 1
    /\ UNCHANGED <<table, indirect, curhdma>>

-----------------------------------------------------------------------------
HdmaInit ==
    /\ table \in Tables /\ indirect \in Indirects
    /\ curhdma = FALSE /\ nexthdma = FALSE /\ hdmatype = FALSE
    /\ line_counter = 0 /\ addr_inc = 0 /\ count = <<0, 0>>
    /\ lines = 0 /\ moved = <<>>

HdmaNext == starthdma \/ reg420Cw \/ EndedByLoad \/ exechdma

HdmaSpec == HdmaInit /\ [][HdmaNext]_hdmaVars

-----------------------------------------------------------------------------
HdmaTypeOK ==
    /\ table \in Tables /\ indirect \in Indirects
    /\ curhdma \in BOOLEAN /\ nexthdma \in BOOLEAN /\ hdmatype \in BOOLEAN
    /\ line_counter \in 0 .. 2 * Half - 1 /\ addr_inc \in 0 .. Len(TableBytes)
    /\ lines \in Nat

(* On every scanline the channel moves what its table has for that line,   *)
(* entry after entry, and it is off once the table has ended: the channel, *)
(* byte by byte, implements HdmaTable.                                     *)
WalksTable == Ref!TableSpec
=============================================================================
