------------------------------- MODULE Patch -------------------------------
(***************************************************************************)
(* Applying an IPS patch to a ROM as it is loaded (patch.c).  A patch is a *)
(* magic word and records, each a place, a length and that many bytes, or  *)
(* a length of zero, a run length and one byte; a marker in a place ends   *)
(* it.  The reader refills a buffer and answers -1 from the end on, which  *)
(* comes early when the file is cut off or its directory overstates it.    *)
(* A place and a length are one digit here, the magic word one symbol.     *)
(***************************************************************************)
EXTENDS Integers, Sequences

CONSTANTS
    Patches,          \* the patches there may be, after the magic word
    Excess,         \* by how much a directory overstates or understates one
    Marker,         \* the place that ends a patch ("EOF")
    Buffer,         \* BUFFER_SIZE
    Headers,        \* sizes of the copier header that places count from
    maxromspace,
    Original,       \* a byte of the ROM no patch wrote, told apart from all others
    FF              \* (unsigned char)-1

ASSUME PatchAssumption ==
    /\ Buffer \in Nat \ {0} /\ maxromspace \in Nat \ {0}
    /\ Excess \subseteq Int /\ Headers \subseteq Nat
    /\ \A p \in Patches : p \in Seq(Nat \ {Original})

VARIABLES
    file, file_size, sub,       \* the patch, the size it is said to have, the header
    processed,                  \* bytes read
    at,                         \* what is read next
    location, left, newVal,     \* the record under way
    rom, last, curromspace

patchVars == <<file, file_size, sub, processed, at, location, left, newVal, rom, last, curromspace>>

(* IPSget: the buffer is refilled only while file_size is not reached. *)
Available(p) == p < Len(file) /\ ~(p > 0 /\ p % Buffer = 0 /\ p = file_size)
IPSget(p) == IF Available(p) THEN file[p + 1] ELSE -1
Read(n) == processed' = processed + n
ReadOne == Read(IF Available(processed) THEN 1 ELSE 0)

(* Whether a byte that had to come did not. *)
CutOffNever(byte) == FALSE
CutOff(byte) == byte < 0

Same == UNCHANGED <<file, file_size, sub>>
Finish == at' = "done" /\ UNCHANGED <<location, left, newVal, rom, last>>

Adjusted == IF last >= curromspace THEN last + 1 ELSE curromspace

Location ==
    /\ at = "record" /\ Same /\ UNCHANGED curromspace
    /\ IF processed >= file_size THEN Finish /\ UNCHANGED processed
       ELSE /\ ReadOne
            /\ IF CutOff(IPSget(processed)) \/ IPSget(processed) = Marker THEN Finish
               ELSE /\ location' = IPSget(processed) - sub
                    /\ at' = "length" /\ UNCHANGED <<left, newVal, rom, last>>

RecordLength ==
    /\ at = "length" /\ Same /\ ReadOne /\ UNCHANGED curromspace
    /\ IF CutOff(IPSget(processed)) THEN Finish
       ELSE /\ left' = IPSget(processed)
            /\ at' = IF left' = 0 THEN "run length" ELSE "bytes"
            /\ UNCHANGED <<location, newVal, rom, last>>

(* The byte of a run is not checked: past the end it is FF. *)
RunLength ==
    /\ at = "run length" /\ Same /\ UNCHANGED curromspace
    /\ IF CutOff(IPSget(processed)) THEN Finish /\ ReadOne
       ELSE /\ left' = IPSget(processed)
            /\ newVal' = IF Available(processed + 1) THEN IPSget(processed + 1) ELSE FF
            /\ Read(IF Available(processed + 1) THEN 2 ELSE 1)
            /\ at' = "run"
            /\ UNCHANGED <<location, rom, last>>

(* One byte of a record is put where it goes; a place before the ROM is    *)
(* the header's, one past it ends the patch.                               *)
Put(byte) ==
    IF location < 0 THEN UNCHANGED <<rom, last>>
    ELSE /\ rom' = [rom EXCEPT ![location] = byte]
         /\ last' = IF location > last THEN location ELSE last

OutsideNever == location > maxromspace
Outside == location >= maxromspace

Literal ==
    /\ at = "bytes" /\ left > 0 /\ Same /\ UNCHANGED curromspace
    /\ IF Outside THEN Finish /\ UNCHANGED processed
       ELSE /\ ReadOne
            /\ Put(IF Available(processed) THEN IPSget(processed) ELSE FF)
            /\ location' = location + 1 /\ left' = left - 1
            /\ UNCHANGED <<at, newVal>>

Run ==
    /\ at = "run" /\ left > 0 /\ Same /\ UNCHANGED <<processed, curromspace>>
    /\ IF Outside THEN Finish
       ELSE /\ Put(newVal)
            /\ location' = location + 1 /\ left' = left - 1
            /\ UNCHANGED <<at, newVal>>

RecordEnds ==
    /\ at \in {"bytes", "run"} /\ left <= 0
    /\ at' = "record"
    /\ UNCHANGED <<file, file_size, sub, processed, location, left, newVal, rom, last, curromspace>>

(* IPSDone: a ROM that was written past its end has grown. *)
IPSDone ==
    /\ at = "done" /\ at' = "patched"
    /\ curromspace' = Adjusted
    /\ UNCHANGED <<file, file_size, sub, processed, location, left, newVal, rom, last>>

(* A game is loaded, and there is a patch with the magic word for it. *)
PatchUsingIPS ==
    /\ at = "off" /\ at' = "record"
    /\ file' \in Patches /\ sub' \in Headers
    /\ \E n \in Excess : file_size' = Len(file') + n
    /\ UNCHANGED <<processed, location, left, newVal, rom, last, curromspace>>

PatchInit ==
    /\ file = <<>> /\ file_size = 0 /\ sub = 0 /\ processed = 0
    /\ at = "off" /\ location = 0 /\ left = 0 /\ newVal = FF
    /\ rom = [x \in 0 .. maxromspace - 1 |-> Original] /\ last = 0 /\ curromspace = 1

PatchStep == Location \/ RecordLength \/ RunLength \/ Literal \/ Run \/ RecordEnds \/ IPSDone
PatchNext == PatchUsingIPS \/ PatchStep

PatchSpec == PatchInit /\ [][PatchNext]_patchVars /\ WF_patchVars(PatchStep)

-----------------------------------------------------------------------------
(* The records of a patch, read as a whole. *)

(* Where the record at p ends, past the file when it is cut off. *)
After(p) == IF p + 1 > Len(file) THEN p + 2
            ELSE IF file[p + 1] # 0 THEN p + 2 + file[p + 1] ELSE p + 4

Whole ==
    LET fits[p \in 1 .. Len(file) + 1] ==
          p = Len(file) + 1 \/ file[p] = Marker
          \/ (After(p) <= Len(file) + 1 /\ fits[After(p)])
    IN  fits[1]

(* What its records say, in order: a byte and its place. *)
RecordAt(p) ==
    IF file[p + 1] # 0
    THEN [k \in 1 .. file[p + 1] |-> [place |-> file[p] - sub + k - 1, byte |-> file[p + 1 + k]]]
    ELSE [k \in 1 .. file[p + 2] |-> [place |-> file[p] - sub + k - 1, byte |-> file[p + 3]]]

Said ==
    LET from[p \in 1 .. Len(file) + 1] ==
          IF p = Len(file) + 1 \/ file[p] = Marker \/ After(p) > Len(file) + 1 THEN <<>>
          ELSE RecordAt(p) \o from[After(p)]
    IN  from[1]

(* They count up to the first that lies past the largest ROM. *)
Counts(k) == \A j \in 1 .. k : Said[j].place < maxromspace

AsSaid(x) ==
    LET writes == {k \in DOMAIN Said : Said[k].place = x /\ Counts(k)}
    IN  IF writes = {} THEN Original
        ELSE Said[CHOOSE k \in writes : \A j \in writes : j <= k].byte

PatchTypeOK ==
    /\ processed \in 0 .. Len(file)
    /\ at \in {"off", "record", "length", "run length", "bytes", "run", "done", "patched"}
    /\ location \in Int /\ left \in Int
    /\ DOMAIN rom = 0 .. maxromspace - 1 /\ last \in Nat /\ curromspace \in Nat

(* A patch that is all there changes the ROM to what its records say, one  *)
(* after the other, and no byte besides, and the ROM ends where it must.   *)
PatchedAsSaid ==
    at = "patched" /\ Whole /\ file_size = Len(file)
        => /\ \A x \in DOMAIN rom : rom[x] = AsSaid(x)
           /\ \A x \in 1 .. maxromspace :
                 x < curromspace <=> \E y \in DOMAIN rom : y >= x /\ AsSaid(y) # Original

(* However a patch is cut off, and whatever size it claims, applying it    *)
(* comes to an end (patch.c:167: the reader once "never reached            *)
(* file_size").                                                            *)
PatchEnds == at # "off" ~> at = "patched"
=============================================================================
