----------------------------- MODULE SoundClock -----------------------------
(***************************************************************************)
(* How many samples a drawn frame owes the sound card (unix/audio.c).  The *)
(* console draws lo/hi frames per sample, which is no whole number, so     *)
(* what a frame cannot pay is carried to the next one in balance.  All     *)
(* three back ends keep this account with the same three statements; a     *)
(* sample stands for a pair of them when the sound is stereo.              *)
(***************************************************************************)
EXTENDS Integers

CONSTANTS
    HI,         \* sample_control.hi
    LO,         \* sample_control.lo, which is not zero once it is set
    FrameLimit  \* bound: frames drawn in one behaviour

ASSUME ClockAssumption == HI \in Nat /\ LO \in Nat \ {0} /\ FrameLimit \in Nat

VARIABLES
    balance,    \* sample_control.balance: what is owed, in LO-ths of a sample
    drawn,      \* frames drawn with the sound on
    paid,       \* frames whose samples were asked for
    owed,       \* samples asked for since the account was opened
    rendered    \* samples rendered since then

clock == <<balance, drawn, paid, owed>>

(* InitSampleControl: the first frame is owed at once. *)
ClockInit == balance = HI /\ drawn = 0 /\ paid = 0 /\ owed = 0 /\ rendered = 0

Due == balance \div LO

(* Variant: the part of a sample that is left over is not carried on. *)
PayRounded == /\ drawn < FrameLimit
              /\ balance' = HI
              /\ drawn' = drawn + 1
              /\ paid' = paid + 1
              /\ owed' = owed + Due

(* A frame that takes its samples, and one that leaves the account alone. *)
Pay == /\ drawn < FrameLimit
       /\ balance' = (balance % LO) + HI
       /\ drawn' = drawn + 1
       /\ paid' = paid + 1
       /\ owed' = owed + Due

SkipFrame == /\ drawn < FrameLimit
             /\ drawn' = drawn + 1
             /\ UNCHANGED <<balance, paid, owed>>

-----------------------------------------------------------------------------
ClockTypeOK == /\ balance \in Nat /\ drawn \in Nat /\ paid \in Nat
               /\ owed \in Nat /\ rendered \in Nat

(* However many frames have asked for their samples, the samples handed out  *)
(* are the whole part of what those frames are worth: rounding never adds up *)
(* to drift between picture and sound (the three statements of audio.c:235). *)
NoDrift == /\ owed * LO <= paid * HI
           /\ paid * HI < (owed + 1) * LO
=============================================================================
