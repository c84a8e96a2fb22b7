-------------------------- MODULE SaveFilesProofs --------------------------
(***************************************************************************)
(* What a game leaves on disk, for any number of slots, any countdown, any *)
(* settings and any contents.                                              *)
(***************************************************************************)
EXTENDS SaveFiles, TLAPS

-----------------------------------------------------------------------------
(* Operations are short lists of tasks.  All the proofs need of them is    *)
(* what is still to come, and that the list has the shape it was begun     *)
(* with: the halves of a write come first, an arrival last, and a name     *)
(* after every change of it.                                               *)
Tasks == {"sram", "sram_data", "state", "state_data", "second", "name", "load", "open", "gui", "closed"}
Lists == Seq(Tasks)

In(x, s) == \E i \in 1 .. Len(s) : s[i] = x
Later(x, s) == \E i \in 2 .. Len(s) : s[i] = x

Firsts == {"sram_data", "state_data", "open"}
Lasts == {"gui", "closed"}

Shape(s) ==
    /\ s \in Lists
    /\ \A i \in 1 .. Len(s) :
         /\ s[i] \in Firsts => i = 1
         /\ s[i] \in Lasts => i = Len(s)
         /\ s[i] = "second" => \E j \in 1 .. Len(s) : j > i /\ s[j] = "name"

LEMMA HeadFacts ==
    ASSUME NEW s \in Lists, s # <<>>
    PROVE  /\ Head(s) = s[1] /\ Len(s) \in Nat /\ Len(s) >= 1
           /\ \A x : In(x, s) <=> x = Head(s) \/ Later(x, s)
<1>1. Head(s) = s[1] /\ Len(s) \in Nat /\ Len(s) >= 1
  BY DEF Lists
<1> QED
  BY <1>1 DEF In, Later

LEMMA TailFacts ==
    ASSUME NEW s \in Lists, s # <<>>
    PROVE  /\ Tail(s) \in Lists /\ Len(Tail(s)) = Len(s) - 1
           /\ \A i \in 1 .. Len(s) - 1 : Tail(s)[i] = s[i + 1]
           /\ \A x : In(x, Tail(s)) <=> Later(x, s)
<1> DEFINE t == Tail(s)
<1>1. /\ t \in Lists /\ Len(t) = Len(s) - 1 /\ Len(s) \in Nat /\ Len(s) > 0
      /\ \A i \in 1 .. Len(t) : t[i] = s[i + 1]
  BY DEF Lists
<1> HIDE DEF t
<1>2. ASSUME NEW x PROVE In(x, t) <=> Later(x, s)
  <2>1. ASSUME In(x, t) PROVE Later(x, s)
    <3>1. PICK i \in 1 .. Len(t) : t[i] = x
      BY <2>1 DEF In
    <3>2. i + 1 \in 2 .. Len(s) /\ s[i + 1] = x
      BY <1>1, <3>1
    <3> QED
      BY <3>2 DEF Later
  <2>2. ASSUME Later(x, s) PROVE In(x, t)
    <3>1. PICK i \in 2 .. Len(s) : s[i] = x
      BY <2>2 DEF Later
    <3>2. i - 1 \in 1 .. Len(t) /\ t[i - 1] = s[(i - 1) + 1] /\ (i - 1) + 1 = i
      BY <1>1, <3>1
    <3> QED
      BY <3>1, <3>2 DEF In
  <2> QED
    BY <2>1, <2>2
<1> QED
  BY <1>1, <1>2 DEF t

LEMMA ReplaceFacts ==
    ASSUME NEW s \in Lists, s # <<>>, NEW y \in Tasks
    PROVE  LET u == <<y>> \o Tail(s) IN
           /\ u \in Lists /\ u # <<>> /\ Len(u) = Len(s) /\ u[1] = y
           /\ \A i \in 2 .. Len(s) : u[i] = s[i]
           /\ \A x : Later(x, u) <=> Later(x, s)
<1> DEFINE u == <<y>> \o Tail(s)
<1>1. u \in Lists
  <2>1. <<y>> \in Lists /\ Tail(s) \in Lists
    BY DEF Lists
  <2> QED
    BY <2>1 DEF Lists
<1>2. u # <<>> /\ Len(u) = Len(s) /\ u[1] = y
  BY DEF Lists
<1>3. \A i \in 2 .. Len(s) : u[i] = s[i]
  BY DEF Lists
<1> HIDE DEF u
<1>4. \A x : Later(x, u) <=> Later(x, s)
  BY <1>2, <1>3 DEF Later
<1> QED
  BY <1>1, <1>2, <1>3, <1>4 DEF u

LEMMA Nothing == <<>> \in Lists /\ (\A s \in Lists : <<>> \o s = s) /\ Len(<<>>) = 0
BY DEF Lists

LEMMA ShapeTail ==
    ASSUME NEW s, Shape(s), s # <<>>
    PROVE  Shape(Tail(s)) /\ \A x \in Firsts : ~In(x, Tail(s))
<1> DEFINE t == Tail(s)
<1>1. /\ t \in Lists /\ Len(t) = Len(s) - 1 /\ Len(s) \in Nat
      /\ \A i \in 1 .. Len(s) - 1 : t[i] = s[i + 1]
  BY TailFacts, HeadFacts DEF Shape
<1> HIDE DEF t
<1>2. ASSUME NEW i \in 1 .. Len(t)
      PROVE  /\ t[i] \notin Firsts
             /\ t[i] \in Lasts => i = Len(t)
             /\ t[i] = "second" => \E j \in 1 .. Len(t) : j > i /\ t[j] = "name"
  <2>1. i + 1 \in 1 .. Len(s) /\ t[i] = s[i + 1] /\ i + 1 # 1
    BY <1>1
  <2>2. t[i] \notin Firsts /\ (t[i] \in Lasts => i = Len(t))
    BY <1>1, <2>1 DEF Shape
  <2>3. ASSUME t[i] = "second" PROVE \E j \in 1 .. Len(t) : j > i /\ t[j] = "name"
    <3>1. PICK j \in 1 .. Len(s) : j > i + 1 /\ s[j] = "name"
      BY <2>1, <2>3 DEF Shape
    <3>2. j - 1 \in 1 .. Len(s) - 1 /\ j - 1 > i /\ (j - 1) + 1 = j
      BY <3>1
    <3>3. t[j - 1] = s[(j - 1) + 1]
      BY <1>1, <3>2
    <3> QED
      BY <1>1, <3>1, <3>2, <3>3
  <2> QED
    BY <2>2, <2>3
<1>3. Shape(t)
  BY <1>1, <1>2 DEF Shape
<1>4. \A x \in Firsts : ~In(x, t)
  BY <1>2 DEF In
<1> QED
  BY <1>3, <1>4 DEF t

LEMMA ShapeReplace ==
    ASSUME NEW s, Shape(s), s # <<>>, Head(s) # "second", NEW y \in {"sram_data", "state_data"}
    PROVE  Shape(<<y>> \o Tail(s))
<1> DEFINE u == <<y>> \o Tail(s)
<1>0. s \in Lists /\ y \in Tasks
  BY DEF Shape, Tasks
<1>1. PICK n \in Nat : n = Len(s)
  BY <1>0, HeadFacts
<1>2. u \in Lists /\ Len(u) = n /\ u[1] = y /\ \A i \in 2 .. n : u[i] = s[i]
  BY <1>0, <1>1, ReplaceFacts
<1> HIDE DEF u
<1>3. ASSUME NEW i \in 1 .. n
      PROVE  /\ u[i] \in Firsts => i = 1
             /\ u[i] \in Lasts => i = n
             /\ u[i] = "second" => \E j \in 1 .. n : j > i /\ u[j] = "name"
  <2>1. CASE i = 1
    BY <1>2, <2>1 DEF Firsts, Lasts
  <2>2. CASE i # 1
    <3>0. i \in 2 .. n
      BY <2>2, SMT
    <3>1. i \in 2 .. n /\ u[i] = s[i] /\ i \in 1 .. n
      BY <1>2, <3>0
    <3>2. ASSUME s[i] = "second" PROVE \E j \in 1 .. n : j > i /\ u[j] = "name"
      <4>1. PICK j \in 1 .. n : j > i /\ s[j] = "name"
        BY <1>1, <3>1, <3>2 DEF Shape
      <4>2. j \in 2 .. n
        BY <3>0, <4>1, SMT
      <4> QED
        BY <1>2, <4>1, <4>2
    <3> QED
      BY <1>1, <3>1, <3>2 DEF Shape
  <2> QED
    BY <2>1, <2>2
<1>4. Shape(u)
  BY <1>2, <1>3 DEF Shape
<1> QED
  BY <1>4 DEF u

(* The lists operations begin with. *)
LEMMA KeyPlans ==
    /\ Shape(<<>>) /\ (\A x : ~In(x, <<>>))
    /\ Shape(<<"sram">>) /\ \A x : In(x, <<"sram">>) <=> x = "sram"
    /\ Shape(<<"state">>) /\ \A x : In(x, <<"state">>) <=> x = "state"
    /\ Shape(<<"load">>) /\ \A x : In(x, <<"load">>) <=> x = "load"
<1>1. Shape(<<>>) /\ \A x : ~In(x, <<>>)
  BY DEF Shape, Lists, In
<1>2. Shape(<<"sram">>) /\ \A x : In(x, <<"sram">>) <=> x = "sram"
  BY DEF Shape, Lists, Tasks, In, Firsts, Lasts
<1>3. Shape(<<"state">>) /\ \A x : In(x, <<"state">>) <=> x = "state"
  BY DEF Shape, Lists, Tasks, In, Firsts, Lasts
<1>4. Shape(<<"load">>) /\ \A x : In(x, <<"load">>) <=> x = "load"
  BY DEF Shape, Lists, Tasks, In, Firsts, Lasts
<1> QED
  BY <1>1, <1>2, <1>3, <1>4

LEMMA GuiPlan ==
    LET s == <<"sram">> \o SecondState \o <<"gui">>
    IN  /\ Shape(s) /\ In("sram", s) /\ (In("second", s) => "auto" \in settings)
        /\ \A x \in Firsts : ~In(x, s)
<1>1. CASE "auto" \in settings
  <2> DEFINE s == <<"sram">> \o <<"second", "state", "name">> \o <<"gui">>
  <2>1. s \in Lists
    BY DEF Lists, Tasks
  <2>2. Len(s) = 5 /\ s[1] = "sram" /\ s[2] = "second" /\ s[3] = "state" /\ s[4] = "name" /\ s[5] = "gui"
    OBVIOUS
  <2> HIDE DEF s
  <2>3. \A i \in 1 .. Len(s) : i \in {1, 2, 3, 4, 5}
    BY <2>2
  <2>4. Shape(s) /\ In("sram", s) /\ \A x \in Firsts : ~In(x, s)
    BY <2>1, <2>2, <2>3 DEF Shape, Firsts, Lasts, In
  <2>5. s = <<"sram">> \o SecondState \o <<"gui">>
    BY <1>1 DEF SecondState, s
  <2> QED
    BY <1>1, <2>4, <2>5
<1>2. CASE "auto" \notin settings
  <2> DEFINE s == <<"sram">> \o <<>> \o <<"gui">>
  <2>1. s \in Lists
    BY DEF Lists, Tasks
  <2>2. Len(s) = 2 /\ s[1] = "sram" /\ s[2] = "gui"
    OBVIOUS
  <2> HIDE DEF s
  <2>3. \A i \in 1 .. Len(s) : i \in {1, 2}
    BY <2>2
  <2>4. Shape(s) /\ In("sram", s) /\ ~In("second", s) /\ \A x \in Firsts : ~In(x, s)
    BY <2>1, <2>2, <2>3 DEF Shape, Firsts, Lasts, In
  <2>5. s = <<"sram">> \o SecondState \o <<"gui">>
    BY <1>2 DEF SecondState, s
  <2> QED
    BY <2>4, <2>5
<1> QED
  BY <1>1, <1>2

LEMMA ExitPlan ==
    ASSUME NEW first \in {SecondState, <<>>}
    PROVE  LET s == first \o <<"sram", "closed">>
           IN  /\ Shape(s) /\ In("sram", s) /\ (In("second", s) => "auto" \in settings)
               /\ \A x \in Firsts : ~In(x, s)
<1>1. CASE first = <<"second", "state", "name">> /\ "auto" \in settings
  <2> DEFINE s == <<"second", "state", "name">> \o <<"sram", "closed">>
  <2>1. s \in Lists
    BY DEF Lists, Tasks
  <2>2. Len(s) = 5 /\ s[1] = "second" /\ s[2] = "state" /\ s[3] = "name" /\ s[4] = "sram" /\ s[5] = "closed"
    OBVIOUS
  <2> HIDE DEF s
  <2>3. \A i \in 1 .. Len(s) : i \in {1, 2, 3, 4, 5}
    BY <2>2
  <2>4. Shape(s) /\ In("sram", s) /\ \A x \in Firsts : ~In(x, s)
    BY <2>1, <2>2, <2>3 DEF Shape, Firsts, Lasts, In
  <2>5. s = first \o <<"sram", "closed">>
    BY <1>1 DEF s
  <2> QED
    BY <1>1, <2>4, <2>5
<1>2. CASE first = <<>>
  <2> DEFINE s == <<>> \o <<"sram", "closed">>
  <2>1. s \in Lists
    BY DEF Lists, Tasks
  <2>2. Len(s) = 2 /\ s[1] = "sram" /\ s[2] = "closed"
    OBVIOUS
  <2> HIDE DEF s
  <2>3. \A i \in 1 .. Len(s) : i \in {1, 2}
    BY <2>2
  <2>4. Shape(s) /\ In("sram", s) /\ ~In("second", s) /\ \A x \in Firsts : ~In(x, s)
    BY <2>1, <2>2, <2>3 DEF Shape, Firsts, Lasts, In
  <2>5. s = first \o <<"sram", "closed">>
    BY <1>2 DEF s
  <2> QED
    BY <2>4, <2>5
<1> QED
  BY <1>1, <1>2 DEF SecondState

LEMMA StartPlan ==
    LET s == <<"open">> \o SecondLoad
    IN  /\ Shape(s) /\ In("open", s) /\ s # <<>> /\ Head(s) = "open"
        /\ (In("second", s) => "auto" \in settings)
        /\ \A x \in {"gui", "closed", "sram", "sram_data", "state_data"} : ~In(x, s)
<1>1. CASE "auto" \in settings
  <2> DEFINE s == <<"open">> \o <<"second", "load", "name">>
  <2>1. s \in Lists
    BY DEF Lists, Tasks
  <2>2. Len(s) = 4 /\ s[1] = "open" /\ s[2] = "second" /\ s[3] = "load" /\ s[4] = "name"
    OBVIOUS
  <2>0. s # <<>> /\ Head(s) = "open"
    OBVIOUS
  <2> HIDE DEF s
  <2>3. \A i \in 1 .. Len(s) : i \in {1, 2, 3, 4}
    BY <2>2
  <2>4. Shape(s) /\ In("open", s) /\ \A x \in {"gui", "closed", "sram", "sram_data", "state_data"} : ~In(x, s)
    BY <2>1, <2>2, <2>3 DEF Shape, Firsts, Lasts, In
  <2>5. s = <<"open">> \o SecondLoad
    BY <1>1 DEF SecondLoad, s
  <2> QED
    BY <1>1, <2>0, <2>4, <2>5
<1>2. CASE "auto" \notin settings
  <2> DEFINE s == <<"open">> \o <<>>
  <2>1. s \in Lists
    BY DEF Lists, Tasks
  <2>2. Len(s) = 1 /\ s[1] = "open"
    OBVIOUS
  <2>0. s # <<>> /\ Head(s) = "open"
    OBVIOUS
  <2> HIDE DEF s
  <2>3. \A i \in 1 .. Len(s) : i \in {1}
    BY <2>2
  <2>4. Shape(s) /\ In("open", s) /\ \A x \in {"second", "gui", "closed", "sram", "sram_data", "state_data"} : ~In(x, s)
    BY <2>1, <2>2, <2>3 DEF Shape, Firsts, Lasts, In
  <2>5. s = <<"open">> \o SecondLoad
    BY <1>2 DEF SecondLoad, s
  <2> QED
    BY <2>0, <2>4, <2>5
<1> QED
  BY <1>1, <1>2

-----------------------------------------------------------------------------
(* What a task leaves of the list. *)
LEMMA Done ==
    ASSUME Shape(todo), todo # <<>>, Then(<<>>)
    PROVE  /\ Shape(todo)'
           /\ \A x \in Firsts : ~In(x, todo')
           /\ \A x : In(x, todo) <=> x = Head(todo) \/ In(x, todo')
           /\ Head(todo) \in Lasts => todo' = <<>>
           /\ Head(todo) = "second" => In("name", todo')
<1>0. todo \in Lists
  BY DEF Shape
<1>1. todo' = Tail(todo)
  BY <1>0, TailFacts, Nothing DEF Then
<1>2. Shape(todo)' /\ \A x \in Firsts : ~In(x, todo')
  BY <1>1, ShapeTail
<1>3. \A x : In(x, todo) <=> x = Head(todo) \/ In(x, todo')
  BY <1>0, <1>1, TailFacts, HeadFacts
<1>4. ASSUME Head(todo) \in Lasts PROVE todo' = <<>>
  <2>0. todo[1] \in Lasts /\ Len(todo) \in Nat /\ Len(todo) >= 1
    BY <1>0, <1>4, HeadFacts
  <2>2. 1 \in 1 .. Len(todo)
    BY <2>0
  <2>1. Len(todo) = 1
    BY <2>0, <2>2, Zenon DEF Shape
  <2> QED
    BY <1>0, <1>1, <2>1 DEF Lists
<1>5. ASSUME Head(todo) = "second" PROVE In("name", todo')
  <2>1. todo[1] = "second" /\ Len(todo) \in Nat /\ Len(todo) >= 1
    BY <1>0, <1>5, HeadFacts
  <2>2. PICK j \in 1 .. Len(todo) : j > 1 /\ todo[j] = "name"
    BY <2>1 DEF Shape
  <2>3. Later("name", todo)
    BY <2>2 DEF Later
  <2> QED
    BY <1>0, <1>1, <2>3, TailFacts
<1> QED
  BY <1>2, <1>3, <1>4, <1>5

LEMMA HalfDone ==
    ASSUME Shape(todo), todo # <<>>, Head(todo) # "second",
           NEW y \in {"sram_data", "state_data"}, Then(<<y>>)
    PROVE  /\ Shape(todo)' /\ todo' # <<>> /\ Head(todo') = y
           /\ \A x : In(x, todo) <=> x = Head(todo) \/ Later(x, todo)
           /\ \A x : In(x, todo') <=> x = y \/ Later(x, todo)
           /\ \A x \in Firsts : ~Later(x, todo)
<1>0. todo \in Lists /\ y \in Tasks
  BY DEF Shape, Tasks
<1>1. todo' = <<y>> \o Tail(todo)
  BY DEF Then
<1>2. Shape(todo)'
  BY <1>1, ShapeReplace
<1>3. todo' \in Lists /\ todo' # <<>> /\ todo'[1] = y /\ \A x : Later(x, todo') <=> Later(x, todo)
  BY <1>0, <1>1, ReplaceFacts
<1>4. Head(todo') = y /\ \A x : In(x, todo') <=> x = y \/ Later(x, todo')
  BY <1>3, HeadFacts
<1>5. \A x : In(x, todo) <=> x = Head(todo) \/ Later(x, todo)
  BY <1>0, HeadFacts
<1>6. \A x \in Firsts : ~Later(x, todo)
  BY <1>0, TailFacts, ShapeTail
<1> QED
  BY <1>2, <1>3, <1>4, <1>5, <1>6

-----------------------------------------------------------------------------
(* Slots. *)
SlotSet == 0 .. Slots - 1

LEMMA Wraps ==
    ASSUME NEW x \in 0 .. 2 * Slots - 1
    PROVE  x % Slots = IF x < Slots THEN x ELSE x - Slots
BY SaveAssumption, SMT

LEMMA SlotFacts ==
    ASSUME current_zst \in SlotSet
    PROVE  /\ (current_zst + Inc) % Slots \in SlotSet
           /\ Inc = 0 => (current_zst + Inc) % Slots = current_zst
           /\ NextSlot \in SlotSet
           /\ SlotBack(NextSlot) = current_zst
<1>1. Inc \in {0, 1} /\ Slots \in Nat \ {0}
  BY SaveAssumption DEF Inc
<1>2. PICK m \in Int : m = current_zst + Inc
  BY <1>1 DEF SlotSet
<1>3. m \in 0 .. 2 * Slots - 1
  BY <1>1, <1>2 DEF SlotSet
<1>4. PICK n \in Int : n = m % Slots /\ n = IF m < Slots THEN m ELSE m - Slots
  BY <1>1, <1>3, Wraps
<1>5. n \in SlotSet /\ (Inc = 0 => n = current_zst)
  BY <1>1, <1>2, <1>3, <1>4 DEF SlotSet
<1>6. PICK k \in Int : k = n + Slots - Inc
  BY <1>1
<1>7. k \in 0 .. 2 * Slots - 1
  BY <1>1, <1>5, <1>6 DEF SlotSet
<1>8. k % Slots = IF k < Slots THEN k ELSE k - Slots
  BY <1>7, Wraps
<1>9. k % Slots = current_zst
  BY <1>1, <1>2, <1>3, <1>4, <1>6, <1>8 DEF SlotSet
<1> QED
  BY <1>2, <1>4, <1>5, <1>6, <1>9 DEF NextSlot, SlotBack

-----------------------------------------------------------------------------
(* Types; a console is never made of a torn file. *)
Settings == {"check", "auto", "load", "inc"}
Consoles == [play : Moments, sram : Srams \cup {Torn}]

TypeInv ==
    /\ power \in {"off", "game", "gui", "closed"}
    /\ console \in Consoles
    /\ sramb4save \in 0 .. Count /\ current_zst \in SlotSet
    /\ zss \in BOOLEAN /\ movie \in BOOLEAN /\ excused \in BOOLEAN
    /\ settings \in SUBSET Settings
    /\ srm \in Srams \cup {Torn, None}
    /\ states \in [Names -> Consoles \cup {Torn, None}]

LEMMA NamesOfSlots == SlotSet \subseteq Names /\ AutoFile \in Names /\ AutoFile \notin SlotSet
BY SaveAssumption DEF SlotSet, Names, AutoFile

LEMMA NameIsName == TypeInv => ZStateName \in Names
BY NamesOfSlots DEF TypeInv, ZStateName

LEMMA TypeInit == SaveInit => TypeInv
<1> SUFFICES ASSUME SaveInit PROVE TypeInv
  OBVIOUS
<1>1. console \in Consoles
  BY SaveAssumption DEF SaveInit, Consoles
<1>2. current_zst \in SlotSet /\ sramb4save \in 0 .. Count
  BY SaveAssumption DEF SaveInit, SlotSet
<1>3. settings \in SUBSET Settings
  BY SaveAssumption DEF SaveInit, Settings
<1>4. zss \in BOOLEAN /\ movie \in BOOLEAN /\ excused \in BOOLEAN
  BY DEF SaveInit
<1> QED
  BY <1>1, <1>2, <1>3, <1>4 DEF SaveInit, TypeInv

(* What of the types each kind of step can change. *)
LEMMA FoundOnDisk == TypeInv => OnDisk \in Srams \cup {Torn}
BY SaveAssumption DEF TypeInv, OnDisk

LEMMA TypeTask == TypeInv /\ Task => TypeInv'
<1> SUFFICES ASSUME TypeInv, Task PROVE TypeInv'
  OBVIOUS
<1>0. Count \in Nat \ {0, 1} /\ 0 \in 0 .. Count
  BY SaveAssumption
<1>1. CASE SaveSramData
  BY <1>0, <1>1 DEF SaveSramData, TypeInv
<1>2. CASE WriteSram
  <2>1. srm' \in Srams \cup {Torn, None}
    BY <1>2 DEF WriteSram, TypeInv, Consoles
  <2> QED
    BY <1>2, <2>1 DEF WriteSram, TypeInv
<1>3. CASE OpenSramFile
  <2>1. console' \in Consoles
    BY <1>3, FoundOnDisk DEF OpenSramFile, TypeInv, Consoles
  <2> QED
    BY <1>3, <2>1 DEF OpenSramFile, TypeInv
<1>4. CASE NameSecond
  BY <1>4 DEF NameSecond, TypeInv
<1>5. CASE ZstName
  <2>1. NameBack \in BOOLEAN
    BY DEF TypeInv, NameBack
  <2> QED
    BY <1>5, <2>1 DEF ZstName, TypeInv
<1>6. CASE StateSaver
  <2>1. current_zst' \in SlotSet
    BY <1>6, SlotFacts DEF StateSaver, TypeInv
  <2>2. states' \in [Names -> Consoles \cup {Torn, None}]
    BY <1>6 DEF StateSaver, TypeInv
  <2> QED
    BY <1>6, <2>1, <2>2 DEF StateSaver, TypeInv
<1>7. CASE WriteState
  <2>1. states' \in [Names -> Consoles \cup {Torn, None}]
    BY <1>7 DEF WriteState, TypeInv
  <2> QED
    BY <1>7, <2>1 DEF WriteState, TypeInv
<1>8. CASE MovieSaver
  <2>1. current_zst' \in SlotSet
    BY <1>8, SlotFacts DEF MovieSaver, TypeInv
  <2> QED
    BY <1>8, <2>1 DEF MovieSaver, TypeInv
<1>9. CASE StateLoader
  <2>1. \A s \in Consoles : Restore(s) => console' \in Consoles
    BY DEF Restore, Consoles, TypeInv
  <2>2. CASE movie
    <3>1. \A p \in Moments, s \in Srams : [play |-> p, sram |-> s] \in Consoles
      BY DEF Consoles
    <3>2. console' \in Consoles
      BY <1>9, <2>1, <2>2, <3>1 DEF StateLoader, TypeInv
    <3>3. excused' \in BOOLEAN
      BY <1>9, <2>2 DEF StateLoader, TypeInv, Restore, Restores
    <3> QED
      BY <1>9, <3>2, <3>3 DEF StateLoader, TypeInv
  <2>3. CASE ~movie /\ Refused(states[ZStateName])
    BY <1>9, <2>3 DEF StateLoader, TypeInv
  <2>4. CASE ~movie /\ ~Refused(states[ZStateName])
    <3>1. states[ZStateName] \in Consoles /\ states[ZStateName] # Torn
      BY <2>4, NameIsName DEF TypeInv, Refused
    <3>2. Restore(states[ZStateName])
      BY <1>9, <2>4, <3>1 DEF StateLoader
    <3>3. console' \in Consoles
      BY <2>1, <3>1, <3>2
    <3>4. excused' \in BOOLEAN
      BY <3>2 DEF Restore, Restores, TypeInv
    <3> QED
      BY <1>9, <3>3, <3>4 DEF StateLoader, TypeInv
  <2> QED
    BY <2>2, <2>3, <2>4
<1>10. CASE Arrive
  BY <1>10 DEF Arrive, TypeInv
<1> QED
  BY <1>1, <1>2, <1>3, <1>4, <1>5, <1>6, <1>7, <1>8, <1>9, <1>10 DEF Task

LEMMA TypeNext == TypeInv /\ [SaveNext]_saveVars => TypeInv'
<1> SUFFICES ASSUME TypeInv, [SaveNext]_saveVars PROVE TypeInv'
  OBVIOUS
<1>0. Count \in Nat \ {0, 1} /\ 0 \in 0 .. Count /\ Count \in 0 .. Count /\ 0 \in SlotSet
  BY SaveAssumption DEF SlotSet
<1>1. CASE Task
  BY <1>1, TypeTask
<1>2. CASE SaveKey \/ LoadKey \/ EnterGui \/ Exit
  BY <1>2 DEF SaveKey, LoadKey, EnterGui, Exit, Begin, TypeInv
<1>3. CASE PickSlot \/ LeaveGui \/ MovieStarts \/ MovieEnds
  BY <1>3 DEF PickSlot, LeaveGui, MovieStarts, MovieEnds, TypeInv, SlotSet
<1>4. CASE ToggleCheck
  <2>1. settings' \in SUBSET Settings
    BY <1>4 DEF ToggleCheck, TypeInv, Settings
  <2> QED
    BY <1>4, <2>1 DEF ToggleCheck, TypeInv
<1>5. CASE Start
  <2>1. console' \in Consoles
    BY <1>5, SaveAssumption DEF Start, Consoles
  <2>2. sramb4save' \in 0 .. Count /\ current_zst' \in SlotSet
    BY <1>0, <1>5 DEF Start, TypeInv
  <2> QED
    BY <1>5, <2>1, <2>2 DEF Start, TypeInv
<1>6. CASE GameWrites
  <2>1. console' \in Consoles
    BY <1>6 DEF GameWrites, TypeInv, Consoles
  <2> QED
    BY <1>0, <1>6, <2>1 DEF GameWrites, TypeInv
<1>7. CASE Frame
  <2>1. console' \in Consoles
    BY <1>7 DEF Frame, TypeInv, Consoles
  <2>2. sramb4save' \in 0 .. Count
    BY <1>0, <1>7 DEF Frame, CountsDown, TypeInv
  <2> QED
    BY <1>7, <2>1, <2>2 DEF Frame, TypeInv
<1>8. CASE Crash
  BY <1>0, <1>8 DEF Crash, TypeInv
<1>9. CASE UNCHANGED saveVars
  BY <1>9 DEF saveVars, TypeInv
<1> QED
  BY <1>1, <1>2, <1>3, <1>4, <1>5, <1>6, <1>7, <1>8, <1>9 DEF SaveNext, Player

LEMMA TypeAlways == SaveSpec => []TypeInv
BY TypeInit, TypeNext, PTL DEF SaveSpec

(* However a state file came to be cut short, a load refuses it: the       *)
(* console never becomes what a broken file holds (stateloader).           *)
THEOREM TornStatesNeverLoaded == SaveSpec => []TornStatesRefused
<1>1. TypeInv => TornStatesRefused
  BY SaveAssumption DEF TypeInv, Consoles, TornStatesRefused
<1> QED
  BY <1>1, TypeAlways, PTL

-----------------------------------------------------------------------------
(* The list of tasks.  An operation ends before its process does, and a    *)
(* game that is being opened is neither being left nor saved.              *)
TaskInv ==
    /\ Shape(todo)
    /\ power \notin {"game", "gui"} => todo = <<>>
    /\ In("open", todo) => \A x \in {"gui", "closed", "sram", "sram_data", "state_data"} : ~In(x, todo)

LEMMA TasksAre ==
    ASSUME Task, TaskInv
    PROVE  /\ todo # <<>> /\ power \in {"game", "gui"} /\ UNCHANGED settings
           /\ Then(<<>>) \/ (Doing("sram") /\ Then(<<"sram_data">>)) \/ (Doing("state") /\ Then(<<"state_data">>))
<1>1. todo # <<>> /\ UNCHANGED settings
  BY DEF Task, SaveSramData, WriteSram, OpenSramFile, NameSecond, ZstName, StateSaver, WriteState,
         MovieSaver, StateLoader, Arrive, Doing
<1>2. Then(<<>>) \/ (Doing("sram") /\ Then(<<"sram_data">>)) \/ (Doing("state") /\ Then(<<"state_data">>))
  BY DEF Task, SaveSramData, WriteSram, OpenSramFile, NameSecond, ZstName, StateSaver, WriteState,
         MovieSaver, StateLoader, Arrive
<1> QED
  BY <1>1, <1>2 DEF TaskInv

LEMMA TaskInvInit == SaveInit => TaskInv
BY KeyPlans DEF SaveInit, TaskInv

LEMMA TaskInvNext == TaskInv /\ [SaveNext]_saveVars => TaskInv'
<1> SUFFICES ASSUME TaskInv, [SaveNext]_saveVars PROVE TaskInv'
  OBVIOUS
<1>1. CASE Task
  <2>0. todo # <<>> /\ Shape(todo) /\ power \in {"game", "gui"}
    BY <1>1, TasksAre DEF TaskInv
  <2>1. CASE Then(<<>>)
    <3>1. Shape(todo)' /\ ~In("open", todo')
      BY <2>0, <2>1, Done DEF Firsts
    <3>2. power' \notin {"game", "gui"} => todo' = <<>>
      <4>1. CASE Arrive
        <5>1. Head(todo) \in Lasts
          BY <4>1 DEF Arrive, Doing, Lasts
        <5> QED
          BY <2>0, <2>1, <5>1, Done
      <4>2. CASE ~Arrive
        BY <1>1, <2>0, <4>2 DEF Task, SaveSramData, WriteSram, OpenSramFile, NameSecond, ZstName,
               StateSaver, WriteState, MovieSaver, StateLoader
      <4> QED
        BY <4>1, <4>2
    <3> QED
      BY <3>1, <3>2 DEF TaskInv
  <2>2. ASSUME NEW y \in {"sram_data", "state_data"}, Head(todo) \in {"sram", "state"}, Then(<<y>>)
        PROVE  TaskInv'
    <3>1. Shape(todo)' /\ ~In("open", todo')
      BY <2>0, <2>2, HalfDone DEF Firsts
    <3>2. ~Arrive
      BY <2>2 DEF Arrive, Doing
    <3>3. power' = power
      BY <1>1, <3>2 DEF Task, SaveSramData, WriteSram, OpenSramFile, NameSecond, ZstName,
             StateSaver, WriteState, MovieSaver, StateLoader
    <3> QED
      BY <2>0, <3>1, <3>3 DEF TaskInv
  <2> QED
    BY <1>1, <2>1, <2>2, TasksAre DEF Doing
<1>2. CASE SaveKey \/ LoadKey
  BY <1>2, KeyPlans DEF SaveKey, LoadKey, Begin, Idle, TaskInv
<1>3. CASE EnterGui
  BY <1>3, GuiPlan DEF EnterGui, Begin, Idle, TaskInv, Firsts
<1>4. CASE Exit
  <2>1. PICK first \in {SecondState, <<>>} : Begin(first \o <<"sram", "closed">>)
    BY <1>4 DEF Exit
  <2>2. Shape(first \o <<"sram", "closed">>) /\ ~In("open", first \o <<"sram", "closed">>)
    BY ExitPlan DEF Firsts
  <2> QED
    BY <1>4, <2>1, <2>2 DEF Exit, Begin, Idle, TaskInv
<1>5. CASE PickSlot \/ ToggleCheck \/ MovieStarts \/ MovieEnds \/ LeaveGui \/ GameWrites
  BY <1>5 DEF PickSlot, ToggleCheck, MovieStarts, MovieEnds, LeaveGui, GameWrites, Idle, TaskInv
<1>6. CASE Start
  BY <1>6, StartPlan DEF Start, TaskInv
<1>7. CASE Frame
  BY <1>7, KeyPlans DEF Frame, Idle, TaskInv
<1>8. CASE Crash
  BY <1>8, KeyPlans DEF Crash, TaskInv
<1>9. CASE UNCHANGED saveVars
  BY <1>9 DEF saveVars, TaskInv
<1> QED
  BY <1>1, <1>2, <1>3, <1>4, <1>5, <1>6, <1>7, <1>8, <1>9 DEF SaveNext, Player

-----------------------------------------------------------------------------
(* SRAM and its file.  A countdown at 1 is only ever seen by the save it   *)
(* sets off, none is left in the GUI or past the save on the way there, and*)
(* where no save is to come the file has what the console has.             *)
Saved == excused \/ console.sram = OnDisk

LeavingSaved == (In("gui", todo) \/ In("closed", todo)) /\ ~In("sram", todo)

Settled ==
    /\ ~In("sram_data", todo) /\ ~In("open", todo)
    /\ \/ power \in {"gui", "closed"}
       \/ power = "game" /\ "check" \in settings /\ sramb4save = 0
       \/ LeavingSaved

DiskInv ==
    /\ sramb4save = 1 => todo # <<>> /\ Head(todo) = "sram" /\ "check" \in settings
    /\ power = "gui" => sramb4save = 0
    /\ LeavingSaved => sramb4save = 0
    /\ Settled => Saved

LEMMA DiskInit == SaveInit => DiskInv
<1>1. SaveInit => power = "off" /\ todo = <<>> /\ sramb4save = 0
  BY DEF SaveInit
<1> QED
  BY <1>1, KeyPlans DEF DiskInv, Settled, LeavingSaved

(* A task that is neither a save nor an arrival. *)
LEMMA DiskPassive ==
    ASSUME TaskInv, DiskInv, todo # <<>>, Saved => Saved', UNCHANGED <<power, sramb4save, settings>>,
           Head(todo) \notin {"sram", "sram_data", "open", "gui", "closed"},
           Then(<<>>) \/ (Doing("state") /\ Then(<<"state_data">>))
    PROVE  DiskInv'
<1>1. /\ \A x \in {"sram", "gui", "closed"} : In(x, todo') <=> In(x, todo)
      /\ ~In("sram_data", todo) /\ ~In("open", todo)
  <2>0. Shape(todo)
    BY DEF TaskInv
  <2>1. CASE Then(<<>>)
    BY <2>0, <2>1, Done DEF Firsts
  <2>2. CASE Doing("state") /\ Then(<<"state_data">>)
    BY <2>0, <2>2, HalfDone DEF Firsts, Doing
  <2> QED
    BY <2>1, <2>2
<1>2. LeavingSaved' <=> LeavingSaved
  BY <1>1 DEF LeavingSaved
<1>3. Settled' => Settled
  BY <1>1, <1>2 DEF Settled
<1>4. sramb4save # 1
  BY DEF DiskInv
<1> QED
  BY <1>2, <1>3, <1>4 DEF DiskInv

LEMMA DiskTask == TypeInv /\ TaskInv /\ DiskInv /\ Task => DiskInv'
<1> SUFFICES ASSUME TypeInv, TaskInv, DiskInv, Task PROVE DiskInv'
  OBVIOUS
<1>0. todo # <<>> /\ Shape(todo) /\ power \in {"game", "gui"} /\ UNCHANGED settings
  BY TasksAre DEF TaskInv
<1>1. CASE SaveSramData
  <2>0. Head(todo) = "sram" /\ Head(todo) # "second" /\ UNCHANGED <<power, console>>
    BY <1>1 DEF SaveSramData, Doing
  <2>1. CASE ~MustSave
    <3>0. "check" \in settings /\ sramb4save = 0
      BY <2>1 DEF MustSave
    <3>1. Then(<<>>) /\ UNCHANGED <<sramb4save, srm, excused>>
      BY <1>1, <2>1 DEF SaveSramData
    <3>2. ~In("sram_data", todo) /\ ~In("open", todo)
      <4>1. ~In("open", todo)
        BY <1>0, <2>0, <3>1, Done DEF TaskInv
      <4>2. ~In("sram_data", todo)
        BY <1>0, <2>0, <3>1, Done DEF Firsts
      <4> QED
        BY <4>1, <4>2
    <3>3. Settled
      BY <1>0, <3>0, <3>2 DEF Settled
    <3>4. Saved'
      BY <2>0, <3>1, <3>3 DEF DiskInv, Saved, OnDisk
    <3> QED
      BY <3>0, <3>1, <3>4 DEF DiskInv
  <2>2. CASE MustSave /\ Then(<<"sram_data">>)
    <3>1. sramb4save' = 0
      BY <1>1, <2>2 DEF SaveSramData
    <3>2. In("sram_data", todo')
      BY <1>0, <2>0, <2>2, HalfDone
    <3> QED
      BY <3>1, <3>2 DEF DiskInv, Settled
  <2>3. CASE MustSave /\ ~Then(<<"sram_data">>)
    <3>1. sramb4save' = 0 /\ excused' = TRUE
      BY <1>1, <2>3 DEF SaveSramData
    <3> QED
      BY <3>1 DEF DiskInv, Saved
  <2> QED
    BY <2>1, <2>2, <2>3
<1>2. CASE WriteSram
  <2>0. Head(todo) = "sram_data" /\ Then(<<>>) /\ UNCHANGED <<power, console, sramb4save>>
    BY <1>2 DEF WriteSram, Doing
  <2>1. Saved'
    <3>1. console.sram # None
      BY SaveAssumption DEF TypeInv, Consoles
    <3>2. CASE srm' = console.sram
      BY <2>0, <3>1, <3>2 DEF Saved, OnDisk
    <3>3. CASE excused' = TRUE
      BY <3>3 DEF Saved
    <3> QED
      BY <1>2, <3>2, <3>3 DEF WriteSram
  <2>2. sramb4save # 1
    BY <2>0 DEF DiskInv
  <2>3. LeavingSaved' => LeavingSaved
    BY <1>0, <2>0, Done DEF LeavingSaved
  <2> QED
    BY <2>0, <2>1, <2>2, <2>3 DEF DiskInv
<1>3. CASE OpenSramFile
  <2>0. /\ Head(todo) = "open" /\ Then(<<>>) /\ UNCHANGED <<power, sramb4save, srm>>
        /\ console'.sram = OnDisk
    BY <1>3 DEF OpenSramFile, Doing, TypeInv, Consoles
  <2>1. Saved'
    BY <2>0 DEF Saved, OnDisk
  <2>2. sramb4save # 1
    BY <2>0 DEF DiskInv
  <2>3. LeavingSaved' => LeavingSaved
    BY <1>0, <2>0, Done DEF LeavingSaved
  <2> QED
    BY <2>0, <2>1, <2>2, <2>3 DEF DiskInv
<1>4. CASE NameSecond \/ ZstName
  <2>1. Saved => Saved'
    BY <1>4 DEF NameSecond, ZstName, Saved, OnDisk
  <2> QED
    BY <1>0, <1>4, <2>1, DiskPassive DEF NameSecond, ZstName, Doing
<1>5. CASE StateSaver \/ WriteState \/ MovieSaver
  <2>1. Saved => Saved'
    BY <1>5 DEF StateSaver, WriteState, MovieSaver, Saved, OnDisk
  <2>2. Head(todo) \in {"state", "state_data"} /\ UNCHANGED <<power, sramb4save>>
    BY <1>5 DEF StateSaver, WriteState, MovieSaver, Doing
  <2>3. Then(<<>>) \/ (Doing("state") /\ Then(<<"state_data">>))
    BY <1>5 DEF StateSaver, WriteState, MovieSaver
  <2> QED
    BY <1>0, <2>1, <2>2, <2>3, DiskPassive
<1>6. CASE StateLoader
  <2>1. Head(todo) = "load" /\ Then(<<>>) /\ UNCHANGED <<power, sramb4save, srm>>
    BY <1>6 DEF StateLoader, Doing
  <2>2. ASSUME NEW s, Restore(s), Saved PROVE Saved'
    <3>1. CASE Restores
      BY <2>2, <3>1 DEF Restore, Saved
    <3>2. CASE ~Restores
      BY <2>1, <2>2, <3>2 DEF Restore, Saved, OnDisk
    <3> QED
      BY <3>1, <3>2
  <2>3. UNCHANGED <<console, excused>> \/ \E s : Restore(s)
    BY <1>6 DEF StateLoader
  <2>4. Saved => Saved'
    BY <2>1, <2>2, <2>3 DEF Saved, OnDisk
  <2> QED
    BY <1>0, <2>1, <2>4, DiskPassive
<1>7. CASE Arrive
  <2>1. /\ Head(todo) \in Lasts /\ power' = Head(todo) /\ Then(<<>>)
        /\ UNCHANGED <<sramb4save, console, srm, excused>>
    BY <1>7 DEF Arrive, Doing, Lasts
  <2>2. todo' = <<>> /\ \A x : In(x, todo) <=> x = Head(todo)
    BY <1>0, <2>1, Done, KeyPlans
  <2>3. LeavingSaved /\ Settled
    BY <2>1, <2>2 DEF LeavingSaved, Settled, Lasts
  <2>4. Saved' /\ sramb4save' = 0
    BY <2>1, <2>3 DEF DiskInv, Saved, OnDisk
  <2> QED
    BY <2>4 DEF DiskInv
<1> QED
  BY <1>1, <1>2, <1>3, <1>4, <1>5, <1>6, <1>7 DEF Task

LEMMA DiskNext == TypeInv /\ TaskInv /\ DiskInv /\ [SaveNext]_saveVars => DiskInv'
<1> SUFFICES ASSUME TypeInv, TaskInv, DiskInv, [SaveNext]_saveVars PROVE DiskInv'
  OBVIOUS
<1>0. Count \in Nat \ {0, 1}
  BY SaveAssumption
<1>1. CASE Task
  BY <1>1, DiskTask
<1>2. CASE SaveKey \/ LoadKey
  <2>1. todo = <<>> /\ todo' \in {<<"state">>, <<"load">>} /\ UNCHANGED <<power, console, sramb4save, srm, settings, excused>>
    BY <1>2 DEF SaveKey, LoadKey, Begin, Idle
  <2>2. \A x \in {"gui", "closed", "sram_data", "open"} : ~In(x, todo) /\ ~In(x, todo')
    BY <2>1, KeyPlans
  <2>3. ~LeavingSaved' /\ (Settled' => Settled) /\ (Saved => Saved')
    BY <2>1, <2>2 DEF LeavingSaved, Settled, Saved, OnDisk
  <2> QED
    BY <2>1, <2>3 DEF DiskInv
<1>3. CASE EnterGui \/ Exit
  <2>1. todo = <<>> /\ UNCHANGED <<power, console, sramb4save, srm, settings, excused>>
    BY <1>3 DEF EnterGui, Exit, Begin, Idle
  <2>2. In("sram", todo')
    <3>1. CASE EnterGui
      BY <3>1, GuiPlan DEF EnterGui, Begin
    <3>2. CASE Exit
      BY <3>2, ExitPlan DEF Exit, Begin
    <3> QED
      BY <1>3, <3>1, <3>2
  <2>3. \A x : ~In(x, todo)
    BY <2>1, KeyPlans
  <2>4. ~LeavingSaved' /\ (Settled' => Settled) /\ (Saved => Saved')
    BY <2>1, <2>2, <2>3 DEF LeavingSaved, Settled, Saved, OnDisk
  <2> QED
    BY <2>1, <2>4 DEF DiskInv
<1>4. CASE PickSlot \/ MovieStarts \/ MovieEnds
  BY <1>4 DEF PickSlot, MovieStarts, MovieEnds, DiskInv, Settled, LeavingSaved, Saved, OnDisk
<1>5. CASE ToggleCheck \/ LeaveGui
  <2>1. power = "gui" /\ todo = <<>> /\ UNCHANGED <<console, sramb4save, srm, excused, todo>>
    BY <1>5 DEF ToggleCheck, LeaveGui, Idle
  <2>2. sramb4save = 0 /\ Saved
    <3>1. Settled
      BY <2>1, KeyPlans DEF Settled
    <3> QED
      BY <2>1, <3>1 DEF DiskInv
  <2> QED
    BY <2>1, <2>2 DEF DiskInv, Saved, OnDisk
<1>6. CASE Start
  <2>1. power' = "game" /\ In("open", todo') /\ ~In("gui", todo') /\ ~In("closed", todo')
    BY <1>6, StartPlan DEF Start
  <2>2. sramb4save' = 0
    BY <1>6 DEF Start, DiskInv
  <2> QED
    BY <2>1, <2>2 DEF DiskInv, Settled, LeavingSaved
<1>7. CASE GameWrites
  <2>1. sramb4save' = Count /\ power' = "game" /\ todo' = <<>>
    BY <1>7 DEF GameWrites, Idle
  <2>2. \A x : ~In(x, todo')
    BY <2>1, KeyPlans
  <2> QED
    BY <1>0, <2>1, <2>2 DEF DiskInv, Settled, LeavingSaved
<1>8. CASE Frame
  <2>0. /\ power = "game" /\ todo = <<>> /\ UNCHANGED <<power, srm, settings, excused>>
        /\ sramb4save' = CountsDown /\ console'.sram = console.sram
        /\ todo' = IF SavesNow /\ "check" \in settings THEN <<"sram">> ELSE <<>>
    BY <1>8 DEF Frame, Idle, TypeInv, Consoles
  <2>1. sramb4save \in 0 .. Count /\ sramb4save # 1
    BY <2>0 DEF TypeInv, DiskInv
  <2>2. ~LeavingSaved'
    BY <2>0, KeyPlans DEF LeavingSaved
  <2>3. sramb4save' = 1 => todo' = <<"sram">> /\ "check" \in settings
    BY <1>0, <2>0, <2>1 DEF CountsDown, SavesNow
  <2>4. todo' # <<>> => Head(todo') = "sram"
    BY <2>0
  <2>5. ASSUME Settled' PROVE Saved'
    <3>1. "check" \in settings /\ sramb4save' = 0
      BY <2>0, <2>2, <2>5 DEF Settled
    <3>2. sramb4save = 0
      BY <1>0, <2>0, <2>1, <3>1 DEF CountsDown
    <3>3. Settled
      BY <2>0, <3>1, <3>2, KeyPlans DEF Settled
    <3> QED
      BY <2>0, <3>3 DEF DiskInv, Saved, OnDisk
  <2> QED
    BY <2>0, <2>2, <2>3, <2>4, <2>5 DEF DiskInv
<1>9. CASE Crash
  <2>1. power' = "off" /\ todo' = <<>> /\ sramb4save' = 0
    BY <1>9 DEF Crash
  <2> QED
    BY <2>1, KeyPlans DEF DiskInv, Settled, LeavingSaved
<1>10. CASE UNCHANGED saveVars
  BY <1>10 DEF saveVars, DiskInv, Settled, LeavingSaved, Saved, OnDisk
<1> QED
  BY <1>1, <1>2, <1>3, <1>4, <1>5, <1>6, <1>7, <1>8, <1>9, <1>10 DEF SaveNext, Player

LEMMA DiskAlways == SaveSpec => [](TypeInv /\ TaskInv /\ DiskInv)
<1>1. SaveInit => TypeInv /\ TaskInv /\ DiskInv
  BY TypeInit, TaskInvInit, DiskInit
<1>2. TypeInv /\ TaskInv /\ DiskInv /\ [SaveNext]_saveVars => (TypeInv /\ TaskInv /\ DiskInv)'
  BY TypeNext, TaskInvNext, DiskNext
<1> QED
  BY <1>1, <1>2, PTL DEF SaveSpec

(* Whatever the settings, what a game stored is on disk once its countdown *)
(* has ended (cachevideo), and after an orderly exit (zexit's              *)
(* SaveSramData).                                                          *)
THEOREM SramIsKept == SaveSpec => []SramKept
<1>1. DiskInv => CountdownTracksSram
  BY KeyPlans DEF DiskInv, Settled, Saved, CountdownTracksSram
<1>2. TaskInv /\ DiskInv => ExitKeepsSram
  BY KeyPlans DEF TaskInv, DiskInv, Settled, Saved, ExitKeepsSram
<1>3. CountdownTracksSram /\ ExitKeepsSram => SramKept
  BY DEF SramKept
<1> QED
  BY <1>1, <1>2, <1>3, DiskAlways, PTL

-----------------------------------------------------------------------------
(* Slots and the name of the state file.  Without movies ZStateName leaves *)
(* the chosen slot only for an operation that is sure to bring it back.    *)
SlotInv ==
    /\ movie => "auto" \notin settings
    /\ In("second", todo) => "auto" \in settings
    /\ zss => "auto" \in settings
    /\ zss /\ power \in {"game", "gui"} => In("name", todo)
    /\ In("state_data", todo) /\ ~zss => lastSaved = None
    /\ lastSaved # None => states[current_zst] = lastSaved

LEMMA SlotInit == SaveInit => SlotInv
<1>1. SaveInit => movie = FALSE /\ todo = <<>> /\ zss = FALSE /\ lastSaved = None
  BY DEF SaveInit
<1> QED
  BY <1>1, KeyPlans DEF SlotInv

(* A task that changes neither the name nor a file. *)
LEMMA SlotPassive ==
    ASSUME TaskInv, SlotInv, todo # <<>>, Head(todo) # "name", Then(<<>>) \/ (Doing("sram") /\ Then(<<"sram_data">>)),
           UNCHANGED <<movie, settings, zss>>, power' \in {"game", "gui"} => power \in {"game", "gui"},
           lastSaved' # None => states'[current_zst'] = lastSaved'
    PROVE  SlotInv'
<1>0. Shape(todo)
  BY DEF TaskInv
<1>1. /\ ~In("state_data", todo')
      /\ In("second", todo') => In("second", todo)
      /\ In("name", todo) => In("name", todo')
  <2>1. CASE Then(<<>>)
    BY <1>0, <2>1, Done DEF Firsts
  <2>2. CASE Doing("sram") /\ Then(<<"sram_data">>)
    BY <1>0, <2>2, HalfDone DEF Firsts, Doing
  <2> QED
    BY <2>1, <2>2
<1> QED
  BY <1>1 DEF SlotInv

LEMMA SlotTask == TypeInv /\ TaskInv /\ SlotInv /\ Task => SlotInv'
<1> SUFFICES ASSUME TypeInv, TaskInv, SlotInv, Task PROVE SlotInv'
  OBVIOUS
<1>0. todo # <<>> /\ Shape(todo) /\ power \in {"game", "gui"} /\ UNCHANGED settings
  BY TasksAre DEF TaskInv
<1>1. CASE SaveSramData \/ WriteSram \/ OpenSramFile \/ StateLoader \/ Arrive
  <2>1. /\ Head(todo) # "name" /\ UNCHANGED <<movie, settings, zss, lastSaved, states, current_zst>>
        /\ Then(<<>>) \/ (Doing("sram") /\ Then(<<"sram_data">>))
    BY <1>1 DEF SaveSramData, WriteSram, OpenSramFile, StateLoader, Arrive, Doing
  <2>2. lastSaved' # None => states'[current_zst'] = lastSaved'
    BY <2>1 DEF SlotInv
  <2> QED
    BY <1>0, <2>1, <2>2, SlotPassive
<1>2. CASE NameSecond
  <2>1. Head(todo) = "second" /\ Then(<<>>) /\ zss' = TRUE /\ UNCHANGED <<movie, power, lastSaved, states, current_zst>>
    BY <1>2 DEF NameSecond, Doing
  <2>2. In("second", todo) /\ In("name", todo')
    BY <1>0, <2>1, Done
  <2> QED
    BY <1>0, <2>1, <2>2 DEF SlotInv
<1>3. CASE ZstName
  <2>1. Then(<<>>) /\ zss' = NameBack /\ UNCHANGED <<movie, power, lastSaved, states, current_zst>>
    BY <1>3 DEF ZstName
  <2>2. ~zss'
    BY <2>1 DEF NameBack, SlotInv
  <2>3. ~In("state_data", todo') /\ (In("second", todo') => In("second", todo))
    BY <1>0, <2>1, Done DEF Firsts
  <2> QED
    BY <1>0, <2>1, <2>2, <2>3 DEF SlotInv
<1>4. CASE StateSaver
  <2>0. Head(todo) = "state" /\ UNCHANGED <<power, zss, movie>>
    BY <1>4 DEF StateSaver, Doing
  <2>1. CASE Then(<<"state_data">>) /\ current_zst' = NextSlot
             /\ states' = [states EXCEPT ![IF zss THEN AutoFile ELSE NextSlot] = Torn]
             /\ lastSaved' = IF zss THEN lastSaved ELSE None
    <3>1. /\ In("second", todo') => In("second", todo)
          /\ In("name", todo) => In("name", todo')
      BY <1>0, <2>0, <2>1, HalfDone
    <3>2. lastSaved' # None => states'[current_zst'] = lastSaved'
      <4>1. SUFFICES ASSUME lastSaved' # None PROVE states'[current_zst'] = lastSaved'
        OBVIOUS
      <4>2. zss /\ lastSaved' = lastSaved /\ current_zst' = current_zst
        BY <2>1, <4>1 DEF NextSlot
      <4>3. current_zst \in Names /\ current_zst # AutoFile
        BY NamesOfSlots DEF TypeInv
      <4> QED
        BY <2>1, <4>1, <4>2, <4>3 DEF TypeInv, SlotInv
    <3> QED
      BY <1>0, <2>0, <2>1, <3>1, <3>2 DEF SlotInv
  <2>2. CASE Then(<<>>) /\ current_zst' = SlotBack(NextSlot) /\ UNCHANGED <<states, lastSaved>>
    <3>1. current_zst' = current_zst
      BY <2>2, SlotFacts DEF TypeInv
    <3> QED
      BY <1>0, <2>0, <2>2, <3>1, SlotPassive DEF SlotInv
  <2> QED
    BY <1>4, <2>1, <2>2 DEF StateSaver
<1>5. CASE WriteState
  <2>0. Head(todo) = "state_data" /\ Then(<<>>) /\ UNCHANGED <<power, zss, movie, current_zst>>
    BY <1>5 DEF WriteState, Doing
  <2>1. lastSaved' # None => states'[current_zst'] = lastSaved'
    <3>1. CASE UNCHANGED <<states, lastSaved>>
      BY <2>0, <3>1 DEF SlotInv
    <3>2. CASE states' = [states EXCEPT ![ZStateName] = console] /\ lastSaved' = IF zss THEN lastSaved ELSE console
      <4>1. current_zst \in Names /\ current_zst # AutoFile
        BY NamesOfSlots DEF TypeInv
      <4>2. CASE zss
        BY <2>0, <3>2, <4>1, <4>2 DEF ZStateName, SlotInv, TypeInv
      <4>3. CASE ~zss
        BY <2>0, <3>2, <4>1, <4>3 DEF ZStateName, TypeInv
      <4> QED
        BY <4>2, <4>3
    <3> QED
      BY <1>5, <3>1, <3>2 DEF WriteState
  <2> QED
    BY <1>0, <2>0, <2>1, SlotPassive
<1>6. CASE MovieSaver
  <2>0. Head(todo) = "state" /\ Then(<<>>) /\ UNCHANGED <<power, zss, movie, states>>
    BY <1>6 DEF MovieSaver, Doing
  <2>1. lastSaved' # None => lastSaved' = lastSaved /\ current_zst' = current_zst
    BY <1>6, SlotFacts DEF MovieSaver, TypeInv
  <2>2. lastSaved' # None => states'[current_zst'] = lastSaved'
    BY <2>0, <2>1 DEF SlotInv
  <2> QED
    BY <1>0, <2>0, <2>2, SlotPassive
<1> QED
  BY <1>1, <1>2, <1>3, <1>4, <1>5, <1>6 DEF Task

LEMMA SlotNext == ASSUME ~AutoInMovies, TypeInv, TaskInv, SlotInv, [SaveNext]_saveVars PROVE SlotInv'
<1>1. CASE Task
  BY <1>1, SlotTask
<1>2. CASE SaveKey \/ LoadKey \/ EnterGui \/ Exit
  <2>1. todo = <<>> /\ power \in {"game", "gui"} /\ UNCHANGED <<power, movie, zss, settings, lastSaved, states, current_zst>>
    BY <1>2 DEF SaveKey, LoadKey, EnterGui, Exit, Begin, Idle
  <2>2. ~zss
    BY <2>1, KeyPlans DEF SlotInv
  <2>3. ~In("state_data", todo') /\ (In("second", todo') => "auto" \in settings)
    <3>1. CASE SaveKey \/ LoadKey
      BY <3>1, KeyPlans DEF SaveKey, LoadKey, Begin
    <3>2. CASE EnterGui
      BY <3>2, GuiPlan DEF EnterGui, Begin, Firsts
    <3>3. CASE Exit
      BY <3>3, ExitPlan DEF Exit, Begin, Firsts
    <3> QED
      BY <1>2, <3>1, <3>2, <3>3
  <2> QED
    BY <2>1, <2>2, <2>3 DEF SlotInv
<1>3. CASE PickSlot
  BY <1>3 DEF PickSlot, SlotInv
<1>4. CASE MovieStarts \/ MovieEnds \/ ToggleCheck \/ GameWrites
  BY <1>4 DEF MovieStarts, MovieEnds, ToggleCheck, GameWrites, SlotInv
<1>5. CASE LeaveGui
  BY <1>5 DEF LeaveGui, Idle, SlotInv
<1>6. CASE Start
  <2>1. ~In("state_data", todo') /\ (In("second", todo') => "auto" \in settings')
    BY <1>6, StartPlan DEF Start
  <2>2. ~movie' /\ ~zss' /\ UNCHANGED states
        /\ (lastSaved' = None \/ UNCHANGED <<lastSaved, current_zst>>)
    BY <1>6 DEF Start
  <2> QED
    BY <2>1, <2>2 DEF SlotInv
<1>7. CASE Frame
  <2>1. todo = <<>> /\ power = "game" /\ UNCHANGED <<power, movie, zss, settings, lastSaved, states, current_zst>>
    BY <1>7 DEF Frame, Idle
  <2>2. ~zss
    BY <2>1, KeyPlans DEF SlotInv
  <2>3. ~In("state_data", todo') /\ ~In("second", todo')
    BY <1>7, KeyPlans DEF Frame
  <2> QED
    BY <2>1, <2>2, <2>3 DEF SlotInv
<1>8. CASE Crash
  <2>1. power' = "off" /\ todo' = <<>> /\ ~movie' /\ lastSaved' = None /\ UNCHANGED <<zss, settings>>
    BY <1>8 DEF Crash
  <2> QED
    BY <2>1, KeyPlans DEF SlotInv
<1>9. CASE UNCHANGED saveVars
  BY <1>9 DEF saveVars, SlotInv
<1> QED
  BY <1>1, <1>2, <1>3, <1>4, <1>5, <1>6, <1>7, <1>8, <1>9 DEF SaveNext, Player

(* The load key loads what the save key saved, with any number of slots,   *)
(* slots that advance, saves that fail and automatic states, unless a      *)
(* movie keeps the automatic state's name (statesaver, zst_name).          *)
THEOREM LoadsAreSound == ~AutoInMovies => (SaveSpec => []LoadsSound)
<1> SUFFICES ASSUME ~AutoInMovies PROVE SaveSpec => []LoadsSound
  OBVIOUS
<1>1. SaveInit => TypeInv /\ TaskInv /\ SlotInv
  BY TypeInit, TaskInvInit, SlotInit
<1>2. TypeInv /\ TaskInv /\ SlotInv /\ [SaveNext]_saveVars => (TypeInv /\ TaskInv /\ SlotInv)'
  BY TypeNext, TaskInvNext, SlotNext
<1>3. SlotInv => LastSaveLoads
  BY KeyPlans DEF SlotInv, LastSaveLoads, ZStateName
<1>4. TornStatesRefused /\ LastSaveLoads => LoadsSound
  BY DEF LoadsSound
<1> QED
  BY <1>1, <1>2, <1>3, <1>4, TornStatesNeverLoaded, PTL DEF SaveSpec
=============================================================================
