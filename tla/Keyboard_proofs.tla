--------------------------- MODULE Keyboard_proofs ---------------------------
(***************************************************************************)
(* The dispatch of keyboard.c, for every keymap, every set of keys and     *)
(* every number of report slots, layers and LED levels.  First the tables  *)
(* and the report as data; then the types, the tables against the matrix,  *)
(* the owners of what the report shows, the count of each usage, and what  *)
(* follows from them between ticks.                                        *)
(***************************************************************************)
EXTENDS Keyboard, FiniteSetTheorems, SequenceTheorems, TLAPS

------------------------------------------------------------------------------
(* Least and greatest elements. *)

LEMMA MinIsLeast ==
  ASSUME NEW S \in SUBSET Nat, S # {}
  PROVE  Min(S) \in S /\ \A y \in S : Min(S) <= y
<1> DEFINE R == {ss \in Nat \X Nat : ss[1] < ss[2]}
<1>1. IsWellFoundedOn(R, Nat)
  BY NatLessThanWellFounded, Zenon DEF OpToRel
<1>2. \A x, y \in Nat : <<y, x>> \in R <=> y < x
  OBVIOUS
<1> HIDE DEF R
<1>3. PICK x \in S : \A y \in S : ~(<<y, x>> \in R)
  BY <1>1, WFMin
<1>4. ASSUME NEW y \in S PROVE x <= y
  <2>1. x \in Nat /\ y \in Nat
    OBVIOUS
  <2>2. ~(y < x)
    BY <1>2, <1>3, <2>1, Zenon
  <2>3. QED
    BY <2>1, <2>2
<1>5. QED
  BY <1>3, <1>4 DEF Min

LEMMA MaxIsGreatest ==
  ASSUME NEW n \in Nat, NEW S \in SUBSET (0..n), S # {}
  PROVE  Max(S) \in S /\ \A y \in S : y <= Max(S)
<1> DEFINE T == {n - x : x \in S}
<1>1. T \in SUBSET Nat /\ T # {}
  <2>1. \A x \in S : x \in 0..n /\ n - x \in Nat
    OBVIOUS
  <2>2. PICK x \in S : TRUE
    OBVIOUS
  <2>3. n - x \in T
    OBVIOUS
  <2>4. QED
    BY <2>1, <2>3
<1>2. PICK x \in S : n - x = Min(T)
  BY <1>1, MinIsLeast
<1>3. \A y \in S : n - y \in T /\ n - x <= n - y
  BY <1>1, <1>2, MinIsLeast
<1>4. \A y \in S : x >= y
  BY <1>3
<1>5. QED
  BY <1>2, <1>4 DEF Max

------------------------------------------------------------------------------
(* The tables: sequences of entries, with at most one for a position. *)

OneEach(s) == \A i, j \in DOMAIN s : s[i].pos = s[j].pos => i = j

(* The entries of a table with a keycode; Tracked is the table's own. *)
Holding(s, code) == {i \in DOMAIN s : s[i].keycode = code}

LEMMA TableAppend ==
  ASSUME NEW E, NEW s \in Seq(E), NEW e \in E
  PROVE  /\ Append(s, e) \in Seq(E)
         /\ Len(Append(s, e)) = Len(s) + 1
         /\ DOMAIN Append(s, e) = DOMAIN s \cup {Len(s) + 1}
         /\ \A i \in DOMAIN s : Append(s, e)[i] = s[i]
         /\ Append(s, e)[Len(s) + 1] = e
         /\ Len(s) + 1 \notin DOMAIN s
<1>1. /\ Append(s, e) \in Seq(E)
      /\ Len(Append(s, e)) = Len(s) + 1
      /\ \A i \in 1..Len(s) : Append(s, e)[i] = s[i]
      /\ Append(s, e)[Len(s) + 1] = e
  BY AppendProperties
<1>2. Len(s) \in Nat /\ DOMAIN s = 1..Len(s) /\ DOMAIN Append(s, e) = 1..(Len(s) + 1)
  BY <1>1, LenProperties
<1>3. QED
  BY <1>1, <1>2

(* Moving the last entry into the gap takes one entry out and keeps the rest. *)
LEMMA TableRemove ==
  ASSUME NEW E, NEW s \in Seq(E), NEW i \in DOMAIN s
  PROVE  /\ Len(s) \in Nat \ {0} /\ DOMAIN s = 1..Len(s)
         /\ SwapRemove(s, i) \in Seq(E)
         /\ Len(SwapRemove(s, i)) = Len(s) - 1
         /\ DOMAIN SwapRemove(s, i) = 1..(Len(s) - 1)
         /\ \A j \in 1..(Len(s) - 1) :
              SwapRemove(s, i)[j] = IF j = i THEN s[Len(s)] ELSE s[j]
<1>1. Len(s) \in Nat \ {0} /\ DOMAIN s = 1..Len(s) /\ s \in [1..Len(s) -> E]
  BY LenProperties
<1>2. SwapRemove(s, i) \in [1..(Len(s) - 1) -> E]
  BY <1>1 DEF SwapRemove
<1>3. SwapRemove(s, i) \in Seq(E)
  BY <1>1, <1>2, SeqDef
<1>4. QED
  BY <1>1, <1>2, <1>3 DEF SwapRemove

(* An entry that is left is one of the others, and each of the others is left. *)
LEMMA TableLeft ==
  ASSUME NEW E, NEW s \in Seq(E), NEW i \in DOMAIN s
  PROVE  /\ \A j \in DOMAIN SwapRemove(s, i) :
              \E k \in DOMAIN s \ {i} : SwapRemove(s, i)[j] = s[k]
         /\ \A k \in DOMAIN s \ {i} :
              \E j \in DOMAIN SwapRemove(s, i) : SwapRemove(s, i)[j] = s[k]
<1> DEFINE t == SwapRemove(s, i)
<1>1. /\ Len(s) \in Nat \ {0} /\ DOMAIN s = 1..Len(s) /\ DOMAIN t = 1..(Len(s) - 1)
      /\ \A j \in 1..(Len(s) - 1) : t[j] = IF j = i THEN s[Len(s)] ELSE s[j]
  BY TableRemove
<1> HIDE DEF t
<1>2. ASSUME NEW j \in DOMAIN t PROVE \E k \in DOMAIN s \ {i} : t[j] = s[k]
  <2>1. CASE j = i
    <3>1. t[j] = s[Len(s)] /\ Len(s) \in DOMAIN s \ {i}
      BY <1>1, <1>2, <2>1
    <3>2. QED
      BY <3>1
  <2>2. CASE j # i
    <3>1. t[j] = s[j] /\ j \in DOMAIN s \ {i}
      BY <1>1, <1>2, <2>2
    <3>2. QED
      BY <3>1
  <2>3. QED
    BY <2>1, <2>2
<1>3. ASSUME NEW k \in DOMAIN s \ {i} PROVE \E j \in DOMAIN t : t[j] = s[k]
  <2>1. CASE k = Len(s)
    <3>1. i \in DOMAIN t /\ t[i] = s[k]
      BY <1>1, <1>3, <2>1
    <3>2. QED
      BY <3>1
  <2>2. CASE k # Len(s)
    <3>1. k \in DOMAIN t /\ t[k] = s[k]
      BY <1>1, <1>3, <2>2
    <3>2. QED
      BY <3>1
  <2>3. QED
    BY <2>1, <2>2
<1>4. QED
  BY <1>2, <1>3 DEF t

LEMMA OneEachAppend ==
  ASSUME NEW E, NEW s \in Seq(E), NEW e \in E, OneEach(s),
         \A i \in DOMAIN s : s[i].pos # e.pos
  PROVE  OneEach(Append(s, e))
BY TableAppend DEF OneEach

LEMMA OneEachRemove ==
  ASSUME NEW E, NEW s \in Seq(E), NEW i \in DOMAIN s, OneEach(s)
  PROVE  /\ OneEach(SwapRemove(s, i))
         /\ \A j \in DOMAIN SwapRemove(s, i) : SwapRemove(s, i)[j].pos # s[i].pos
<1> DEFINE t == SwapRemove(s, i)
<1>1. /\ Len(s) \in Nat \ {0} /\ DOMAIN s = 1..Len(s) /\ DOMAIN t = 1..(Len(s) - 1)
      /\ \A j \in 1..(Len(s) - 1) : t[j] = IF j = i THEN s[Len(s)] ELSE s[j]
  BY TableRemove
<1> HIDE DEF t
<1>2. OneEach(t)
  BY <1>1 DEF OneEach
<1>3. \A j \in DOMAIN t : t[j].pos # s[i].pos
  BY <1>1 DEF OneEach
<1>4. QED
  BY <1>2, <1>3 DEF t

(* A table with one entry for each position is as long as it has positions. *)
LEMMA PositionsCounted ==
  ASSUME NEW E, NEW s \in Seq(E), OneEach(s)
  PROVE  LET P == {s[i].pos : i \in DOMAIN s}
         IN  IsFiniteSet(P) /\ Cardinality(P) = Len(s)
<1> DEFINE P == {s[i].pos : i \in DOMAIN s}
           f == [i \in 1..Len(s) |-> s[i].pos]
<1>1. Len(s) \in Nat /\ DOMAIN s = 1..Len(s)
  BY LenProperties
<1>2. f \in Bijection(1..Len(s), P)
  BY <1>1 DEF Bijection, Injection, Surjection, OneEach, IsInjective
<1>3. ExistsBijection(1..Len(s), P)
  BY <1>2 DEF ExistsBijection
<1>4. IsFiniteSet(1..Len(s)) /\ Cardinality(1..Len(s)) = Len(s)
  BY <1>1, FS_Interval
<1>5. QED
  BY <1>3, <1>4, FS_Bijection

LEMMA HoldingFinite ==
  ASSUME NEW E, NEW s \in Seq(E), NEW code
  PROVE  IsFiniteSet(Holding(s, code)) /\ Cardinality(Holding(s, code)) \in Nat
<1>1. IsFiniteSet(DOMAIN s)
  BY LenProperties, FS_Interval
<1>2. Holding(s, code) \in SUBSET (DOMAIN s)
  BY DEF Holding
<1>3. QED
  BY <1>1, <1>2, FS_Subset, FS_CardinalityType

(* A new entry counts for its own keycode only. *)
LEMMA HoldingAppend ==
  ASSUME NEW E, NEW s \in Seq(E), NEW e \in E, NEW code
  PROVE  Cardinality(Holding(Append(s, e), code)) =
           Cardinality(Holding(s, code)) + (IF e.keycode = code THEN 1 ELSE 0)
<1> DEFINE H == Holding(s, code)
           n == Len(s) + 1
<1>1. /\ DOMAIN Append(s, e) = DOMAIN s \cup {n} /\ n \notin DOMAIN s
      /\ \A i \in DOMAIN s : Append(s, e)[i] = s[i]
      /\ Append(s, e)[n] = e
  BY TableAppend
<1>2. IsFiniteSet(H) /\ Cardinality(H) \in Nat /\ n \notin H
  BY <1>1, HoldingFinite DEF Holding
<1>3. CASE e.keycode = code
  <2>1. Holding(Append(s, e), code) = H \cup {n}
    BY <1>1, <1>3 DEF Holding
  <2>2. QED
    BY <1>2, <1>3, <2>1, FS_AddElement
<1>4. CASE e.keycode # code
  <2>1. Holding(Append(s, e), code) = H
    BY <1>1, <1>4 DEF Holding
  <2>2. QED
    BY <1>2, <1>4, <2>1
<1>5. QED
  BY <1>3, <1>4

(* An entry that is removed counts for its own keycode no more. *)
LEMMA HoldingRemove ==
  ASSUME NEW E, NEW s \in Seq(E), NEW i \in DOMAIN s, NEW code
  PROVE  Cardinality(Holding(SwapRemove(s, i), code)) =
           Cardinality(Holding(s, code)) - (IF s[i].keycode = code THEN 1 ELSE 0)
<1> DEFINE H == Holding(s, code)
           t == SwapRemove(s, i)
           n == Len(s)
<1>1. /\ n \in Nat \ {0} /\ DOMAIN s = 1..n /\ DOMAIN t = 1..(n - 1)
      /\ \A j \in 1..(n - 1) : t[j] = IF j = i THEN s[n] ELSE s[j]
  BY TableRemove
<1>2. IsFiniteSet(H) /\ Cardinality(H) \in Nat
  BY HoldingFinite
<1> HIDE DEF t, n
<1>3. CASE s[i].keycode = code
  <2>1. i \in H
    BY <1>3 DEF Holding
  <2>2. CASE s[n].keycode = code
    <3>1. n \in H /\ Holding(t, code) = H \ {n}
      BY <1>1, <2>1, <2>2 DEF Holding
    <3>2. QED
      BY <1>2, <1>3, <3>1, FS_RemoveElement DEF t
  <2>3. CASE s[n].keycode # code
    <3>1. Holding(t, code) = H \ {i}
      BY <1>1, <1>3, <2>3 DEF Holding
    <3>2. QED
      BY <1>2, <1>3, <2>1, <3>1, FS_RemoveElement DEF t
  <2>4. QED
    BY <2>2, <2>3
<1>4. CASE s[i].keycode # code
  <2>1. i \notin H
    BY <1>4 DEF Holding
  <2>2. CASE s[n].keycode = code
    <3>1. n \in H /\ i # n /\ Holding(t, code) = (H \ {n}) \cup {i}
      BY <1>1, <1>4, <2>2 DEF Holding
    <3>2. IsFiniteSet(H \ {n}) /\ Cardinality(H \ {n}) = Cardinality(H) - 1 /\ i \notin H \ {n}
      BY <1>2, <2>1, <3>1, FS_RemoveElement
    <3>3. Cardinality((H \ {n}) \cup {i}) = Cardinality(H \ {n}) + 1
      BY <3>2, FS_AddElement
    <3>4. QED
      BY <1>2, <1>4, <3>1, <3>2, <3>3 DEF t
  <2>3. CASE s[n].keycode # code
    <3>1. Holding(t, code) = H
      BY <1>1, <1>4, <2>3 DEF Holding
    <3>2. QED
      BY <1>2, <1>4, <3>1 DEF t
  <2>4. QED
    BY <2>2, <2>3
<1>5. QED
  BY <1>3, <1>4

------------------------------------------------------------------------------
(* The report.  A usage is counted by the slots that show it. *)

Count(r, k) == Cardinality(SlotsWith(r, k))

LEMMA SlotsCounted ==
  ASSUME NEW r, NEW k
  PROVE  IsFiniteSet(SlotsWith(r, k)) /\ Count(r, k) \in Nat
<1>1. IsFiniteSet(1..SLOTS) /\ SlotsWith(r, k) \in SUBSET (1..SLOTS)
  BY KeyboardAssumption, FS_Interval DEF SlotsWith
<1>2. QED
  BY <1>1, FS_Subset, FS_CardinalityType DEF Count

(* The modifier byte and the slots do not disturb each other. *)
LEMMA ModBits ==
  ASSUME NEW r \in Report, NEW bits \in SUBSET Mod
  PROVE  /\ SetMod(r, bits) \in Report /\ ClearMod(r, bits) \in Report
         /\ SetMod(r, bits).modifier = r.modifier \cup bits
         /\ ClearMod(r, bits).modifier = r.modifier \ bits
         /\ \A k : /\ SlotsWith(SetMod(r, bits), k) = SlotsWith(r, k)
                   /\ SlotsWith(ClearMod(r, bits), k) = SlotsWith(r, k)
BY DEF Report, SetMod, ClearMod, SlotsWith

(* One slot changes hands, or none. *)
LEMMA SlotReplaced ==
  ASSUME NEW r \in Report, NEW old \in Key \cup {NoKey}, NEW new \in Key \cup {NoKey},
         old # new
  PROVE  LET s == ReplaceFirst(r, old, new)
         IN  /\ s \in Report /\ s.modifier = r.modifier
             /\ SlotsWith(r, old) = {} => s = r
             /\ SlotsWith(r, old) # {} =>
                  \E i \in SlotsWith(r, old) :
                    /\ i \notin SlotsWith(r, new)
                    /\ SlotsWith(s, old) = SlotsWith(r, old) \ {i}
                    /\ SlotsWith(s, new) = SlotsWith(r, new) \cup {i}
                    /\ \A k : k \notin {old, new} => SlotsWith(s, k) = SlotsWith(r, k)
<1> DEFINE s == ReplaceFirst(r, old, new)
<1>1. CASE SlotsWith(r, old) = {}
  BY <1>1 DEF ReplaceFirst
<1>2. CASE SlotsWith(r, old) # {}
  <2> DEFINE i == Min(SlotsWith(r, old))
  <2>1. SlotsWith(r, old) \in SUBSET Nat
    BY KeyboardAssumption DEF SlotsWith
  <2>2. i \in SlotsWith(r, old)
    BY <1>2, <2>1, MinIsLeast
  <2>3. s = [r EXCEPT !.keycode[i] = new]
    BY <1>2 DEF ReplaceFirst
  <2> HIDE DEF i, s
  <2>4. i \in 1..SLOTS /\ r.keycode[i] = old
    BY <2>2 DEF SlotsWith
  <2>5. /\ s \in Report /\ s.modifier = r.modifier
        /\ s.keycode[i] = new
        /\ \A j \in 1..SLOTS : j # i => s.keycode[j] = r.keycode[j]
    BY <2>3, <2>4 DEF Report
  <2>6. /\ i \notin SlotsWith(r, new)
        /\ SlotsWith(s, old) = SlotsWith(r, old) \ {i}
        /\ SlotsWith(s, new) = SlotsWith(r, new) \cup {i}
        /\ \A k : k \notin {old, new} => SlotsWith(s, k) = SlotsWith(r, k)
    BY <2>4, <2>5 DEF SlotsWith
  <2>7. QED
    BY <1>2, <2>2, <2>5, <2>6 DEF s
<1>3. QED
  BY <1>1, <1>2

(* kbd_add_key: one more slot shows the usage, if one is free. *)
LEMMA KeyAdded ==
  ASSUME NEW r \in Report, NEW k \in Key
  PROVE  /\ AddKey(r, k) \in Report /\ AddKey(r, k).modifier = r.modifier
         /\ \A q \in Key :
              Count(AddKey(r, k), q) =
                Count(r, q) + (IF RoomFor(r) /\ q = k THEN 1 ELSE 0)
<1> DEFINE s == ReplaceFirst(r, NoKey, k)
<1>1. NoKey # k /\ AddKey(r, k) = s
  BY KeyboardAssumption DEF AddKey
<1>2. s \in Report /\ s.modifier = r.modifier
  BY <1>1, SlotReplaced
<1>3. CASE RoomFor(r)
  <2>1. PICK i \in SlotsWith(r, NoKey) :
          /\ i \notin SlotsWith(r, k)
          /\ SlotsWith(s, k) = SlotsWith(r, k) \cup {i}
          /\ \A q : q \notin {NoKey, k} => SlotsWith(s, q) = SlotsWith(r, q)
    BY <1>1, <1>3, SlotReplaced DEF RoomFor
  <2>2. Count(s, k) = Count(r, k) + 1
    BY <2>1, SlotsCounted, FS_AddElement DEF Count
  <2>3. \A q \in Key : q # k => Count(s, q) = Count(r, q)
    BY <2>1, KeyboardAssumption DEF Count
  <2>4. QED
    BY <1>1, <1>2, <1>3, <2>2, <2>3, SlotsCounted
<1>4. CASE ~RoomFor(r)
  <2>1. s = r
    BY <1>1, <1>4, SlotReplaced DEF RoomFor
  <2>2. QED
    BY <1>1, <1>4, <2>1, SlotsCounted
<1>5. QED
  BY <1>3, <1>4

(* kbd_remove_key: one slot less shows the usage, if one does. *)
LEMMA KeyRemoved ==
  ASSUME NEW r \in Report, NEW k \in Key
  PROVE  /\ RemoveKey(r, k) \in Report /\ RemoveKey(r, k).modifier = r.modifier
         /\ \A q \in Key :
              Count(RemoveKey(r, k), q) =
                IF q = k /\ Count(r, k) > 0 THEN Count(r, q) - 1 ELSE Count(r, q)
<1> DEFINE s == ReplaceFirst(r, k, NoKey)
<1>1. NoKey # k /\ RemoveKey(r, k) = s
  BY KeyboardAssumption DEF RemoveKey
<1>2. s \in Report /\ s.modifier = r.modifier
  BY <1>1, SlotReplaced
<1>3. Count(r, k) \in Nat /\ (Count(r, k) = 0 <=> SlotsWith(r, k) = {})
  BY SlotsCounted, FS_EmptySet DEF Count
<1>4. CASE SlotsWith(r, k) # {}
  <2>1. PICK i \in SlotsWith(r, k) :
          /\ SlotsWith(s, k) = SlotsWith(r, k) \ {i}
          /\ \A q : q \notin {NoKey, k} => SlotsWith(s, q) = SlotsWith(r, q)
    BY <1>1, <1>4, SlotReplaced
  <2>2. Count(s, k) = Count(r, k) - 1
    BY <2>1, SlotsCounted, FS_RemoveElement DEF Count
  <2>3. \A q \in Key : q # k => Count(s, q) = Count(r, q)
    BY <2>1, KeyboardAssumption DEF Count
  <2>4. Count(r, k) > 0
    BY <1>3, <1>4
  <2>5. QED
    BY <1>1, <1>2, <2>2, <2>3, <2>4
<1>5. CASE SlotsWith(r, k) = {}
  <2>1. s = r
    BY <1>1, <1>5, SlotReplaced
  <2>2. ~(Count(r, k) > 0)
    BY <1>3, <1>5
  <2>3. QED
    BY <1>1, <2>1, <2>2
<1>6. QED
  BY <1>4, <1>5

(* A tap gives back the slot it took.  Without a free slot it shows nothing,
   and may take down a held key with the same usage. *)
KeepsCounts(r, s) ==
  \A q \in Key : Count(s, q) <= Count(r, q) /\ (RoomFor(r) => Count(s, q) = Count(r, q))

LEMMA TapKeepsCounts ==
  ASSUME NEW r \in Report, NEW k \in Key, NEW bits \in SUBSET Mod
  PROVE  /\ RemoveKey(ClearMod(AddKey(r, k), bits), k) \in Report
         /\ RemoveKey(ClearMod(AddKey(r, k), bits), k).modifier = r.modifier \ bits
         /\ KeepsCounts(r, RemoveKey(ClearMod(AddKey(r, k), bits), k))
<1> DEFINE a == AddKey(r, k)
           b == ClearMod(a, bits)
           c == RemoveKey(b, k)
<1>1. /\ a \in Report /\ a.modifier = r.modifier
      /\ \A q \in Key : Count(a, q) = Count(r, q) + (IF RoomFor(r) /\ q = k THEN 1 ELSE 0)
  BY KeyAdded
<1> HIDE DEF a
<1>2. /\ b \in Report /\ b.modifier = a.modifier \ bits
      /\ \A q \in Key : Count(b, q) = Count(a, q)
  BY <1>1, ModBits DEF Count
<1> HIDE DEF b
<1>3. /\ c \in Report /\ c.modifier = b.modifier
      /\ \A q \in Key : Count(c, q) = IF q = k /\ Count(b, k) > 0
                                      THEN Count(b, q) - 1 ELSE Count(b, q)
  BY <1>2, KeyRemoved
<1> HIDE DEF c
<1>4. \A q \in Key : Count(r, q) \in Nat
  BY SlotsCounted
<1>5. KeepsCounts(r, c)
  <2>1. ASSUME NEW q \in Key
        PROVE  Count(c, q) <= Count(r, q) /\ (RoomFor(r) => Count(c, q) = Count(r, q))
    BY <1>1, <1>2, <1>3, <1>4
  <2>2. QED
    BY <2>1 DEF KeepsCounts
<1>6. QED
  BY <1>1, <1>2, <1>3, <1>5 DEF a, b, c

(* send_mod_key: the chord takes its modifiers away with its key. *)
LEMMA ChordIsTap ==
  ASSUME NEW r \in Report, NEW k \in Key, NEW bits \in SUBSET Mod
  PROVE  /\ Chord(r, bits, k) \in Seq(Report) /\ Len(Chord(r, bits, k)) = 2
         /\ Chord(r, bits, k)[2].modifier = r.modifier \ bits
         /\ KeepsCounts(r, Chord(r, bits, k)[2])
<1> DEFINE a == SetMod(r, bits)
           p == AddKey(a, k)
           c == RemoveKey(ClearMod(p, bits), k)
<1>1. /\ a \in Report /\ a.modifier = r.modifier \cup bits
      /\ \A q : SlotsWith(a, q) = SlotsWith(r, q)
  BY ModBits
<1>2. p \in Report
  BY <1>1, KeyAdded
<1>3. c \in Report /\ c.modifier = a.modifier \ bits /\ KeepsCounts(a, c)
  BY <1>1, TapKeepsCounts
<1>4. KeepsCounts(r, c)
  BY <1>1, <1>3 DEF KeepsCounts, Count, RoomFor
<1>5. Chord(r, bits, k) = <<p, c>>
  BY DEF Chord
<1> HIDE DEF p, c
<1>6. QED
  BY <1>1, <1>2, <1>3, <1>4, <1>5

(* encoder_step: of the gesture only Alt stays. *)
LEMMA AltTabIsTap ==
  ASSUME NEW r \in Report, NEW dir \in {"CW", "CCW"}
  PROVE  LET reports == AltTab(r, dir)
             last    == reports[Len(reports)]
         IN  /\ reports \in Seq(Report) /\ reports # <<>>
             /\ last.modifier \subseteq r.modifier \cup {MOD_LALT}
             /\ KeepsCounts(r, last)
<1> DEFINE alt    == SetMod(r, {MOD_LALT})
           base   == IF alt_held THEN r ELSE alt
           shift  == SetMod(base, {MOD_LSFT})
           tapped == AddKey(shift, KC_TAB)
           after  == ClearMod(RemoveKey(tapped, KC_TAB), {MOD_LSFT})
           latch  == IF alt_held THEN <<>> ELSE <<alt>>
           taps   == IF dir = "CW" THEN Chord(base, {}, KC_TAB)
                                   ELSE <<shift, tapped, after>>
<1>1. KC_TAB \in Key /\ {MOD_LALT} \in SUBSET Mod /\ {MOD_LSFT} \in SUBSET Mod
      /\ {} \in SUBSET Mod
  BY KeyboardAssumption
<1>2. alt \in Report /\ alt.modifier = r.modifier \cup {MOD_LALT}
      /\ \A q : SlotsWith(alt, q) = SlotsWith(r, q)
  BY <1>1, ModBits
<1>3. base \in Report /\ base.modifier \subseteq r.modifier \cup {MOD_LALT}
      /\ \A q : SlotsWith(base, q) = SlotsWith(r, q)
  BY <1>2
<1>4. latch \in Seq(Report)
  BY <1>2
<1> HIDE DEF alt, base, latch
<1>5. /\ taps \in Seq(Report) /\ Len(taps) \in {2, 3}
      /\ taps[Len(taps)].modifier \subseteq base.modifier
      /\ KeepsCounts(base, taps[Len(taps)])
  <2>1. CASE dir = "CW"
    <3>1. taps = Chord(base, {}, KC_TAB)
      BY <2>1
    <3>2. /\ Chord(base, {}, KC_TAB) \in Seq(Report) /\ Len(Chord(base, {}, KC_TAB)) = 2
          /\ Chord(base, {}, KC_TAB)[2].modifier = base.modifier \ {}
          /\ KeepsCounts(base, Chord(base, {}, KC_TAB)[2])
      BY <1>1, <1>3, ChordIsTap
    <3> HIDE DEF taps
    <3>3. QED
      BY <3>1, <3>2
  <2>2. CASE dir # "CW"
    <3>1. taps = <<shift, tapped, after>>
      BY <2>2
    <3> HIDE DEF taps
    <3>2. shift \in Report /\ shift.modifier = base.modifier \cup {MOD_LSFT}
          /\ \A q : SlotsWith(shift, q) = SlotsWith(base, q)
      BY <1>1, <1>3, ModBits
    <3> HIDE DEF shift
    <3>3. tapped \in Report
      BY <1>1, <3>2, KeyAdded
    <3>4. after \in Report /\ after.modifier = shift.modifier \ {MOD_LSFT}
          /\ KeepsCounts(shift, after)
      <4>1. ClearMod(tapped, {}) = tapped
        BY <3>3 DEF ClearMod, Report
      <4>2. /\ RemoveKey(tapped, KC_TAB) \in Report
            /\ RemoveKey(tapped, KC_TAB).modifier = shift.modifier
            /\ KeepsCounts(shift, RemoveKey(tapped, KC_TAB))
        BY <1>1, <3>2, <4>1, TapKeepsCounts
      <4>3. QED
        BY <1>1, <4>2, ModBits DEF KeepsCounts, Count
    <3> HIDE DEF tapped, after
    <3>5. KeepsCounts(base, after)
      BY <3>2, <3>4 DEF KeepsCounts, Count, RoomFor
    <3>6. taps \in Seq(Report) /\ Len(taps) = 3 /\ taps[3] = after
      BY <3>1, <3>2, <3>3, <3>4
    <3>7. after.modifier \subseteq base.modifier
      BY <3>2, <3>4
    <3>8. QED
      BY <3>5, <3>6, <3>7
  <2>3. QED
    BY <2>1, <2>2
<1>6. AltTab(r, dir) = latch \o taps
  BY DEF AltTab, latch, alt, base
<1> HIDE DEF taps
<1>7. /\ latch \o taps \in Seq(Report)
      /\ Len(latch \o taps) = Len(latch) + Len(taps)
      /\ \A i \in 1..(Len(latch) + Len(taps)) :
           (latch \o taps)[i] = IF i <= Len(latch) THEN latch[i] ELSE taps[i - Len(latch)]
  BY <1>4, <1>5, ConcatProperties
<1>8. Len(latch) \in Nat /\ Len(taps) \in Nat \ {0}
  <2>1. Len(latch) \in Nat
    BY <1>4, LenProperties
  <2>2. QED
    BY <1>5, <2>1
<1>9. (latch \o taps)[Len(latch \o taps)] = taps[Len(taps)] /\ latch \o taps # <<>>
  BY <1>7, <1>8
<1>10. KeepsCounts(r, taps[Len(taps)])
  BY <1>3, <1>5 DEF KeepsCounts, Count, RoomFor
<1>11. QED
  BY <1>3, <1>5, <1>6, <1>7, <1>9, <1>10

(* The live report is the last one staged. *)
LEMMA LastIsLive ==
  ASSUME NEW reports \in Seq(Report), reports # <<>>, Stage(reports)
  PROVE  /\ out' = reports /\ out' \in Seq(Report) /\ out' # <<>>
         /\ report' = reports[Len(reports)] /\ report' \in Report
<1>1. Len(reports) \in 1..Len(reports) /\ reports[Len(reports)] \in Report
  BY EmptySeq, ElementOfSeq
<1>2. out' = reports /\ modifier' = reports[Len(reports)].modifier
      /\ slots' = reports[Len(reports)].keycode
  BY DEF Stage
<1>3. \A r \in Report : r = [modifier |-> r.modifier, keycode |-> r.keycode]
  BY DEF Report
<1>4. report' = reports[Len(reports)]
  <2>1. report' = [modifier |-> modifier', keycode |-> slots']
    BY DEF report
  <2>2. QED
    BY <1>1, <1>2, <1>3, <2>1
<1>5. QED
  BY <1>1, <1>2, <1>4

------------------------------------------------------------------------------
(* Keycodes, layers and LED levels. *)

LEMMA KeycodeFields ==
  ASSUME NEW c \in Keycode
  PROVE  /\ c.kind = "key"      => c.key \in Key /\ c = KeyCode(c.key)
         /\ c.kind = "mod"      => c.mod \in Mod /\ c = ModCode(c.mod)
         /\ c.kind = "consumer" => c.usage \in Usage /\ c = ConsumerCode(c.usage)
         /\ c.kind = "macro"    => c.mod \in Mod /\ c.key \in Key
         /\ c.kind = "layer"    => c.target \in Layer
BY DEF Keycode, NoCode, TransCode, KeyCode, ModCode, LayerCode, MacroCode, ConsumerCode,
       LedCode, SysCode

(* Codes of two kinds are two codes, and so are those of two usages. *)
LEMMA CodesDiffer ==
  /\ \A k, q : KeyCode(k) = KeyCode(q) <=> k = q
  /\ \A m, n : ModCode(m) = ModCode(n) <=> m = n
  /\ \A k, m : KeyCode(k) # ModCode(m)
  /\ \A k, u : KeyCode(k) # ConsumerCode(u)
  /\ \A m, u : ModCode(m) # ConsumerCode(u)
  /\ \A c : /\ \A k : c = KeyCode(k) => c.kind = "key" /\ c.key = k
            /\ \A m : c = ModCode(m) => c.kind = "mod" /\ c.mod = m
            /\ \A u : c = ConsumerCode(u) => c.kind = "consumer" /\ c.usage = u
BY DEF KeyCode, ModCode, ConsumerCode

LEMMA KeymapType ==
  ASSUME NEW layer \in Layer, NEW p \in Position
  PROVE  keymap_key_to_keycode(layer, p) \in Keycode
<1> DEFINE opaque == {l \in 0..layer : keymaps[l][p] # TransCode}
<1>1. layer \in Nat /\ 0..layer \subseteq Layer
  BY KeyboardAssumption DEF Layer
<1>2. \A l \in Layer : keymaps[l][p] \in Keycode
  BY KeyboardAssumption
<1>3. CASE opaque = {}
  BY <1>3 DEF keymap_key_to_keycode, Keycode
<1>4. CASE opaque # {}
  <2>1. Max(opaque) \in opaque
    BY <1>1, <1>4, MaxIsGreatest
  <2>2. Max(opaque) \in Layer
    BY <1>1, <2>1
  <2>3. QED
    BY <1>2, <1>4, <2>2 DEF keymap_key_to_keycode
<1>5. QED
  BY <1>3, <1>4

LayerKey == [pos: Position, target: Layer]

(* layer_update: the highest target of the table, or the base layer. *)
LEMMA HighestIsHeld ==
  ASSUME NEW s \in Seq(LayerKey)
  PROVE  /\ HighestLayer(s) \in Layer
         /\ \A i \in DOMAIN s : s[i].target <= HighestLayer(s)
         /\ HighestLayer(s) # 0 => \E i \in DOMAIN s : s[i].target = HighestLayer(s)
<1> DEFINE T == {s[i].target : i \in DOMAIN s} \cup {0}
<1>1. \A i \in DOMAIN s : s[i].target \in Layer
  <2>1. \A i \in DOMAIN s : s[i] \in LayerKey
    BY LenProperties
  <2>2. QED
    BY <2>1 DEF LayerKey
<1>2. Layer = 0..(NUM_LAYERS - 1) /\ NUM_LAYERS - 1 \in Nat /\ 0 \in Layer
  BY KeyboardAssumption DEF Layer
<1>3. T \in SUBSET (0..(NUM_LAYERS - 1)) /\ T # {}
  BY <1>1, <1>2
<1>4. Max(T) \in T /\ \A y \in T : y <= Max(T)
  BY <1>2, <1>3, MaxIsGreatest
<1>5. HighestLayer(s) = Max(T)
  BY DEF HighestLayer
<1>6. QED
  BY <1>2, <1>3, <1>4, <1>5

(* The notches rise to full brightness, which only the last one has. *)
LEMMA NotchesRise ==
  ASSUME NEW i \in 0..(LED_TABLE_SIZE - 1)
  PROVE  /\ led_table[i] \in Nat /\ led_table[i] \in 0..LED_BRIGHTNESS_MAX
         /\ LED_BRIGHTNESS_MAX \in Nat
         /\ led_table[i] < LED_BRIGHTNESS_MAX <=> i < LED_TABLE_SIZE - 1
         /\ \A j \in 0..(LED_TABLE_SIZE - 1) : i < j => led_table[i] < led_table[j]
<1>1. /\ LED_TABLE_SIZE \in Nat \ {0} /\ LED_BRIGHTNESS_MAX \in Nat
      /\ led_table \in [0..(LED_TABLE_SIZE - 1) -> 0..LED_BRIGHTNESS_MAX]
      /\ \A k, j \in 0..(LED_TABLE_SIZE - 1) : k < j => led_table[k] < led_table[j]
      /\ led_table[LED_TABLE_SIZE - 1] = LED_BRIGHTNESS_MAX
  BY KeyboardAssumption
<1>2. led_table[i] \in Nat /\ led_table[i] \in 0..LED_BRIGHTNESS_MAX
  BY <1>1
<1>3. i < LED_TABLE_SIZE - 1 => led_table[i] < LED_BRIGHTNESS_MAX
  <2>1. LED_TABLE_SIZE - 1 \in 0..(LED_TABLE_SIZE - 1)
    BY <1>1
  <2>2. QED
    BY <1>1, <2>1
<1>4. led_table[i] < LED_BRIGHTNESS_MAX => i < LED_TABLE_SIZE - 1
  <2>1. SUFFICES ASSUME ~(i < LED_TABLE_SIZE - 1)
                 PROVE  led_table[i] = LED_BRIGHTNESS_MAX
    BY <1>1
  <2>2. i = LED_TABLE_SIZE - 1
    BY <1>1, <2>1
  <2>3. QED
    BY <1>1, <2>2
<1>5. QED
  BY <1>1, <1>2, <1>3, <1>4

(* What an LED at level pwm tells of a chosen brightness: more if told to. *)
Shows(pwm, chosen, told) ==
  pwm >= chosen /\ (pwm > chosen <=> told /\ chosen < LED_BRIGHTNESS_MAX)

(* The boosted notch is above the chosen one until that is the last. *)
LEMMA LedLevelsTell ==
  ASSUME NEW layer \in Layer, NEW index \in 0..(LED_TABLE_SIZE - 1), NEW locks
  PROVE  LET pwm == LedLevels(layer, index, locks)
         IN  /\ pwm \in [{"A", "B"} -> 0..LED_BRIGHTNESS_MAX]
             /\ IF "A" \in locks THEN pwm["A"] = LED_BRIGHTNESS_MAX
                                 ELSE Shows(pwm["A"], led_table[index], layer >= 1)
             /\ IF "B" \in locks THEN pwm["B"] = LED_BRIGHTNESS_MAX
                                 ELSE Shows(pwm["B"], led_table[index], layer >= 2)
<1> DEFINE boosted == IF index + LED_DELTA_STEPS < LED_TABLE_SIZE
                      THEN index + LED_DELTA_STEPS ELSE LED_TABLE_SIZE - 1
           level(l) == led_table[IF layer >= l THEN boosted ELSE index]
<1>1. LED_TABLE_SIZE \in Nat \ {0} /\ LED_DELTA_STEPS \in Nat \ {0}
  BY KeyboardAssumption
<1>2. /\ boosted \in 0..(LED_TABLE_SIZE - 1)
      /\ index < LED_TABLE_SIZE - 1 => index < boosted
      /\ ~(index < LED_TABLE_SIZE - 1) => boosted = index
  BY <1>1
<1> HIDE DEF boosted
<1>3. ASSUME NEW l \in {1, 2}
      PROVE  level(l) \in 0..LED_BRIGHTNESS_MAX /\ Shows(level(l), led_table[index], layer >= l)
  <2>1. CASE layer >= l /\ index < LED_TABLE_SIZE - 1
    BY <1>2, <2>1, NotchesRise DEF Shows
  <2>2. CASE layer >= l /\ ~(index < LED_TABLE_SIZE - 1)
    BY <1>2, <2>2, NotchesRise DEF Shows
  <2>3. CASE ~(layer >= l)
    BY <2>3, NotchesRise DEF Shows
  <2>4. QED
    BY <2>1, <2>2, <2>3
<1> DEFINE a == IF "A" \in locks THEN LED_BRIGHTNESS_MAX ELSE level(1)
           b == IF "B" \in locks THEN LED_BRIGHTNESS_MAX ELSE level(2)
<1>4. LedLevels(layer, index, locks) = [A |-> a, B |-> b]
  BY DEF LedLevels, LevelsWith, boosted
<1> HIDE DEF level
<1>5. a \in 0..LED_BRIGHTNESS_MAX /\ b \in 0..LED_BRIGHTNESS_MAX
  BY <1>3, NotchesRise
<1>6. /\ IF "A" \in locks THEN a = LED_BRIGHTNESS_MAX
                          ELSE Shows(a, led_table[index], layer >= 1)
      /\ IF "B" \in locks THEN b = LED_BRIGHTNESS_MAX
                          ELSE Shows(b, led_table[index], layer >= 2)
  BY <1>3
<1> HIDE DEF a, b
<1>7. QED
  BY <1>4, <1>5, <1>6

------------------------------------------------------------------------------
(* The tables and the matrix. *)

(* The keys that are down as far as the dispatch loop has got. *)
Held == (down \ edges) \cup (edges \ down)

Positions(s) == {s[i].pos : i \in DOMAIN s}

LEMMA PositionsAppend ==
  ASSUME NEW E, NEW s \in Seq(E), NEW e \in E
  PROVE  Positions(Append(s, e)) = Positions(s) \cup {e.pos}
BY TableAppend DEF Positions

LEMMA PositionsRemove ==
  ASSUME NEW E, NEW s \in Seq(E), NEW i \in DOMAIN s, OneEach(s)
  PROVE  Positions(SwapRemove(s, i)) = Positions(s) \ {s[i].pos}
<1>1. \A j \in DOMAIN SwapRemove(s, i) : SwapRemove(s, i)[j].pos # s[i].pos
  BY OneEachRemove
<1>2. QED
  BY <1>1, TableLeft DEF Positions

(* The first entry of a position is an entry, and of that position. *)
LEMMA FirstEntry ==
  ASSUME NEW E, NEW s \in Seq(E), NEW p, Entries(s, p) # {}
  PROVE  Min(Entries(s, p)) \in DOMAIN s /\ s[Min(Entries(s, p))].pos = p
<1>1. Entries(s, p) \in SUBSET Nat
  BY LenProperties DEF Entries
<1>2. Min(Entries(s, p)) \in Entries(s, p)
  BY <1>1, MinIsLeast
<1>3. QED
  BY <1>2 DEF Entries

Entry == [pos: Position, keycode: Keycode]

TableTypes ==
  /\ down \subseteq Position /\ edges \subseteq Position
  /\ pressed_keys \in Seq(Entry) /\ active_layer_keys \in Seq(LayerKey)
  /\ Len(active_layer_keys) <= MAX_LAYER_KEYS
  /\ current_layer \in Layer

(* TablesMatchMatrix is inductive once no edge is left over when the dispatch
   loop is done. *)
TableInv ==
  /\ phase \in {"scan", "alt", "led"} => edges = {}
  /\ OneEach(pressed_keys) /\ OneEach(active_layer_keys)
  /\ PressPositions \cap LayerPositions = {}
  /\ PressPositions \cup LayerPositions \subseteq Held

LEMMA EdgeIsTaken ==
  ASSUME TableTypes, NEW p, NextEdge(p)
  PROVE  phase = "dispatch" /\ p \in edges /\ edges' = edges \ {p} /\ down' = down
<1>1. edges \in SUBSET Nat
  BY KeyboardAssumption DEF TableTypes
<1>2. edges # {} /\ p = Min(edges)
  BY DEF NextEdge
<1>3. p \in edges
  BY <1>1, <1>2, MinIsLeast
<1>4. QED
  BY <1>3 DEF NextEdge

(* A press that no table takes. *)
LEMMA TablesKept ==
  ASSUME TableTypes, TableInv, NEW p \in Position, NextEdge(p), p \in down,
         phase' \in {"dispatch", "SYS_RST", "SYS_BOOT"}, UNCHANGED tables
  PROVE  TableTypes' /\ TableInv'
<1>1. /\ p \in edges /\ edges' = edges \ {p} /\ down' = down
      /\ pressed_keys' = pressed_keys /\ active_layer_keys' = active_layer_keys
      /\ current_layer' = current_layer
  BY EdgeIsTaken DEF tables
<1>2. Held' = Held \cup {p}
  BY <1>1 DEF Held
<1>3. PressPositions' = PressPositions /\ LayerPositions' = LayerPositions
  BY <1>1 DEF PressPositions, LayerPositions
<1>4. QED
  BY <1>1, <1>2, <1>3 DEF TableTypes, TableInv

(* track_pressed_key *)
LEMMA TablesTrack ==
  ASSUME TableTypes, TableInv, NEW p \in Position, NextEdge(p), p \in down,
         phase' = phase, NEW code \in Keycode, track_pressed_key(p, code),
         UNCHANGED <<active_layer_keys, current_layer>>
  PROVE  TableTypes' /\ TableInv'
<1> DEFINE e == [pos |-> p, keycode |-> code]
<1>1. /\ p \in edges /\ edges' = edges \ {p} /\ down' = down /\ phase = "dispatch"
      /\ pressed_keys' = Append(pressed_keys, e) /\ active_layer_keys' = active_layer_keys
      /\ current_layer' = current_layer
  BY EdgeIsTaken DEF track_pressed_key
<1>2. e \in Entry /\ e.pos = p /\ pressed_keys \in Seq(Entry)
  BY DEF Entry, TableTypes
<1> HIDE DEF e
<1>3. Held' = Held \cup {p} /\ p \notin Held
  BY <1>1 DEF Held
<1>4. PressPositions' = PressPositions \cup {p} /\ LayerPositions' = LayerPositions
  BY <1>1, <1>2, PositionsAppend DEF PressPositions, LayerPositions, Positions
<1>5. OneEach(pressed_keys')
  <2>1. \A i \in DOMAIN pressed_keys : pressed_keys[i].pos # e.pos
    BY <1>2, <1>3 DEF TableInv, PressPositions
  <2>2. QED
    BY <1>1, <1>2, <2>1, OneEachAppend DEF TableInv
<1>6. pressed_keys' \in Seq(Entry)
  BY <1>1, <1>2, TableAppend
<1>7. QED
  BY <1>1, <1>3, <1>4, <1>5, <1>6 DEF TableTypes, TableInv

LEMMA TablesPressLayer ==
  ASSUME TableTypes, TableInv, NEW p \in Position, NextEdge(p), p \in down,
         NEW code \in Keycode, PressLayer(p, code)
  PROVE  TableTypes' /\ TableInv'
<1> DEFINE e == [pos |-> p, target |-> code.target]
<1>1. /\ p \in edges /\ edges' = edges \ {p} /\ down' = down /\ phase = "dispatch"
      /\ phase' = phase /\ pressed_keys' = pressed_keys
  BY EdgeIsTaken DEF PressLayer
<1>2. CASE Len(active_layer_keys) < MAX_LAYER_KEYS
  <2>1. /\ active_layer_keys' = Append(active_layer_keys, e)
        /\ current_layer' = HighestLayer(active_layer_keys')
    BY <1>2 DEF PressLayer
  <2>2. e \in LayerKey /\ e.pos = p /\ active_layer_keys \in Seq(LayerKey)
    BY KeycodeFields DEF LayerKey, TableTypes, PressLayer
  <2> HIDE DEF e
  <2>3. Held' = Held \cup {p} /\ p \notin Held
    BY <1>1 DEF Held
  <2>4. LayerPositions' = LayerPositions \cup {p} /\ PressPositions' = PressPositions
    BY <1>1, <2>1, <2>2, PositionsAppend DEF PressPositions, LayerPositions, Positions
  <2>5. OneEach(active_layer_keys')
    <3>1. \A i \in DOMAIN active_layer_keys : active_layer_keys[i].pos # e.pos
      BY <2>2, <2>3 DEF TableInv, LayerPositions
    <3>2. QED
      BY <2>1, <2>2, <3>1, OneEachAppend DEF TableInv
  <2>6. active_layer_keys' \in Seq(LayerKey)
        /\ Len(active_layer_keys') = Len(active_layer_keys) + 1
    BY <2>1, <2>2, TableAppend
  <2>7. current_layer' \in Layer
    BY <2>1, <2>6, HighestIsHeld
  <2>8. Len(active_layer_keys') <= MAX_LAYER_KEYS
    BY <1>2, <2>2, <2>6, KeyboardAssumption, LenProperties
  <2>9. TableTypes'
    BY <1>1, <2>6, <2>7, <2>8 DEF TableTypes
  <2>10. QED
    BY <1>1, <2>3, <2>4, <2>5, <2>9 DEF TableInv
<1>3. CASE ~(Len(active_layer_keys) < MAX_LAYER_KEYS)
  <2>1. UNCHANGED <<active_layer_keys, current_layer>>
    BY <1>3 DEF PressLayer
  <2>2. UNCHANGED tables
    BY <1>1, <2>1 DEF tables
  <2>3. QED
    BY <1>1, <2>2, TablesKept
<1>4. QED
  BY <1>2, <1>3

LEMMA TablesRelease ==
  ASSUME TableTypes, TableInv, NEW p \in Position, process_key_release(p)
  PROVE  TableTypes' /\ TableInv'
<1>1. /\ p \in edges /\ edges' = edges \ {p} /\ down' = down /\ phase = "dispatch"
      /\ phase' = phase /\ p \notin down
  BY EdgeIsTaken DEF process_key_release
<1>2. Held' = Held \ {p}
  BY <1>1 DEF Held
<1>3. pressed_keys \in Seq(Entry) /\ active_layer_keys \in Seq(LayerKey)
  BY DEF TableTypes
<1>4. CASE ReleaseTracked(p)
  <2> DEFINE i == Min(Entries(pressed_keys, p))
  <2>1. i \in DOMAIN pressed_keys /\ pressed_keys[i].pos = p
    BY <1>3, <1>4, FirstEntry DEF ReleaseTracked
  <2>2. /\ pressed_keys' = SwapRemove(pressed_keys, i)
        /\ active_layer_keys' = active_layer_keys /\ current_layer' = current_layer
    BY <1>4 DEF ReleaseTracked
  <2> HIDE DEF i
  <2>3. PressPositions' = PressPositions \ {p} /\ LayerPositions' = LayerPositions
    BY <1>3, <2>1, <2>2, PositionsRemove
    DEF PressPositions, LayerPositions, Positions, TableInv
  <2>4. OneEach(pressed_keys') /\ pressed_keys' \in Seq(Entry)
    BY <1>3, <2>1, <2>2, OneEachRemove, TableRemove DEF TableInv
  <2>5. p \in PressPositions
    BY <2>1 DEF PressPositions
  <2>6. QED
    BY <1>1, <1>2, <2>2, <2>3, <2>4, <2>5 DEF TableInv, TableTypes
<1>5. CASE ReleaseUntracked(p)
  <2>1. pressed_keys' = pressed_keys /\ p \notin PressPositions
    BY <1>5 DEF ReleaseUntracked, PressPositions, Entries
  <2>2. CASE Entries(active_layer_keys, p) = {}
    <3>1. active_layer_keys' = active_layer_keys /\ current_layer' = current_layer
      BY <1>5, <2>2 DEF ReleaseUntracked
    <3>2. p \notin LayerPositions
      BY <2>2 DEF LayerPositions, Entries
    <3>3. PressPositions' = PressPositions /\ LayerPositions' = LayerPositions
      BY <2>1, <3>1 DEF PressPositions, LayerPositions
    <3>4. QED
      BY <1>1, <1>2, <2>1, <3>1, <3>2, <3>3 DEF TableInv, TableTypes
  <2>3. CASE Entries(active_layer_keys, p) # {}
    <3> DEFINE i == Min(Entries(active_layer_keys, p))
    <3>1. i \in DOMAIN active_layer_keys /\ active_layer_keys[i].pos = p
      BY <1>3, <2>3, FirstEntry
    <3>2. /\ active_layer_keys' = SwapRemove(active_layer_keys, i)
          /\ current_layer' = HighestLayer(active_layer_keys')
      BY <1>5, <2>3 DEF ReleaseUntracked
    <3> HIDE DEF i
    <3>3. LayerPositions' = LayerPositions \ {p} /\ PressPositions' = PressPositions
      BY <1>3, <2>1, <3>1, <3>2, PositionsRemove
      DEF PressPositions, LayerPositions, Positions, TableInv
    <3>4. /\ OneEach(active_layer_keys') /\ active_layer_keys' \in Seq(LayerKey)
          /\ Len(active_layer_keys') = Len(active_layer_keys) - 1
          /\ Len(active_layer_keys) \in Nat
      BY <1>3, <3>1, <3>2, OneEachRemove, TableRemove DEF TableInv
    <3>5. current_layer' \in Layer
      BY <3>2, <3>4, HighestIsHeld
    <3>6. Len(active_layer_keys') <= MAX_LAYER_KEYS
      BY <3>4, KeyboardAssumption DEF TableTypes
    <3>7. TableTypes'
      BY <1>1, <2>1, <3>4, <3>5, <3>6 DEF TableTypes
    <3>8. QED
      BY <1>1, <1>2, <2>1, <3>3, <3>4, <3>7 DEF TableInv
  <2>4. QED
    BY <2>2, <2>3
<1>6. QED
  BY <1>4, <1>5 DEF process_key_release

LEMMA TablesPress ==
  ASSUME TableTypes, TableInv, NEW p \in Position, process_key_press(p)
  PROVE  TableTypes' /\ TableInv'
<1> DEFINE code == keymap_key_to_keycode(current_layer, p)
<1>1. code \in Keycode
  BY KeymapType DEF TableTypes
<1>2. NextEdge(p) /\ p \in down /\ phase = "dispatch"
  BY DEF process_key_press, NextEdge
<1>3. \/ PressLayer(p, code) \/ PressLed(code) \/ PressSys(code) \/ PressMacro(code)
      \/ PressConsumer(p, code) \/ PressBasic(p, code)
      \/ /\ code = NoCode
         /\ UNCHANGED <<phase, live, tables, altvars, ledvars, overflowed>>
  BY DEF process_key_press
<1> HIDE DEF code
<1>4. CASE PressLayer(p, code)
  BY <1>1, <1>2, <1>4, TablesPressLayer
<1>5. CASE PressConsumer(p, code) \/ PressBasic(p, code)
  <2>1. /\ phase' = phase /\ track_pressed_key(p, code)
        /\ UNCHANGED <<active_layer_keys, current_layer>>
    BY <1>5 DEF PressConsumer, PressBasic
  <2>2. QED
    BY <1>1, <1>2, <2>1, TablesTrack
<1>6. CASE PressSys(code)
  <2>1. phase' \in {"SYS_RST", "SYS_BOOT"} /\ UNCHANGED tables
    <3>1. code.kind = "sys" => code.reset \in {"SYS_RST", "SYS_BOOT"}
      BY <1>1 DEF Keycode, NoCode, TransCode, KeyCode, ModCode, LayerCode, MacroCode,
                  ConsumerCode, LedCode, SysCode
    <3>2. QED
      BY <1>6, <3>1 DEF PressSys
  <2>2. QED
    BY <1>2, <2>1, TablesKept
<1>7. CASE \/ PressLed(code) \/ PressMacro(code)
           \/ UNCHANGED <<phase, live, tables, altvars, ledvars, overflowed>>
  <2>1. phase' = phase /\ UNCHANGED tables
    BY <1>7 DEF PressLed, PressMacro
  <2>2. QED
    BY <1>2, <2>1, TablesKept
<1>8. QED
  BY <1>3, <1>4, <1>5, <1>6, <1>7

LEMMA TablesInit == Init => TableTypes /\ TableInv
<1> SUFFICES ASSUME Init PROVE TableTypes /\ TableInv
  OBVIOUS
<1>1. /\ down = {} /\ edges = {} /\ pressed_keys = <<>> /\ active_layer_keys = <<>>
      /\ current_layer = 0
  BY DEF Init
<1>2. DOMAIN <<>> = {} /\ Len(<<>>) = 0 /\ \A S : <<>> \in Seq(S)
  BY EmptySeq
<1>3. TableTypes
  BY <1>1, <1>2, KeyboardAssumption DEF TableTypes, Layer
<1>4. QED
  BY <1>1, <1>2, <1>3 DEF TableInv, OneEach, PressPositions, LayerPositions

LEMMA TablesStep ==
  TableTypes /\ TableInv /\ [Next]_vars => TableTypes' /\ TableInv'
<1> SUFFICES ASSUME TableTypes, TableInv, [Next]_vars PROVE TableTypes' /\ TableInv'
  OBVIOUS
<1>1. ASSUME NEW d \in SUBSET Position, Scan(d) PROVE TableTypes' /\ TableInv'
  <2>1. /\ phase = "scan" /\ phase' = "dispatch" /\ down' = d
        /\ edges' = (down \ d) \cup (d \ down) /\ UNCHANGED tables
    BY <1>1 DEF Scan
  <2>2. /\ pressed_keys' = pressed_keys /\ active_layer_keys' = active_layer_keys
        /\ current_layer' = current_layer
    BY <2>1 DEF tables
  <2>3. edges = {} /\ Held' = Held
    BY <2>1 DEF TableInv, Held
  <2>4. PressPositions' = PressPositions /\ LayerPositions' = LayerPositions
    BY <2>2 DEF PressPositions, LayerPositions
  <2>5. QED
    BY <2>1, <2>2, <2>3, <2>4 DEF TableTypes, TableInv
<1>2. ASSUME NEW p \in Position, process_key_press(p) PROVE TableTypes' /\ TableInv'
  BY <1>2, TablesPress
<1>3. ASSUME NEW p \in Position, process_key_release(p) PROVE TableTypes' /\ TableInv'
  BY <1>3, TablesRelease
<1>4. CASE \/ EncoderQuiet \/ encoder_alt_timeout_tick
           \/ \E locks \in LockReport : LedUpdate(locks)
           \/ \E dir \in {"CW", "CCW"} : encoder_step(dir)
           \/ UNCHANGED vars
  <2>1. /\ down' = down /\ edges' = edges /\ UNCHANGED tables
        /\ phase' \in {"scan", "alt", "led"} => edges = {}
    BY <1>4 DEF EncoderQuiet, encoder_alt_timeout_tick, LedUpdate, encoder_step, vars, matrix,
                TableInv
  <2>2. /\ pressed_keys' = pressed_keys /\ active_layer_keys' = active_layer_keys
        /\ current_layer' = current_layer
    BY <2>1 DEF tables
  <2>3. QED
    BY <2>1, <2>2 DEF TableTypes, TableInv, Held, PressPositions, LayerPositions
<1>5. CASE Restart
  <2>1. /\ down' = {} /\ edges' = {} /\ pressed_keys' = <<>> /\ active_layer_keys' = <<>>
        /\ current_layer' = 0
    BY <1>5 DEF Restart
  <2>2. DOMAIN <<>> = {} /\ Len(<<>>) = 0 /\ \A S : <<>> \in Seq(S)
    BY EmptySeq
  <2>3. TableTypes'
    BY <2>1, <2>2, KeyboardAssumption DEF TableTypes, Layer
  <2>4. QED
    BY <2>1, <2>2, <2>3 DEF TableInv, OneEach, PressPositions, LayerPositions
<1>6. QED
  BY <1>1, <1>2, <1>3, <1>4, <1>5 DEF Next, Tick

(* The tables hold the keys that are held, each once, and the layer keys are
   no more than the table has room for. *)
THEOREM TablesAlwaysMatch == Spec => []TablesMatchMatrix
<1>1. TableTypes /\ TableInv => TablesMatchMatrix
  BY PositionsCounted
  DEF TableTypes, TableInv, TablesMatchMatrix, PressPositions, LayerPositions, Held
<1>2. QED
  BY <1>1, TablesInit, TablesStep, PTL DEF Spec

------------------------------------------------------------------------------
(* What the report shows, and who keeps it there. *)

(* How many entries of the table have a keycode. *)
Num(s, code) == Cardinality(Holding(s, code))

LEMMA Numbered ==
  ASSUME NEW E, NEW s \in Seq(E)
  PROVE  /\ \A code : Num(s, code) \in Nat /\ (Num(s, code) > 0 <=> Holding(s, code) # {})
         /\ \A e \in E : \A code :
              Num(Append(s, e), code) = Num(s, code) + (IF e.keycode = code THEN 1 ELSE 0)
         /\ \A i \in DOMAIN s : \A code :
              Num(SwapRemove(s, i), code) =
                Num(s, code) - (IF s[i].keycode = code THEN 1 ELSE 0)
         /\ \A code : Num(<<>>, code) = 0
<1>1. ASSUME NEW code
      PROVE  Num(s, code) \in Nat /\ (Num(s, code) > 0 <=> Holding(s, code) # {})
  <2>1. IsFiniteSet(Holding(s, code)) /\ Num(s, code) \in Nat
    BY HoldingFinite DEF Num
  <2>2. Num(s, code) = 0 <=> Holding(s, code) = {}
    BY <2>1, FS_EmptySet DEF Num
  <2>3. QED
    BY <2>1, <2>2
<1>2. \A code : Num(<<>>, code) = 0
  BY FS_EmptySet DEF Num, Holding
<1>3. QED
  BY <1>1, <1>2, HoldingAppend, HoldingRemove DEF Num

ReportTypes ==
  /\ report \in Report
  /\ consumer \in Usage \cup {NoUsage}
  /\ out \in Seq(Report) /\ out # <<>>
  /\ overflowed \in BOOLEAN

(* Every usage shown has an entry of its own, and but for overflow every entry
   a slot. *)
KeysOwned ==
  /\ \A k \in Key : Count(report, k) <= Num(pressed_keys, KeyCode(k))
  /\ ~overflowed => \A k \in Key : Count(report, k) = Num(pressed_keys, KeyCode(k))

ModsOwned ==
  \A m \in modifier : Num(pressed_keys, ModCode(m)) > 0 \/ (m = MOD_LALT /\ alt_held)

ConsumerOwned ==
  consumer # NoUsage => Num(pressed_keys, ConsumerCode(consumer)) > 0

ReportInv ==
  /\ out[Len(out)] = report
  /\ KeysOwned /\ ModsOwned /\ ConsumerOwned

(* send_mod_key of a macro key *)
LEMMA ReportMacro ==
  ASSUME TableTypes, ReportTypes, ReportInv, NEW code \in Keycode, PressMacro(code)
  PROVE  ReportTypes' /\ ReportInv'
<1> DEFINE reports == Chord(report, {code.mod}, code.key)
<1>1. /\ code.key \in Key /\ {code.mod} \in SUBSET Mod /\ report \in Report
      /\ report.modifier = modifier
  BY KeycodeFields DEF PressMacro, ReportTypes, report
<1>2. /\ reports \in Seq(Report) /\ Len(reports) = 2
      /\ reports[2].modifier = modifier \ {code.mod} /\ KeepsCounts(report, reports[2])
  BY <1>1, ChordIsTap
<1>3. Stage(reports)
  BY DEF PressMacro
<1>4. /\ consumer' = consumer /\ pressed_keys' = pressed_keys /\ alt_held' = alt_held
      /\ overflowed' = (overflowed \/ ~RoomFor(report))
  BY DEF PressMacro, tables, altvars
<1> HIDE DEF reports
<1>5. /\ out' = reports /\ out' \in Seq(Report) /\ out' # <<>>
      /\ report' = reports[2] /\ report' \in Report
  BY <1>2, <1>3, LastIsLive
<1>6. modifier' = report'.modifier
  BY DEF report
<1>7. KeysOwned'
  <2>1. /\ \A k : Count(report, k) \in Nat /\ Count(report', k) \in Nat
        /\ \A c : Num(pressed_keys, c) \in Nat
    BY SlotsCounted, Numbered DEF TableTypes
  <2>2. \A k \in Key : Count(report', k) <= Num(pressed_keys', KeyCode(k))
    BY <1>2, <1>4, <1>5, <2>1 DEF KeysOwned, ReportInv, KeepsCounts
  <2>3. ASSUME ~overflowed'
        PROVE  \A k \in Key : Count(report', k) = Num(pressed_keys', KeyCode(k))
    <3>1. ~overflowed /\ RoomFor(report)
      BY <1>4, <2>3
    <3>2. QED
      BY <1>2, <1>4, <1>5, <3>1 DEF KeysOwned, ReportInv, KeepsCounts
  <2>4. QED
    BY <2>2, <2>3 DEF KeysOwned
<1>8. ModsOwned'
  BY <1>2, <1>4, <1>5, <1>6 DEF ModsOwned, ReportInv
<1>9. ReportTypes' /\ ConsumerOwned' /\ out'[Len(out')] = report'
  BY <1>2, <1>4, <1>5 DEF ReportTypes, ReportInv, ConsumerOwned
<1>10. QED
  BY <1>7, <1>8, <1>9 DEF ReportInv

LEMMA ReportConsumer ==
  ASSUME TableTypes, ReportTypes, ReportInv, NEW p \in Position, NEW code \in Keycode,
         PressConsumer(p, code)
  PROVE  ReportTypes' /\ ReportInv'
<1> DEFINE e == [pos |-> p, keycode |-> code]
<1>1. /\ code.usage \in Usage /\ code = ConsumerCode(code.usage)
      /\ consumer' = code.usage /\ UNCHANGED <<modifier, slots, out, overflowed, alt_held>>
      /\ pressed_keys' = Append(pressed_keys, e)
  BY KeycodeFields DEF PressConsumer, track_pressed_key, altvars
<1>2. e \in Entry /\ e.keycode = code /\ pressed_keys \in Seq(Entry)
  BY DEF Entry, TableTypes
<1> HIDE DEF e
<1>3. /\ \A c : Num(pressed_keys, c) \in Nat
      /\ \A c : Num(pressed_keys', c) = Num(pressed_keys, c) + (IF code = c THEN 1 ELSE 0)
  BY <1>1, <1>2, Numbered
<1>4. report' = report
  BY <1>1 DEF report
<1>5. \A k : KeyCode(k) # code
  BY <1>1, CodesDiffer
<1>6. KeysOwned'
  BY <1>1, <1>3, <1>4, <1>5 DEF KeysOwned, ReportInv
<1>7. ModsOwned'
  BY <1>1, <1>3 DEF ModsOwned, ReportInv
<1>8. ConsumerOwned'
  BY <1>1, <1>3 DEF ConsumerOwned
<1>9. ReportTypes' /\ out'[Len(out')] = report'
  BY <1>1, <1>4 DEF ReportTypes, ReportInv
<1>10. QED
  BY <1>6, <1>7, <1>8, <1>9 DEF ReportInv

LEMMA ReportBasic ==
  ASSUME TableTypes, ReportTypes, ReportInv, NEW p \in Position, NEW code \in Keycode,
         PressBasic(p, code)
  PROVE  ReportTypes' /\ ReportInv'
<1> DEFINE e == [pos |-> p, keycode |-> code]
           after == IF code.kind = "mod" THEN SetMod(report, {code.mod})
                                         ELSE AddKey(report, code.key)
<1>1. /\ code.kind \in {"key", "mod"} /\ Stage(<<after>>)
      /\ overflowed' = (overflowed \/ (code.kind = "key" /\ ~RoomFor(report)))
      /\ pressed_keys' = Append(pressed_keys, e) /\ consumer' = consumer
      /\ alt_held' = alt_held
  BY DEF PressBasic, track_pressed_key, altvars
<1>2. e \in Entry /\ e.keycode = code /\ pressed_keys \in Seq(Entry)
  BY DEF Entry, TableTypes
<1> HIDE DEF e
<1>3. /\ \A c : Num(pressed_keys, c) \in Nat
      /\ \A c : Num(pressed_keys', c) = Num(pressed_keys, c) + (IF code = c THEN 1 ELSE 0)
  BY <1>1, <1>2, Numbered
<1>4. report \in Report /\ report.modifier = modifier
  BY DEF ReportTypes, report
<1>5. \A k : Count(report, k) \in Nat
  BY SlotsCounted
<1>6. /\ after \in Report
      /\ KeysOwned /\ after = report' => KeysOwned'
      /\ ModsOwned /\ after.modifier = modifier' => ModsOwned'
  <2>1. CASE code.kind = "mod"
    <3>1. code.mod \in Mod /\ code = ModCode(code.mod)
      BY <2>1, KeycodeFields
    <3>2. /\ after = SetMod(report, {code.mod}) /\ {code.mod} \in SUBSET Mod
      BY <2>1, <3>1
    <3> HIDE DEF after
    <3>3. /\ after \in Report /\ after.modifier = modifier \cup {code.mod}
          /\ \A k : Count(after, k) = Count(report, k)
      BY <1>4, <3>2, ModBits DEF Count
    <3>4. \A k : KeyCode(k) # code
      BY <3>1, CodesDiffer
    <3>5. KeysOwned /\ after = report' => KeysOwned'
      <4>1. ~overflowed' => ~overflowed
        BY <1>1
      <4>2. QED
        BY <1>3, <3>3, <3>4, <4>1 DEF KeysOwned
    <3>6. ModsOwned /\ after.modifier = modifier' => ModsOwned'
      BY <1>1, <1>3, <3>1, <3>3 DEF ModsOwned
    <3>7. QED
      BY <3>3, <3>5, <3>6
  <2>2. CASE code.kind = "key"
    <3>1. code.key \in Key /\ code = KeyCode(code.key)
      BY <2>2, KeycodeFields
    <3>2. after = AddKey(report, code.key)
      BY <2>2
    <3> HIDE DEF after
    <3>3. /\ after \in Report /\ after.modifier = modifier
          /\ \A k \in Key : Count(after, k) =
               Count(report, k) + (IF RoomFor(report) /\ k = code.key THEN 1 ELSE 0)
      BY <1>4, <3>1, <3>2, KeyAdded
    <3>4. \A k : KeyCode(k) = code <=> k = code.key
      BY <3>1, CodesDiffer
    <3>5. KeysOwned /\ after = report' => KeysOwned'
      <4> SUFFICES ASSUME KeysOwned, after = report' PROVE KeysOwned'
        OBVIOUS
      <4>1. \A k \in Key : Count(report', k) <= Num(pressed_keys', KeyCode(k))
        BY <1>3, <1>5, <3>3, <3>4 DEF KeysOwned
      <4>2. ASSUME ~overflowed'
            PROVE  \A k \in Key : Count(report', k) = Num(pressed_keys', KeyCode(k))
        BY <1>1, <1>3, <1>5, <2>2, <3>3, <3>4, <4>2 DEF KeysOwned
      <4>3. QED
        BY <4>1, <4>2 DEF KeysOwned
    <3>6. ModsOwned /\ after.modifier = modifier' => ModsOwned'
      BY <1>1, <1>3, <3>3 DEF ModsOwned
    <3>7. QED
      BY <3>3, <3>5, <3>6
  <2>3. QED
    BY <1>1, <2>1, <2>2
<1> HIDE DEF after
<1>7. <<after>> \in Seq(Report) /\ <<after>> # <<>> /\ Len(<<after>>) = 1 /\ <<after>>[1] = after
  BY <1>6
<1>8. /\ out' = <<after>> /\ report' = after /\ report' \in Report
  BY <1>1, <1>7, LastIsLive
<1>9. modifier' = after.modifier
  BY <1>8 DEF report
<1>10. KeysOwned' /\ ModsOwned'
  BY <1>6, <1>8, <1>9 DEF ReportInv
<1>11. ConsumerOwned'
  BY <1>1, <1>3 DEF ConsumerOwned, ReportInv
<1>12. ReportTypes' /\ out'[Len(out')] = report'
  BY <1>1, <1>7, <1>8 DEF ReportTypes
<1>13. QED
  BY <1>10, <1>11, <1>12 DEF ReportInv

LEMMA ReportRelease ==
  ASSUME TableTypes, ReportTypes, ReportInv, NEW p \in Position, ReleaseTracked(p),
         alt_held' = alt_held
  PROVE  ReportTypes' /\ ReportInv'
<1> DEFINE i == Min(Entries(pressed_keys, p))
           code == pressed_keys[i].keycode
           after == IF code.kind = "mod" THEN ClearMod(report, {code.mod})
                                         ELSE RemoveKey(report, code.key)
<1>1. pressed_keys \in Seq(Entry) /\ i \in DOMAIN pressed_keys
  BY FirstEntry DEF ReleaseTracked, TableTypes
<1>2. code \in Keycode
  <2>1. pressed_keys[i] \in Entry
    BY <1>1, LenProperties
  <2>2. QED
    BY <2>1 DEF Entry
<1>3. /\ pressed_keys' = SwapRemove(pressed_keys, i)
      /\ overflowed' = (overflowed /\ pressed_keys' # <<>>)
      /\ \/ /\ code.kind = "consumer" /\ consumer' = NoUsage
            /\ modifier' = modifier /\ slots' = slots /\ out' = out
         \/ /\ code.kind \in {"key", "mod"} /\ Stage(<<after>>) /\ consumer' = consumer
  BY DEF ReleaseTracked
<1> HIDE DEF i, after
<1>4. /\ \A c : Num(pressed_keys, c) \in Nat
      /\ \A c : Num(pressed_keys', c) = Num(pressed_keys, c) - (IF code = c THEN 1 ELSE 0)
  BY <1>1, <1>3, Numbered
<1>5. \A c : Num(pressed_keys', c) \in Nat
  BY <1>1, <1>3, TableRemove, Numbered
<1>6. pressed_keys' = <<>> => \A c : Num(pressed_keys', c) = 0
  BY <1>1, Numbered
<1> HIDE DEF code
<1>7. report \in Report /\ report.modifier = modifier
  BY DEF ReportTypes, report
<1>8. \A r, k : Count(r, k) \in Nat
  BY SlotsCounted
<1>9. CASE code.kind = "consumer"
  <2>1. code = ConsumerCode(code.usage)
    BY <1>2, <1>9, KeycodeFields
  <2>2. consumer' = NoUsage /\ modifier' = modifier /\ slots' = slots /\ out' = out
    BY <1>3, <1>9
  <2>3. report' = report
    BY <2>2 DEF report
  <2>4. (\A k : KeyCode(k) # code) /\ (\A m : ModCode(m) # code)
    BY <2>1, CodesDiffer
  <2>5. \A k \in Key : Count(report', k) <= Num(pressed_keys', KeyCode(k))
    BY <1>4, <2>3, <2>4 DEF ReportInv, KeysOwned
  <2>6. ASSUME ~overflowed'
        PROVE  \A k \in Key : Count(report', k) = Num(pressed_keys', KeyCode(k))
    <3>1. CASE ~overflowed
      BY <1>4, <2>3, <2>4, <3>1 DEF ReportInv, KeysOwned
    <3>2. CASE pressed_keys' = <<>>
      BY <1>6, <1>8, <2>5, <3>2
    <3>3. QED
      BY <1>3, <2>6, <3>1, <3>2
  <2>7. ModsOwned'
    BY <1>4, <2>2, <2>4 DEF ModsOwned, ReportInv
  <2>8. ReportTypes' /\ ConsumerOwned' /\ out'[Len(out')] = report'
    BY <1>3, <2>2, <2>3 DEF ReportTypes, ReportInv, ConsumerOwned
  <2>9. QED
    BY <2>5, <2>6, <2>7, <2>8 DEF ReportInv, KeysOwned
<1>10. CASE code.kind \in {"key", "mod"}
  <2>1. Stage(<<after>>) /\ consumer' = consumer
    BY <1>3, <1>10
  <2>2. /\ after \in Report
        /\ \A k \in Key : Count(after, k) <= Num(pressed_keys', KeyCode(k))
        /\ ~overflowed =>
             \A k \in Key : Count(after, k) = Num(pressed_keys', KeyCode(k))
        /\ \A m \in after.modifier : m \in modifier /\ ModCode(m) # code
    <3>1. CASE code.kind = "mod"
      <4>1. code.mod \in Mod /\ code = ModCode(code.mod) /\ {code.mod} \in SUBSET Mod
        BY <1>2, <3>1, KeycodeFields
      <4>2. after = ClearMod(report, {code.mod})
        BY <3>1 DEF after
      <4>3. /\ after \in Report /\ after.modifier = modifier \ {code.mod}
            /\ \A k : Count(after, k) = Count(report, k)
        BY <1>7, <4>1, <4>2, ModBits DEF Count
      <4>4. (\A k : KeyCode(k) # code) /\ (\A m : ModCode(m) = code <=> m = code.mod)
        BY <4>1, CodesDiffer
      <4>5. QED
        BY <1>4, <4>3, <4>4 DEF ReportInv, KeysOwned
    <3>2. CASE code.kind = "key"
      <4>1. code.key \in Key /\ code = KeyCode(code.key)
        BY <1>2, <3>2, KeycodeFields
      <4>2. after = RemoveKey(report, code.key)
        BY <3>2 DEF after
      <4>3. /\ after \in Report /\ after.modifier = modifier
            /\ \A k \in Key : Count(after, k) =
                 IF k = code.key /\ Count(report, code.key) > 0
                 THEN Count(report, k) - 1 ELSE Count(report, k)
        BY <1>7, <4>1, <4>2, KeyRemoved
      <4>4. (\A k : KeyCode(k) = code <=> k = code.key) /\ (\A m : ModCode(m) # code)
        BY <4>1, CodesDiffer
      <4>5. \A k \in Key : Count(report, k) <= Num(pressed_keys, KeyCode(k))
        BY DEF ReportInv, KeysOwned
      <4>6. \A k \in Key : Count(after, k) <= Num(pressed_keys', KeyCode(k))
        BY <1>4, <1>5, <1>8, <4>3, <4>4, <4>5
      <4>7. ASSUME ~overflowed
            PROVE  \A k \in Key : Count(after, k) = Num(pressed_keys', KeyCode(k))
        <5>1. \A k \in Key : Count(report, k) = Num(pressed_keys, KeyCode(k))
          BY <4>7 DEF ReportInv, KeysOwned
        <5>2. QED
          BY <1>4, <1>5, <1>8, <4>3, <4>4, <5>1
      <4>8. QED
        BY <4>3, <4>4, <4>6, <4>7
    <3>3. QED
      BY <1>10, <3>1, <3>2
  <2>3. <<after>> \in Seq(Report) /\ <<after>> # <<>> /\ Len(<<after>>) = 1
        /\ <<after>>[1] = after
    BY <2>2
  <2>4. /\ out' = <<after>> /\ report' = after /\ report' \in Report
    BY <2>1, <2>3, LastIsLive
  <2>5. modifier' = after.modifier
    BY <2>4 DEF report
  <2>6. \A k \in Key : Count(report', k) <= Num(pressed_keys', KeyCode(k))
    BY <2>2, <2>4
  <2>7. ASSUME ~overflowed'
        PROVE  \A k \in Key : Count(report', k) = Num(pressed_keys', KeyCode(k))
    <3>1. CASE ~overflowed
      BY <2>2, <2>4, <3>1
    <3>2. CASE pressed_keys' = <<>>
      BY <1>6, <1>8, <2>6, <3>2
    <3>3. QED
      BY <1>3, <2>7, <3>1, <3>2
  <2>8. ModsOwned'
    BY <1>4, <2>2, <2>5 DEF ModsOwned, ReportInv
  <2>9. ConsumerOwned'
    <3>1. \A u : ConsumerCode(u) # code
      BY <1>10, CodesDiffer
    <3>2. QED
      BY <1>4, <2>1, <3>1 DEF ConsumerOwned, ReportInv
  <2>10. ReportTypes' /\ out'[Len(out')] = report'
    BY <1>3, <2>1, <2>3, <2>4 DEF ReportTypes
  <2>11. QED
    BY <2>6, <2>7, <2>8, <2>9, <2>10 DEF ReportInv, KeysOwned
<1>11. QED
  BY <1>3, <1>9, <1>10

(* One step of the encoder's gesture. *)
LEMMA ReportEncoder ==
  ASSUME TableTypes, ReportTypes, ReportInv, NEW dir \in {"CW", "CCW"}, encoder_step(dir)
  PROVE  ReportTypes' /\ ReportInv'
<1> DEFINE reports == AltTab(report, dir)
           last    == reports[Len(reports)]
<1>1. report \in Report /\ report.modifier = modifier
  BY DEF ReportTypes, report
<1>2. /\ reports \in Seq(Report) /\ reports # <<>>
      /\ last.modifier \subseteq modifier \cup {MOD_LALT} /\ KeepsCounts(report, last)
  BY <1>1, AltTabIsTap
<1>3. Stage(reports)
  BY DEF encoder_step
<1>4. /\ consumer' = consumer /\ pressed_keys' = pressed_keys /\ alt_held' = TRUE
      /\ overflowed' = (overflowed \/ ~RoomFor(report))
  BY DEF encoder_step, tables
<1> HIDE DEF reports
<1>5. /\ out' = reports /\ out' \in Seq(Report) /\ out' # <<>>
      /\ report' = last /\ report' \in Report
  BY <1>2, <1>3, LastIsLive
<1>6. modifier' = report'.modifier
  BY DEF report
<1>7. KeysOwned'
  <2>1. /\ \A k : Count(report, k) \in Nat /\ Count(report', k) \in Nat
        /\ \A c : Num(pressed_keys, c) \in Nat
    BY SlotsCounted, Numbered DEF TableTypes
  <2>2. \A k \in Key : Count(report', k) <= Num(pressed_keys', KeyCode(k))
    BY <1>2, <1>4, <1>5, <2>1 DEF KeysOwned, ReportInv, KeepsCounts
  <2>3. ASSUME ~overflowed'
        PROVE  \A k \in Key : Count(report', k) = Num(pressed_keys', KeyCode(k))
    <3>1. ~overflowed /\ RoomFor(report)
      BY <1>4, <2>3
    <3>2. QED
      BY <1>2, <1>4, <1>5, <3>1 DEF KeysOwned, ReportInv, KeepsCounts
  <2>4. QED
    BY <2>2, <2>3 DEF KeysOwned
<1>8. ModsOwned'
  BY <1>2, <1>4, <1>5, <1>6 DEF ModsOwned, ReportInv
<1>9. ReportTypes' /\ ConsumerOwned' /\ out'[Len(out')] = report'
  BY <1>4, <1>5 DEF ReportTypes, ReportInv, ConsumerOwned
<1>10. QED
  BY <1>7, <1>8, <1>9 DEF ReportInv

(* The release of the gesture's Alt. *)
LEMMA ReportAltRelease ==
  ASSUME TableTypes, ReportTypes, ReportInv, Stage(<<ClearMod(report, {MOD_LALT})>>),
         UNCHANGED <<consumer, pressed_keys, overflowed>>
  PROVE  ReportTypes' /\ ReportInv'
<1> DEFINE after == ClearMod(report, {MOD_LALT})
<1>1. report \in Report /\ report.modifier = modifier /\ {MOD_LALT} \in SUBSET Mod
  BY KeyboardAssumption DEF ReportTypes, report
<1>2. /\ after \in Report /\ after.modifier = modifier \ {MOD_LALT}
      /\ \A k : Count(after, k) = Count(report, k)
  BY <1>1, ModBits DEF Count
<1>3. Stage(<<after>>)
  OBVIOUS
<1> HIDE DEF after
<1>4. <<after>> \in Seq(Report) /\ <<after>> # <<>> /\ Len(<<after>>) = 1 /\ <<after>>[1] = after
  BY <1>2
<1>5. /\ out' = <<after>> /\ report' = after /\ report' \in Report
  BY <1>3, <1>4, LastIsLive
<1>6. modifier' = after.modifier
  BY <1>5 DEF report
<1>7. KeysOwned'
  BY <1>2, <1>5 DEF KeysOwned, ReportInv
<1>8. ModsOwned'
  BY <1>2, <1>6 DEF ModsOwned, ReportInv
<1>9. ReportTypes' /\ ConsumerOwned' /\ out'[Len(out')] = report'
  BY <1>4, <1>5 DEF ReportTypes, ReportInv, ConsumerOwned
<1>10. QED
  BY <1>7, <1>8, <1>9 DEF ReportInv

LEMMA ReportKept ==
  ASSUME ReportTypes, ReportInv, UNCHANGED live,
         UNCHANGED <<pressed_keys, alt_held, overflowed>>
  PROVE  ReportTypes' /\ ReportInv'
<1>1. /\ modifier' = modifier /\ slots' = slots /\ consumer' = consumer /\ out' = out
      /\ pressed_keys' = pressed_keys /\ alt_held' = alt_held /\ overflowed' = overflowed
  BY DEF live
<1>2. report' = report
  BY <1>1 DEF report
<1>3. QED
  BY <1>1, <1>2 DEF ReportTypes, ReportInv, KeysOwned, ModsOwned, ConsumerOwned

(* An empty report, on power-up and after a restart. *)
LEMMA EmptyReport ==
  LET r == [modifier |-> {}, keycode |-> NoKeys]
  IN  /\ r \in Report /\ r.modifier = {}
      /\ \A k \in Key : Count(r, k) = 0
      /\ <<r>> \in Seq(Report) /\ <<r>> # <<>> /\ Len(<<r>>) = 1 /\ <<r>>[1] = r
      /\ \A code : Num(<<>>, code) = 0
<1> DEFINE r == [modifier |-> {}, keycode |-> NoKeys]
<1>1. r \in Report /\ r.modifier = {}
  BY DEF Report, NoKeys
<1>2. ASSUME NEW k \in Key PROVE Count(r, k) = 0
  <2>1. SlotsWith(r, k) = {}
    BY KeyboardAssumption DEF SlotsWith, NoKeys
  <2>2. QED
    BY <2>1, FS_EmptySet DEF Count
<1>3. \A code : Num(<<>>, code) = 0
  BY FS_EmptySet DEF Num, Holding
<1> HIDE DEF r
<1>4. <<r>> \in Seq(Report) /\ <<r>> # <<>> /\ Len(<<r>>) = 1 /\ <<r>>[1] = r
  BY <1>1
<1>5. QED
  BY <1>1, <1>2, <1>3, <1>4 DEF r

LEMMA ReportInit == Init => ReportTypes /\ ReportInv
<1> SUFFICES ASSUME Init PROVE ReportTypes /\ ReportInv
  OBVIOUS
<1> DEFINE r == [modifier |-> {}, keycode |-> NoKeys]
<1>1. /\ report = r /\ out = <<r>> /\ modifier = {} /\ consumer = NoUsage
      /\ pressed_keys = <<>> /\ overflowed = FALSE
  BY DEF Init, report
<1> HIDE DEF r
<1>2. /\ r \in Report /\ \A k \in Key : Count(r, k) = 0
      /\ <<r>> \in Seq(Report) /\ <<r>> # <<>> /\ Len(<<r>>) = 1 /\ <<r>>[1] = r
      /\ \A code : Num(<<>>, code) = 0
  BY EmptyReport DEF r
<1>3. ReportTypes
  BY <1>1, <1>2 DEF ReportTypes
<1>4. KeysOwned
  BY <1>1, <1>2 DEF KeysOwned
<1>5. ModsOwned /\ ConsumerOwned
  BY <1>1 DEF ModsOwned, ConsumerOwned
<1>6. out[Len(out)] = report
  BY <1>1, <1>2
<1>7. QED
  BY <1>3, <1>4, <1>5, <1>6 DEF ReportInv

LEMMA ReportPress ==
  ASSUME TableTypes, ReportTypes, ReportInv, NEW p \in Position, process_key_press(p)
  PROVE  ReportTypes' /\ ReportInv'
<1> DEFINE code == keymap_key_to_keycode(current_layer, p)
<1>1. code \in Keycode
  BY KeymapType DEF TableTypes
<1>2. \/ PressLayer(p, code) \/ PressLed(code) \/ PressSys(code) \/ PressMacro(code)
      \/ PressConsumer(p, code) \/ PressBasic(p, code)
      \/ UNCHANGED <<phase, live, tables, altvars, ledvars, overflowed>>
  BY DEF process_key_press
<1> HIDE DEF code
<1>3. CASE PressMacro(code)
  BY <1>1, <1>3, ReportMacro
<1>4. CASE PressConsumer(p, code)
  BY <1>1, <1>4, ReportConsumer
<1>5. CASE PressBasic(p, code)
  BY <1>1, <1>5, ReportBasic
<1>6. CASE \/ PressLayer(p, code) \/ PressLed(code) \/ PressSys(code)
           \/ UNCHANGED <<phase, live, tables, altvars, ledvars, overflowed>>
  <2>1. UNCHANGED live /\ UNCHANGED <<pressed_keys, alt_held, overflowed>>
    BY <1>6 DEF PressLayer, PressLed, PressSys, tables, altvars
  <2>2. QED
    BY <2>1, ReportKept
<1>7. QED
  BY <1>2, <1>3, <1>4, <1>5, <1>6

LEMMA ReportStep ==
  TableTypes /\ ReportTypes /\ ReportInv /\ [Next]_vars => ReportTypes' /\ ReportInv'
<1> SUFFICES ASSUME TableTypes, ReportTypes, ReportInv, [Next]_vars
             PROVE  ReportTypes' /\ ReportInv'
  OBVIOUS
<1>1. ASSUME NEW p \in Position, process_key_press(p) PROVE ReportTypes' /\ ReportInv'
  BY <1>1, ReportPress
<1>2. ASSUME NEW p \in Position, process_key_release(p) PROVE ReportTypes' /\ ReportInv'
  <2>1. alt_held' = alt_held
    BY <1>2 DEF process_key_release, altvars
  <2>2. CASE ReleaseTracked(p)
    BY <2>1, <2>2, ReportRelease
  <2>3. CASE ReleaseUntracked(p)
    <3>1. UNCHANGED live /\ UNCHANGED <<pressed_keys, alt_held, overflowed>>
      BY <2>1, <2>3 DEF ReleaseUntracked
    <3>2. QED
      BY <3>1, ReportKept
  <2>4. QED
    BY <1>2, <2>2, <2>3 DEF process_key_release
<1>3. ASSUME NEW dir \in {"CW", "CCW"}, encoder_step(dir) PROVE ReportTypes' /\ ReportInv'
  BY <1>3, ReportEncoder
<1>4. CASE encoder_alt_timeout_tick
  <2>1. consumer' = consumer /\ UNCHANGED <<consumer, pressed_keys, overflowed>>
    BY <1>4 DEF encoder_alt_timeout_tick, tables
  <2>2. CASE alt_held /\ AltExpired
    <3>1. Stage(<<ClearMod(report, {MOD_LALT})>>)
      BY <1>4, <2>2 DEF encoder_alt_timeout_tick
    <3>2. QED
      BY <2>1, <3>1, ReportAltRelease
  <2>3. CASE ~(alt_held /\ AltExpired)
    <3>1. UNCHANGED <<alt_held, modifier, slots, out>>
      BY <1>4, <2>3 DEF encoder_alt_timeout_tick, altvars
    <3>2. QED
      BY <2>1, <3>1, ReportKept DEF live
  <2>4. QED
    BY <2>2, <2>3
<1>5. CASE \/ \E d \in SUBSET Position : Scan(d)
           \/ EncoderQuiet
           \/ \E locks \in LockReport : LedUpdate(locks)
           \/ UNCHANGED vars
  <2>1. UNCHANGED live /\ UNCHANGED <<pressed_keys, alt_held, overflowed>>
    BY <1>5 DEF Scan, EncoderQuiet, LedUpdate, vars, tables, altvars
  <2>2. QED
    BY <2>1, ReportKept
<1>6. CASE Restart
  <2> DEFINE r == [modifier |-> {}, keycode |-> NoKeys]
  <2>1. /\ report' = r /\ out' = <<r>> /\ modifier' = {} /\ consumer' = NoUsage
        /\ pressed_keys' = <<>> /\ overflowed' = FALSE
    BY <1>6 DEF Restart, report
  <2> HIDE DEF r
  <2>2. /\ r \in Report /\ \A k \in Key : Count(r, k) = 0
        /\ <<r>> \in Seq(Report) /\ <<r>> # <<>> /\ Len(<<r>>) = 1 /\ <<r>>[1] = r
        /\ \A code : Num(<<>>, code) = 0
    BY EmptyReport DEF r
  <2>3. ReportTypes'
    BY <2>1, <2>2 DEF ReportTypes
  <2>4. KeysOwned'
    BY <2>1, <2>2 DEF KeysOwned
  <2>5. ModsOwned' /\ ConsumerOwned'
    BY <2>1 DEF ModsOwned, ConsumerOwned
  <2>6. out'[Len(out')] = report'
    BY <2>1, <2>2
  <2>7. QED
    BY <2>3, <2>4, <2>5, <2>6 DEF ReportInv
<1>7. QED
  BY <1>1, <1>2, <1>3, <1>4, <1>5, <1>6 DEF Next, Tick

------------------------------------------------------------------------------
(* The layer in force, the gesture's timer and the LEDs. *)

RestTypes ==
  /\ phase \in {"scan", "dispatch", "alt", "led", "SYS_RST", "SYS_BOOT"}
  /\ alt_held \in BOOLEAN
  /\ alt_idle_ticks \in 0..(ALT_RELEASE_TIMEOUT - 1)
  /\ led_index \in 0..(LED_TABLE_SIZE - 1)
  /\ led_pwm \in [{"A", "B"} -> 0..LED_BRIGHTNESS_MAX] /\ led_report \subseteq {"A", "B"}

RestInv == LayerFollowsKeys /\ LedsTellLayer

(* What a step does to the layer table leaves the highest layer in force. *)
LEMMA LayerStep ==
  TableTypes /\ LayerFollowsKeys /\ [Next]_vars => LayerFollowsKeys'
<1> SUFFICES ASSUME TableTypes, LayerFollowsKeys, [Next]_vars PROVE LayerFollowsKeys'
  OBVIOUS
<1>1. CASE UNCHANGED <<active_layer_keys, current_layer>>
  BY <1>1 DEF LayerFollowsKeys
<1>2. ASSUME active_layer_keys' \in Seq(LayerKey),
             current_layer' = HighestLayer(active_layer_keys')
      PROVE  LayerFollowsKeys'
  BY <1>2, HighestIsHeld DEF LayerFollowsKeys
<1>3. ASSUME NEW p \in Position, process_key_press(p) PROVE LayerFollowsKeys'
  <2> DEFINE code == keymap_key_to_keycode(current_layer, p)
             e == [pos |-> p, target |-> code.target]
  <2>1. CASE PressLayer(p, code) /\ Len(active_layer_keys) < MAX_LAYER_KEYS
    <3>1. code \in Keycode
      BY KeymapType DEF TableTypes
    <3>2. e \in LayerKey /\ active_layer_keys \in Seq(LayerKey)
      BY <2>1, <3>1, KeycodeFields DEF LayerKey, TableTypes, PressLayer
    <3>3. /\ active_layer_keys' = Append(active_layer_keys, e)
          /\ current_layer' = HighestLayer(active_layer_keys')
      BY <2>1 DEF PressLayer
    <3> HIDE DEF e
    <3>4. active_layer_keys' \in Seq(LayerKey)
      BY <3>2, <3>3, TableAppend
    <3>5. QED
      BY <1>2, <3>3, <3>4
  <2>2. CASE ~(PressLayer(p, code) /\ Len(active_layer_keys) < MAX_LAYER_KEYS)
    <3>1. \/ PressLayer(p, code) \/ PressLed(code) \/ PressSys(code) \/ PressMacro(code)
          \/ PressConsumer(p, code) \/ PressBasic(p, code)
          \/ UNCHANGED <<phase, live, tables, altvars, ledvars, overflowed>>
      BY <1>3 DEF process_key_press
    <3> HIDE DEF code
    <3>2. UNCHANGED <<active_layer_keys, current_layer>>
      BY <2>2, <3>1
      DEF PressLayer, PressLed, PressSys, PressMacro, PressConsumer, PressBasic, tables
    <3>3. QED
      BY <1>1, <3>2
  <2>3. QED
    BY <2>1, <2>2
<1>4. ASSUME NEW p \in Position, process_key_release(p) PROVE LayerFollowsKeys'
  <2> DEFINE i == Min(Entries(active_layer_keys, p))
  <2>1. CASE ReleaseUntracked(p) /\ Entries(active_layer_keys, p) # {}
    <3>1. /\ active_layer_keys' = SwapRemove(active_layer_keys, i)
          /\ current_layer' = HighestLayer(active_layer_keys')
      BY <2>1 DEF ReleaseUntracked
    <3>2. active_layer_keys \in Seq(LayerKey) /\ i \in DOMAIN active_layer_keys
      BY <2>1, FirstEntry DEF TableTypes
    <3>3. active_layer_keys' \in Seq(LayerKey)
      BY <3>1, <3>2, TableRemove
    <3>4. QED
      BY <1>2, <3>1, <3>3
  <2>2. CASE ~(ReleaseUntracked(p) /\ Entries(active_layer_keys, p) # {})
    <3>1. UNCHANGED <<active_layer_keys, current_layer>>
      BY <1>4, <2>2 DEF process_key_release, ReleaseUntracked, ReleaseTracked
    <3>2. QED
      BY <1>1, <3>1
  <2>3. QED
    BY <2>1, <2>2
<1>5. CASE Restart
  BY <1>5 DEF Restart, LayerFollowsKeys
<1>6. CASE \/ \E d \in SUBSET Position : Scan(d)
           \/ EncoderQuiet \/ encoder_alt_timeout_tick
           \/ \E locks \in LockReport : LedUpdate(locks)
           \/ \E dir \in {"CW", "CCW"} : encoder_step(dir)
           \/ UNCHANGED vars
  <2>1. UNCHANGED <<active_layer_keys, current_layer>>
    BY <1>6 DEF Scan, EncoderQuiet, encoder_alt_timeout_tick, LedUpdate, encoder_step, vars,
                tables
  <2>2. QED
    BY <1>1, <2>1
<1>7. QED
  BY <1>3, <1>4, <1>5, <1>6 DEF Next, Tick

(* LedsTellLayer, of given keys and LEDs. *)
HeldFrom(keys, l) == \E i \in DOMAIN keys : keys[i].target >= l

LedsTell(keys, index, pwm, lit) ==
  /\ IF "A" \in lit THEN pwm["A"] = LED_BRIGHTNESS_MAX
                    ELSE Shows(pwm["A"], led_table[index], HeldFrom(keys, 1))
  /\ IF "B" \in lit THEN pwm["B"] = LED_BRIGHTNESS_MAX
                    ELSE Shows(pwm["B"], led_table[index], HeldFrom(keys, 2))

(* With no layer key held and no lock lit both LEDs are at the brightness
   chosen. *)
LEMMA LedsAtRest ==
  ASSUME NEW index \in 0..(LED_TABLE_SIZE - 1)
  PROVE  LedsTell(<<>>, index, BothAt(index), {})
<1>1. \A l : ~HeldFrom(<<>>, l)
  BY DEF HeldFrom
<1>2. BothAt(index)["A"] = led_table[index] /\ BothAt(index)["B"] = led_table[index]
  BY DEF BothAt
<1>3. led_table[index] \in Nat
  BY NotchesRise
<1>4. QED
  BY <1>1, <1>2, <1>3 DEF LedsTell, Shows

(* The levels of the layer in force tell of the keys held: the highest one
   held is in force. *)
LEMMA LedsFollow ==
  ASSUME NEW keys \in Seq(LayerKey), NEW layer \in Layer,
         \A i \in DOMAIN keys : keys[i].target <= layer,
         layer # 0 => \E i \in DOMAIN keys : keys[i].target = layer,
         NEW index \in 0..(LED_TABLE_SIZE - 1), NEW lit
  PROVE  LedsTell(keys, index, LedLevels(layer, index, lit), lit)
<1>1. layer \in Nat /\ \A i \in DOMAIN keys : keys[i].target \in Nat
  <2>1. DOMAIN keys = 1..Len(keys) /\ keys \in [1..Len(keys) -> LayerKey]
    BY LenProperties
  <2>2. Layer \subseteq Nat /\ \A e \in LayerKey : e.target \in Layer
    BY KeyboardAssumption DEF LayerKey, Layer
  <2>3. QED
    BY <2>1, <2>2
<1>2. ASSUME NEW l \in {1, 2} PROVE HeldFrom(keys, l) <=> layer >= l
  BY <1>1 DEF HeldFrom
<1>3. LET pwm == LedLevels(layer, index, lit)
      IN  /\ IF "A" \in lit THEN pwm["A"] = LED_BRIGHTNESS_MAX
                            ELSE Shows(pwm["A"], led_table[index], layer >= 1)
          /\ IF "B" \in lit THEN pwm["B"] = LED_BRIGHTNESS_MAX
                            ELSE Shows(pwm["B"], led_table[index], layer >= 2)
  BY LedLevelsTell
<1>4. QED
  BY <1>2, <1>3 DEF LedsTell, Shows

(* The timer stays below the timeout, the brightness in the table, and only
   the last action of a tick leads to the next scan. *)
LEMMA RestInit == Init => RestTypes /\ RestInv
<1> SUFFICES ASSUME Init PROVE RestTypes /\ RestInv
  OBVIOUS
<1>1. /\ phase = "scan" /\ alt_held = FALSE /\ alt_idle_ticks = 0
      /\ led_index = LED_INDEX_DEFAULT
      /\ led_pwm = BothAt(LED_INDEX_DEFAULT) /\ led_report = {}
      /\ active_layer_keys = <<>> /\ current_layer = 0
  BY DEF Init
<1>2. ALT_RELEASE_TIMEOUT \in Nat \ {0} /\ LED_TABLE_SIZE \in Nat \ {0}
      /\ LED_INDEX_DEFAULT \in 0..(LED_TABLE_SIZE - 1)
  BY KeyboardAssumption
<1>3. RestTypes
  <2>1. alt_idle_ticks \in 0..(ALT_RELEASE_TIMEOUT - 1)
    BY <1>1, <1>2
  <2>2. led_pwm \in [{"A", "B"} -> 0..LED_BRIGHTNESS_MAX]
    BY <1>1, <1>2, NotchesRise DEF BothAt
  <2>3. QED
    BY <1>1, <1>2, <2>1, <2>2 DEF RestTypes
<1>4. LayerFollowsKeys
  BY <1>1 DEF LayerFollowsKeys
<1>5. LedsTellLayer
  <2>1. LedsTell(active_layer_keys, led_index, led_pwm, led_report)
    BY <1>1, <1>2, LedsAtRest
  <2>2. QED
    BY <2>1 DEF LedsTell, Shows, HeldFrom, LedsTellLayer, LayerHeldFrom
<1>6. QED
  BY <1>3, <1>4, <1>5 DEF RestInv

LEMMA RestStep ==
  TableTypes /\ RestTypes /\ RestInv /\ [Next]_vars => RestTypes' /\ RestInv'
<1> SUFFICES ASSUME TableTypes, RestTypes, RestInv, [Next]_vars PROVE RestTypes' /\ RestInv'
  OBVIOUS
<1>1. LayerFollowsKeys'
  BY LayerStep DEF RestInv
<1>2. ALT_RELEASE_TIMEOUT \in Nat \ {0} /\ LED_TABLE_SIZE \in Nat \ {0}
      /\ LED_INDEX_DEFAULT \in 0..(LED_TABLE_SIZE - 1)
  BY KeyboardAssumption
<1>3. ASSUME phase' \in {"dispatch", "alt", "led", "SYS_RST", "SYS_BOOT"}
      PROVE  LedsTellLayer'
  BY <1>3 DEF LedsTellLayer
<1>4. ASSUME phase' \in {"dispatch", "alt", "SYS_RST", "SYS_BOOT"},
             UNCHANGED altvars, UNCHANGED ledvars
      PROVE  RestTypes' /\ LedsTellLayer'
  <2>1. /\ alt_held' = alt_held /\ alt_idle_ticks' = alt_idle_ticks
        /\ led_index' = led_index /\ led_pwm' = led_pwm /\ led_report' = led_report
    BY <1>4 DEF altvars, ledvars
  <2>2. RestTypes'
    BY <1>4, <2>1 DEF RestTypes
  <2>3. QED
    BY <1>3, <1>4, <2>2
<1>5. ASSUME NEW d \in SUBSET Position, Scan(d) PROVE RestTypes' /\ LedsTellLayer'
  BY <1>4, <1>5 DEF Scan
<1>6. ASSUME NEW p \in Position, process_key_press(p) PROVE RestTypes' /\ LedsTellLayer'
  <2> DEFINE code == keymap_key_to_keycode(current_layer, p)
  <2>1. phase = "dispatch"
    BY <1>6 DEF process_key_press, NextEdge
  <2>2. \/ PressLayer(p, code) \/ PressLed(code) \/ PressSys(code) \/ PressMacro(code)
        \/ PressConsumer(p, code) \/ PressBasic(p, code)
        \/ UNCHANGED <<phase, live, tables, altvars, ledvars, overflowed>>
    BY <1>6 DEF process_key_press
  <2>3. code \in Keycode
    BY KeymapType DEF TableTypes
  <2> HIDE DEF code
  <2>4. CASE PressLed(code)
    <3>1. /\ phase' = "dispatch" /\ alt_held' = alt_held /\ alt_idle_ticks' = alt_idle_ticks
          /\ led_index' \in 0..(LED_TABLE_SIZE - 1)
          /\ led_pwm' = BothAt(led_index') /\ led_report' = led_report
      BY <1>2, <2>1, <2>4 DEF PressLed, RestTypes, altvars
    <3>2. led_pwm' \in [{"A", "B"} -> 0..LED_BRIGHTNESS_MAX]
      BY <3>1, NotchesRise DEF BothAt
    <3>3. RestTypes'
      BY <3>1, <3>2 DEF RestTypes
    <3>4. QED
      BY <1>3, <3>1, <3>3
  <2>5. CASE PressSys(code)
    <3>1. code.kind = "sys" => code.reset \in {"SYS_RST", "SYS_BOOT"}
      BY <2>3 DEF Keycode, NoCode, TransCode, KeyCode, ModCode, LayerCode, MacroCode,
                  ConsumerCode, LedCode, SysCode
    <3>2. QED
      BY <1>4, <2>5, <3>1 DEF PressSys
  <2>6. CASE \/ PressLayer(p, code) \/ PressMacro(code)
             \/ PressConsumer(p, code) \/ PressBasic(p, code)
             \/ UNCHANGED <<phase, live, tables, altvars, ledvars, overflowed>>
    <3>1. phase' = "dispatch" /\ UNCHANGED altvars /\ UNCHANGED ledvars
      BY <2>1, <2>6 DEF PressLayer, PressMacro, PressConsumer, PressBasic
    <3>2. QED
      BY <1>4, <3>1
  <2>7. QED
    BY <2>2, <2>4, <2>5, <2>6
<1>7. ASSUME NEW p \in Position, process_key_release(p) PROVE RestTypes' /\ LedsTellLayer'
  <2>1. phase' = "dispatch" /\ UNCHANGED altvars /\ UNCHANGED ledvars
    BY <1>7 DEF process_key_release, NextEdge
  <2>2. QED
    BY <1>4, <2>1
<1>8. ASSUME EncoderQuiet PROVE RestTypes' /\ LedsTellLayer'
  <2>1. phase' = "alt" /\ UNCHANGED altvars /\ UNCHANGED ledvars
    BY <1>8 DEF EncoderQuiet
  <2>2. QED
    BY <1>4, <2>1
<1>9. ASSUME NEW dir \in {"CW", "CCW"}, encoder_step(dir) PROVE RestTypes' /\ LedsTellLayer'
  <2>1. /\ phase' = "alt" /\ alt_held' = TRUE /\ alt_idle_ticks' = 0
        /\ led_index' = led_index /\ led_pwm' = led_pwm /\ led_report' = led_report
    BY <1>9 DEF encoder_step, ledvars
  <2>2. alt_idle_ticks' \in 0..(ALT_RELEASE_TIMEOUT - 1)
    BY <1>2, <2>1
  <2>3. RestTypes'
    BY <2>1, <2>2 DEF RestTypes
  <2>4. QED
    BY <1>3, <2>1, <2>3
<1>10. ASSUME encoder_alt_timeout_tick PROVE RestTypes' /\ LedsTellLayer'
  <2>1. phase' = "led" /\ led_index' = led_index /\ led_pwm' = led_pwm /\ led_report' = led_report
    BY <1>10 DEF encoder_alt_timeout_tick, ledvars
  <2>2. alt_held' \in BOOLEAN /\ alt_idle_ticks' \in 0..(ALT_RELEASE_TIMEOUT - 1)
    <3>1. CASE ~alt_held
      <4>1. UNCHANGED altvars
        BY <1>10, <3>1 DEF encoder_alt_timeout_tick
      <4>2. QED
        BY <4>1 DEF altvars, RestTypes
    <3>2. CASE alt_held /\ AltExpired
      <4>1. alt_held' = FALSE /\ alt_idle_ticks' = 0
        BY <1>10, <3>2 DEF encoder_alt_timeout_tick
      <4>2. 0 \in 0..(ALT_RELEASE_TIMEOUT - 1)
        BY <1>2
      <4>3. QED
        BY <4>1, <4>2
    <3>3. CASE alt_held /\ ~AltExpired
      <4>1. alt_idle_ticks' = alt_idle_ticks + 1 /\ alt_held' = alt_held
        BY <1>10, <3>3 DEF encoder_alt_timeout_tick
      <4>2. QED
        BY <1>2, <3>3, <4>1 DEF RestTypes, AltExpired
    <3>4. QED
      BY <3>1, <3>2, <3>3
  <2>3. RestTypes'
    BY <2>1, <2>2 DEF RestTypes
  <2>4. QED
    BY <1>3, <2>1, <2>3
<1>11. ASSUME NEW locks \in LockReport, LedUpdate(locks) PROVE RestTypes' /\ LedsTellLayer'
  <2>1. /\ phase' = "scan" /\ led_pwm' = LedLevels(current_layer, led_index, locks)
        /\ led_report' = locks
        /\ led_index' = led_index /\ current_layer' = current_layer
        /\ active_layer_keys' = active_layer_keys /\ pressed_keys' = pressed_keys
        /\ alt_held' = alt_held /\ alt_idle_ticks' = alt_idle_ticks
    BY <1>11 DEF LedUpdate, tables, altvars
  <2>2. locks \subseteq {"A", "B"}
    BY KeyboardAssumption
  <2>3. led_pwm' \in [{"A", "B"} -> 0..LED_BRIGHTNESS_MAX]
    BY <2>1, LedLevelsTell DEF TableTypes, RestTypes
  <2>4. RestTypes'
    BY <2>1, <2>2, <2>3 DEF RestTypes
  <2>5. led_pwm' = LedLevels(current_layer', led_index', led_report')
    BY <2>1
  <2>6. LedsTellLayer'
    <3>1. active_layer_keys \in Seq(LayerKey) /\ current_layer \in Layer
      BY DEF TableTypes
    <3>2. LedsTell(active_layer_keys, led_index, LedLevels(current_layer, led_index, locks), locks)
      BY <3>1, LedsFollow DEF RestTypes, RestInv, LayerFollowsKeys
    <3>3. LedsTell(active_layer_keys', led_index', led_pwm', led_report')
      BY <2>1, <3>2
    <3>4. QED
      BY <3>3 DEF LedsTell, Shows, HeldFrom, LedsTellLayer, LayerHeldFrom
  <2>7. QED
    BY <2>4, <2>6
<1>12. ASSUME Restart PROVE RestTypes' /\ LedsTellLayer'
  <2>0. active_layer_keys' = <<>>
    BY <1>12 DEF Restart
  <2>1. /\ phase' = "scan" /\ alt_held' = FALSE /\ alt_idle_ticks' = 0
        /\ led_index' = LED_INDEX_DEFAULT
        /\ led_pwm' = BothAt(LED_INDEX_DEFAULT) /\ led_report' = {}
    BY <1>12 DEF Restart
  <2>2. /\ alt_idle_ticks' \in 0..(ALT_RELEASE_TIMEOUT - 1)
        /\ led_pwm' \in [{"A", "B"} -> 0..LED_BRIGHTNESS_MAX]
    BY <1>2, <2>1, NotchesRise DEF BothAt
  <2>3. RestTypes'
    BY <1>2, <2>1, <2>2 DEF RestTypes
  <2>4. LedsTellLayer'
    <3>1. LedsTell(active_layer_keys', led_index', led_pwm', led_report')
      BY <1>2, <2>1, <2>0, LedsAtRest
    <3>2. QED
      BY <3>1 DEF LedsTell, Shows, HeldFrom, LedsTellLayer, LayerHeldFrom
  <2>5. QED
    BY <2>3, <2>4
<1>13. ASSUME UNCHANGED vars PROVE RestTypes' /\ LedsTellLayer'
  <2>1. /\ phase' = phase /\ active_layer_keys' = active_layer_keys
        /\ alt_held' = alt_held /\ alt_idle_ticks' = alt_idle_ticks
        /\ led_index' = led_index /\ led_pwm' = led_pwm /\ led_report' = led_report
    BY <1>13 DEF vars, matrix, tables, altvars, ledvars
  <2>2. RestTypes'
    BY <2>1 DEF RestTypes
  <2>3. LedsTellLayer'
    BY <2>1 DEF RestInv, LedsTellLayer, LayerHeldFrom
  <2>4. QED
    BY <2>2, <2>3
<1>14. RestTypes' /\ LedsTellLayer'
  BY <1>5, <1>6, <1>7, <1>8, <1>9, <1>10, <1>11, <1>12, <1>13 DEF Next, Tick
<1>15. QED
  BY <1>1, <1>14 DEF RestInv

------------------------------------------------------------------------------
(* The invariant, and the properties of the runs. *)

KeyboardInv ==
  /\ TableTypes /\ TableInv
  /\ ReportTypes /\ ReportInv
  /\ RestTypes /\ RestInv

LEMMA KeyboardInvariant == Spec => []KeyboardInv
<1>1. Init => KeyboardInv
  BY TablesInit, ReportInit, RestInit DEF KeyboardInv
<1>2. KeyboardInv /\ [Next]_vars => KeyboardInv'
  BY TablesStep, ReportStep, RestStep DEF KeyboardInv
<1>3. QED
  BY <1>1, <1>2, PTL DEF Spec

(* Types, and the bounds of both tables: no more tracked keys than positions,
   no more layer keys than MAX_LAYER_KEYS (keyboard.c:60-77, layer.c:31-61). *)
THEOREM KeyboardTypeCorrect == Spec => []TypeOK
<1>1. ASSUME KeyboardInv PROVE Len(pressed_keys) <= Cardinality(Position)
  <2>1. pressed_keys \in Seq(Entry) /\ OneEach(pressed_keys)
    BY <1>1 DEF KeyboardInv, TableTypes, TableInv
  <2>2. Cardinality(PressPositions) = Len(pressed_keys)
    BY <2>1, PositionsCounted DEF PressPositions
  <2>3. PressPositions \in SUBSET Position /\ IsFiniteSet(Position)
    BY <1>1, KeyboardAssumption DEF KeyboardInv, TableTypes, TableInv, Held
  <2>4. QED
    BY <2>2, <2>3, FS_Subset
<1>2. KeyboardInv => TypeOK
  BY <1>1 DEF KeyboardInv, TableTypes, ReportTypes, RestTypes, TypeOK, Entry, LayerKey
<1>3. QED
  BY <1>2, KeyboardInvariant, PTL

(* No usage sticks: each slot that shows one has a held key of its own
   (kbd_add_key, kbd_remove_key). *)
THEOREM NoKeySticks == Spec => []NoStuckKey
<1>1. KeyboardInv => NoStuckKey
  BY DEF KeyboardInv, ReportInv, KeysOwned, NoStuckKey, Count, Num, Holding, Tracked
<1>2. QED
  BY <1>1, KeyboardInvariant, PTL

(* Until a key finds no free slot, the report has exactly the held keys. *)
THEOREM ReportShowsHeldKeys == Spec => []ReportIsExact
<1>1. KeyboardInv => ReportIsExact
  BY DEF KeyboardInv, ReportInv, KeysOwned, ReportIsExact, Count, Num, Holding, Tracked
<1>2. QED
  BY <1>1, KeyboardInvariant, PTL

(* No modifier bit outlives its keys and the gesture, whatever chords came
   between. *)
THEOREM NoModifierSticks == Spec => []NoStuckModifier
<1>1. ASSUME KeyboardInv, NEW m, Num(pressed_keys, ModCode(m)) > 0
      PROVE  Tracked(ModCode(m)) # {}
  BY <1>1, Numbered DEF KeyboardInv, TableTypes, Tracked, Holding
<1>2. KeyboardInv => NoStuckModifier
  BY <1>1 DEF KeyboardInv, ReportInv, ModsOwned, NoStuckModifier
<1>3. QED
  BY <1>2, KeyboardInvariant, PTL

(* The layer in force is the highest one held (layer.c:24-61). *)
THEOREM LayerAlwaysFollows == Spec => []LayerFollowsKeys
<1>1. KeyboardInv => LayerFollowsKeys
  BY DEF KeyboardInv, RestInv
<1>2. QED
  BY <1>1, KeyboardInvariant, PTL

(* Between ticks the LEDs tell which layer keys are held, for every table that
   rises to full brightness and every boost (led.c:69-114). *)
THEOREM LedsTellHeldLayer == Spec => []LedsTellLayer
<1>1. KeyboardInv => LedsTellLayer
  BY DEF KeyboardInv, RestInv
<1>2. QED
  BY <1>1, KeyboardInvariant, PTL

(* When all keys are up and the tick is over, nothing is left of them. *)
THEOREM NothingLeftBehind == Spec => []QuietWhenReleased
<1>1. ASSUME KeyboardInv, phase = "scan", down = {}
      PROVE  /\ slots = NoKeys /\ consumer = NoUsage
             /\ pressed_keys = <<>> /\ active_layer_keys = <<>> /\ current_layer = 0
             /\ modifier \subseteq (IF alt_held THEN {MOD_LALT} ELSE {})
             /\ out[Len(out)] = report
  <2>1. PressPositions = {} /\ LayerPositions = {}
    BY <1>1 DEF KeyboardInv, TableInv, Held
  <2>2. pressed_keys = <<>>
    <3>1. pressed_keys \in Seq(Entry) /\ DOMAIN pressed_keys = {}
      BY <1>1, <2>1 DEF KeyboardInv, TableTypes, PressPositions
    <3>2. QED
      BY <3>1, LenProperties, EmptySeq
  <2>3. active_layer_keys = <<>>
    <3>1. active_layer_keys \in Seq(LayerKey) /\ DOMAIN active_layer_keys = {}
      BY <1>1, <2>1 DEF KeyboardInv, TableTypes, LayerPositions
    <3>2. QED
      BY <3>1, LenProperties, EmptySeq
  <2>4. \A code : Num(pressed_keys, code) = 0
    BY <2>2, EmptyReport
  <2>5. consumer = NoUsage /\ out[Len(out)] = report
    BY <1>1, <2>4 DEF KeyboardInv, ReportInv, ConsumerOwned
  <2>6. modifier \subseteq (IF alt_held THEN {MOD_LALT} ELSE {})
    BY <1>1, <2>4 DEF KeyboardInv, ReportInv, ModsOwned
  <2>7. current_layer = 0
    BY <1>1, <2>3 DEF KeyboardInv, RestInv, LayerFollowsKeys
  <2>8. slots = NoKeys
    <3>1. ASSUME NEW k \in Key PROVE SlotsWith(report, k) = {}
      <4>1. Count(report, k) = 0
        BY <1>1, <2>4, SlotsCounted DEF KeyboardInv, ReportInv, KeysOwned
      <4>2. QED
        BY <4>1, SlotsCounted, FS_EmptySet DEF Count
    <3>2. slots \in [1..SLOTS -> Key \cup {NoKey}]
      BY <1>1 DEF KeyboardInv, ReportTypes, Report, report
    <3>3. \A i \in 1..SLOTS : slots[i] = NoKey
      BY <3>1, <3>2 DEF SlotsWith, report
    <3>4. QED
      BY <3>2, <3>3 DEF NoKeys
  <2>9. QED
    BY <2>2, <2>3, <2>5, <2>6, <2>7, <2>8
<1>2. KeyboardInv => QuietWhenReleased
  BY <1>1 DEF QuietWhenReleased
<1>3. QED
  BY <1>2, KeyboardInvariant, PTL

==============================================================================
