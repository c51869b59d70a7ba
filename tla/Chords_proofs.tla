---------------------------- MODULE Chords_proofs ----------------------------
(***************************************************************************)
(* Macros and characters, for every depth of the line, every number of     *)
(* report slots, every set of sequences and any number of calls.  First    *)
(* the tables: every compose function is a chord, or an accent's chord and *)
(* a letter.  Then the types; the presses on their way through the line;   *)
(* and the newest report among them.                                       *)
(***************************************************************************)
EXTENDS Chords, FiniteSetTheorems, SequenceTheorems, TLAPS

------------------------------------------------------------------------------
(* What a compose function does. *)
Keyed(s) ==
  \/ \E m \in SUBSET Mod : \E k : s = <<Chord(m, k)>>
  \/ \E d, l : s = <<Chord({"RALT"}, d), Chord({}, l)>>

LEMMA TwoSteps ==
  ASSUME NEW x, NEW y
  PROVE  <<x>> \o <<y>> = <<x, y>>
<1> DEFINE S == {x, y}
           s == <<x>> \o <<y>>
           t == <<x, y>>
<1>1. s \in Seq(S) /\ t \in Seq(S) /\ Len(s) = 2 /\ Len(t) = 2
  OBVIOUS
<1>2. s[1] = x /\ s[2] = y /\ t[1] = x /\ t[2] = y
  OBVIOUS
<1> HIDE DEF s, t, S
<1>3. \A i \in 1..Len(s) : s[i] = t[i]
  BY <1>1, <1>2
<1>4. s = t
  BY <1>1, <1>3, SeqEqual
<1>5. QED
  BY <1>4 DEF s, t

(* A table of glyphs, and a table of letters under one accent. *)
LEMMA DirectKeyed ==
  ASSUME NEW plain, NEW shifted
  PROVE  \A n \in DOMAIN Direct(plain, shifted) : Keyed(Direct(plain, shifted)[n])
<1> SUFFICES ASSUME NEW n \in DOMAIN Direct(plain, shifted)
             PROVE  Keyed(Direct(plain, shifted)[n])
  OBVIOUS
<1>1. Direct(plain, shifted)[n] =
        IF n.letter \in DOMAIN plain THEN <<Chord({"RALT"}, plain[n.letter])>>
                                     ELSE <<Chord({"RALT", "LSFT"}, shifted[n.letter])>>
  BY DEF Direct, compose_direct, compose_direct_s, send_mod_key
<1>2. QED
  BY <1>1 DEF Keyed, Mod

LEMMA AccentedKeyed ==
  ASSUME NEW a, NEW d, NEW lower, NEW upper
  PROVE  \A n \in DOMAIN Accented(a, d, lower, upper) :
           Keyed(Accented(a, d, lower, upper)[n])
<1> SUFFICES ASSUME NEW n \in DOMAIN Accented(a, d, lower, upper)
             PROVE  Keyed(Accented(a, d, lower, upper)[n])
  OBVIOUS
<1>1. Accented(a, d, lower, upper)[n] = <<Chord({"RALT"}, d), Chord({}, n.letter)>>
  <2>1. Accented(a, d, lower, upper)[n] = compose_accented(d, n.letter)
    BY DEF Accented
  <2>2. QED BY <2>1, TwoSteps, Zenon DEF compose_accented, send_mod_key, tap_key
<1>2. QED
  BY <1>1 DEF Keyed

(* Every table of compose.h. *)
LEMMA ComposeKeyed == \A n \in DOMAIN compose : Keyed(compose[n])
<1>1. ASSUME NEW t \in Tables, NEW n \in DOMAIN t PROVE Keyed(t[n])
  <2>1. CASE t \in {Ligatures, European, Typography, Symbols}
    BY <1>1, <2>1, DirectKeyed DEF Ligatures, European, Typography, Symbols
  <2>2. CASE t \in {Acute, Grave, Circumflex, Diaeresis, Cedilla, Tilde, Macron, Ring, Dot}
    BY <1>1, <2>2, AccentedKeyed
    DEF Acute, Grave, Circumflex, Diaeresis, Cedilla, Tilde, Macron, Ring, Dot
  <2>3. QED BY <1>1, <2>1, <2>2 DEF Tables
<1>2. ASSUME NEW n \in DOMAIN compose PROVE Keyed(compose[n])
  <2> DEFINE t == CHOOSE t \in Tables : n \in DOMAIN t
  <2>1. n \in UNION {DOMAIN u : u \in Tables} /\ compose[n] = t[n]
    BY <1>2 DEF compose
  <2>2. PICK u \in Tables : n \in DOMAIN u
    BY <2>1
  <2>3. t \in Tables /\ n \in DOMAIN t
    BY <2>2
  <2> HIDE DEF t
  <2>4. QED BY <1>1, <2>1, <2>3
<1>3. QED BY <1>2

------------------------------------------------------------------------------
(* The first of some slots, or of the ends of a sequence, exists. *)
LEMMA FirstIsLeast ==
  ASSUME NEW S \in SUBSET Nat, S # {}
  PROVE  First(S) \in S /\ \A y \in S : First(S) <= y
<1> DEFINE R == {ss \in Nat \X Nat : ss[1] < ss[2]}
<1>1. IsWellFoundedOn(R, Nat)
  BY NatLessThanWellFounded, Zenon DEF OpToRel
<1>2. \A x, y \in Nat : <<y, x>> \in R <=> y < x
  OBVIOUS
<1> HIDE DEF R
<1>3. PICK x \in S : \A y \in S : ~(<<y, x>> \in R)
  BY <1>1, WFMin
<1>4. ASSUME NEW y \in S PROVE x <= y
  <2>1. x \in Nat /\ y \in Nat
    OBVIOUS
  <2>2. ~(y < x)
    BY <1>2, <1>3, <2>1, Zenon
  <2>3. QED
    BY <2>1, <2>2
<1>5. QED
  BY <1>3, <1>4 DEF First

------------------------------------------------------------------------------

(* What a call does is a sequence of steps. *)
LEMMA PressKeyTyped ==
  ASSUME NEW k \in Key
  PROVE  press_key(k) \in Step /\ release_key(k) \in Step
BY DEF press_key, release_key, Step, Down, Up

LEMMA ComposeTyped ==
  ASSUME NEW n \in DOMAIN compose
  PROVE  compose[n] \in Seq(Step)
<1>1. Keyed(compose[n])
  BY ComposeKeyed
<1>2. \A i \in 1..2 : i <= Len(compose[n]) => compose[n][i].key \in Key
  BY CallAssumption
<1>3. CASE \E m \in SUBSET Mod : \E k : compose[n] = <<Chord(m, k)>>
  <2>1. PICK m, k : m \in SUBSET Mod /\ compose[n] = <<Chord(m, k)>>
    BY <1>3
  <2>2. Chord(m, k).key \in Key
    <3>1. Len(compose[n]) = 1 /\ compose[n][1] = Chord(m, k)
      BY <2>1
    <3>2. QED BY <1>2, <3>1
  <2>3. Chord(m, k) \in Step
    BY <2>1, <2>2 DEF Chord, Step
  <2>4. QED BY <2>1, <2>3
<1>4. CASE \E d, l : compose[n] = <<Chord({"RALT"}, d), Chord({}, l)>>
  <2>1. PICK d, l : compose[n] = <<Chord({"RALT"}, d), Chord({}, l)>>
    BY <1>4
  <2>2. Chord({"RALT"}, d).key \in Key /\ Chord({}, l).key \in Key
    BY <1>2, <2>1
  <2>3. Chord({"RALT"}, d) \in Step /\ Chord({}, l) \in Step
    BY <2>2 DEF Chord, Step, Mod
  <2>4. QED BY <2>1, <2>3
<1>5. QED BY <1>1, <1>3, <1>4 DEF Keyed

LEMMA SequenceTyped ==
  ASSUME NEW s \in MacroSequence
  PROVE  run_macro_sequence(s) \in Seq(Step)
<1>1. /\ s \in Seq(Action) /\ MAX_MACRO_STEPS \in Nat \ {0}
      /\ Ends(s) = {} => Len(s) >= MAX_MACRO_STEPS
  BY ChordsAssumption
<1>2. ASSUME NEW a \in Action, a.type # "END" PROVE MacroStep(a) \in Step
  <2>1. CASE a.type \in {"DOWN", "UP", "TAP"}
    <3>1. a.keycode \in Key
      BY <2>1 DEF Action
    <3>2. Chord({}, a.keycode) \in Step
      BY <3>1 DEF Chord, Step
    <3>3. QED BY <2>1, <3>1, <3>2, PressKeyTyped DEF MacroStep
  <2>2. CASE a.type = "WAIT"
    <3>1. a.ms \in 0..(WaitMod - 1)
      BY <2>2 DEF Action
    <3>2. QED BY <2>2, <3>1 DEF MacroStep, Wait, Step
  <2>3. QED BY <1>2, <2>1, <2>2 DEF Action
<1>3. CASE Ends(s) = {}
  <2>1. ASSUME NEW i \in 1..MAX_MACRO_STEPS PROVE MacroStep(s[i]) \in Step
    <3>1. i <= Len(s) /\ i \in 1..Len(s)
      BY <1>1, <1>3
    <3>2. s[i] \in Action /\ s[i].type # "END"
      BY <1>1, <1>3, <3>1 DEF Ends
    <3>3. QED BY <1>2, <3>2
  <2>2. [i \in 1..MAX_MACRO_STEPS |-> MacroStep(s[i])] \in Seq(Step)
    BY <1>1, <2>1
  <2>3. Up(Mod, NoKey) \in Step
    BY DEF Up, Step
  <2>4. QED BY <1>3, <2>2, <2>3 DEF run_macro_sequence
<1>4. CASE Ends(s) # {}
  <2> DEFINE e == First(Ends(s))
  <2>1. Ends(s) \in SUBSET Nat
    BY DEF Ends
  <2>2. e \in Ends(s) /\ \A j \in Ends(s) : e <= j
    BY <1>4, <2>1, FirstIsLeast
  <2>3. e \in 1..MAX_MACRO_STEPS /\ e <= Len(s)
    BY <2>2 DEF Ends
  <2> HIDE DEF e
  <2>4. ASSUME NEW i \in 1..(e - 1) PROVE MacroStep(s[i]) \in Step
    <3>1. i \in 1..MAX_MACRO_STEPS /\ i <= Len(s) /\ i \in 1..Len(s) /\ ~(e <= i)
      BY <1>1, <2>3
    <3>2. s[i] \in Action /\ s[i].type # "END"
      BY <1>1, <2>2, <3>1 DEF Ends
    <3>3. QED BY <1>2, <3>2
  <2>5. [i \in 1..(e - 1) |-> MacroStep(s[i])] \in Seq(Step)
    BY <1>1, <2>3, <2>4
  <2>6. QED BY <1>4, <2>5 DEF run_macro_sequence, e
<1>5. QED BY <1>3, <1>4

(* The calls that stage what the user does. *)
UserCall == {UsePress(k) : k \in UserKey \cup UserMod}
              \cup {UseRelease(k) : k \in UserKey \cup UserMod}

LEMMA CallTyped ==
  ASSUME NEW c \in AnyCall \cup UserCall
  PROVE  Script(c) \in Seq(Step)
<1>1. CASE \E n \in DOMAIN compose : c = UseCompose(n)
  BY <1>1, ComposeTyped DEF UseCompose, Script
<1>2. CASE \E m \in DOMAIN MacroKey : c = UseMacro(m)
  <2>1. PICK m \in DOMAIN MacroKey : c = UseMacro(m)
    BY <1>2
  <2>2. MacroKey[m] \in Key
    BY CallAssumption
  <2>3. Chord({"LCTL"}, MacroKey[m]) \in Step
    BY <2>2 DEF Chord, Step, Mod
  <2>4. Script(c) = <<Chord({"LCTL"}, MacroKey[m])>>
    BY <2>1 DEF UseMacro, Script, execute_macro, send_mod_key
  <2>5. QED BY <2>3, <2>4
<1>3. CASE \E s \in MacroSequence : c = UseSequence(s)
  BY <1>3, SequenceTyped DEF UseSequence, Script
<1>4. CASE c \in UserCall
  <2>1. UserKey \cup UserMod \subseteq Key
    BY ChordsAssumption
  <2>2. PICK k \in Key : c = UsePress(k) \/ c = UseRelease(k)
    BY <1>4, <2>1 DEF UserCall
  <2>3. Script(c) = <<press_key(k)>> \/ Script(c) = <<release_key(k)>>
    BY <2>2 DEF UsePress, UseRelease, Script
  <2>4. <<press_key(k)>> \in Seq(Step) /\ <<release_key(k)>> \in Seq(Step)
    BY PressKeyTyped
  <2>5. QED BY <2>3, <2>4
<1>5. QED BY <1>1, <1>2, <1>3, <1>4 DEF AnyCall

------------------------------------------------------------------------------
LEMMA SetToSeqTyped ==
  ASSUME NEW S, IsFiniteSet(S)
  PROVE  /\ Cardinality(S) \in Nat
         /\ SetToSeq(S) \in [1..Cardinality(S) -> S]
<1>1. Cardinality(S) \in Nat /\ ExistsBijection(1..Cardinality(S), S)
  BY FS_CardinalityType
<1>2. PICK f \in Bijection(1..Cardinality(S), S) : TRUE
  BY <1>1 DEF ExistsBijection
<1>3. f \in [1..Cardinality(S) -> S] /\ IsInjective(f)
  BY <1>2 DEF Bijection, Injection, IsInjective
<1>4. QED BY <1>1, <1>3 DEF SetToSeq

(* What the host finds in a report after another. *)
LEMMA PressesFacts ==
  ASSUME NEW b \in Report, NEW r \in Report
  PROVE  /\ Presses(b, r) \in Seq(KeyPress)
         /\ r.keys \subseteq b.keys => Presses(b, r) = <<>>
         /\ \A k \in Key :
              r.keys \ b.keys = {k} => Presses(b, r) = <<[mods |-> r.modifier, key |-> k]>>
<1> DEFINE D == r.keys \ b.keys
<1>1. IsFiniteSet(Key) /\ D \subseteq Key /\ r.modifier \in SUBSET Mod
  BY ChordsAssumption DEF Report
<1>2. IsFiniteSet(D)
  BY <1>1, FS_Subset
<1>3. Cardinality(D) \in Nat /\ SetToSeq(D) \in [1..Cardinality(D) -> D]
  BY <1>2, SetToSeqTyped
<1>4. \A i \in 1..Cardinality(D) : [mods |-> r.modifier, key |-> SetToSeq(D)[i]] \in KeyPress
  BY <1>1, <1>3 DEF KeyPress
<1>5. Presses(b, r) \in Seq(KeyPress)
  <2> DEFINE n == Cardinality(D)
             p(i) == [mods |-> r.modifier, key |-> SetToSeq(D)[i]]
  <2>1. n \in Nat /\ \A i \in 1..n : p(i) \in KeyPress
    BY <1>3, <1>4
  <2>2. Presses(b, r) = [i \in 1..n |-> p(i)]
    BY DEF Presses
  <2> HIDE DEF n, p
  <2>3. [i \in 1..n |-> p(i)] \in Seq(KeyPress)
    BY <2>1
  <2>4. QED BY <2>2, <2>3
<1>6. ASSUME r.keys \subseteq b.keys PROVE Presses(b, r) = <<>>
  <2>1. D = {}
    BY <1>6
  <2>2. Cardinality(D) = 0
    BY <2>1, FS_EmptySet
  <2>3. Len(Presses(b, r)) = 0
    BY <1>3, <2>2 DEF Presses
  <2>4. QED BY <1>5, <2>3
<1>7. ASSUME NEW k \in Key, D = {k} PROVE Presses(b, r) = <<[mods |-> r.modifier, key |-> k]>>
  <2>1. Cardinality(D) = 1
    BY <1>7, FS_Singleton
  <2>2. SetToSeq(D)[1] = k
    BY <1>3, <1>7, <2>1
  <2>3. Presses(b, r) = [i \in 1..1 |-> [mods |-> r.modifier, key |-> SetToSeq(D)[i]]]
    BY <2>1 DEF Presses
  <2>4. QED BY <2>2, <2>3
<1>8. QED BY <1>5, <1>6, <1>7

------------------------------------------------------------------------------
LEMMA SizeFacts ==
  /\ SLOTS \in Nat \ {0} /\ WaitMod \in Nat \ {0}
  /\ Capacity \in Nat \ {0} /\ MaxCalls \in Nat
BY ChordsAssumption DEF Capacity

LEMMA LiveTyped ==
  ASSUME ChordsTypeOK
  PROVE  LiveReport \in Report
BY DEF ChordsTypeOK, LiveReport, Report

(* A key goes to a free slot. *)
LEMMA AddedKey ==
  ASSUME ChordsTypeOK, NEW k \in Key \cup {NoKey}, kbd_add_key(k)
  PROVE  /\ keycode' \in [1..SLOTS -> Key \cup {NoKey}]
         /\ k = NoKey => keycode' = keycode
         /\ k # NoKey /\ ~Swallows(k) => LiveReport'.keys \ LiveReport.keys = {k}
<1>1. keycode \in [1..SLOTS -> Key \cup {NoKey}] /\ SLOTS \in Nat
  BY SizeFacts DEF ChordsTypeOK
<1>2. CASE k = NoKey \/ SlotsWith(NoKey) = {}
  BY <1>1, <1>2 DEF kbd_add_key, Swallows
<1>3. CASE k # NoKey /\ SlotsWith(NoKey) # {}
  <2> DEFINE f == First(SlotsWith(NoKey))
  <2>1. SlotsWith(NoKey) \in SUBSET Nat
    BY DEF SlotsWith
  <2>2. f \in SlotsWith(NoKey)
    BY <1>3, <2>1, FirstIsLeast
  <2>3. f \in 1..SLOTS /\ keycode[f] = NoKey
    BY <2>2 DEF SlotsWith
  <2>4. keycode' = [keycode EXCEPT ![f] = k]
    BY <1>3 DEF kbd_add_key
  <2> HIDE DEF f
  <2>5. keycode' \in [1..SLOTS -> Key \cup {NoKey}]
    BY <1>1, <2>3, <2>4
  <2>6. ASSUME SlotsWith(k) = {}
        PROVE  LiveReport'.keys \ LiveReport.keys = {k}
    <3>1. \A i \in 1..SLOTS : keycode[i] # k
      BY <2>6 DEF SlotsWith
    <3>2. /\ LiveReport.keys = {keycode[i] : i \in 1..SLOTS} \ {NoKey}
          /\ LiveReport'.keys = {keycode'[i] : i \in 1..SLOTS} \ {NoKey}
      BY DEF LiveReport
    <3>3. keycode'[f] = k /\ \A i \in 1..SLOTS : i # f => keycode'[i] = keycode[i]
      BY <1>1, <2>3, <2>4
    <3>4. QED BY <1>3, <2>3, <3>1, <3>2, <3>3
  <2>7. QED BY <1>3, <2>5, <2>6 DEF Swallows
<1>4. QED BY <1>2, <1>3

(* A removed key leaves the report or, from another slot, stays; none joins it. *)
LEMMA RemovedKey ==
  ASSUME ChordsTypeOK, NEW k \in Key \cup {NoKey}, kbd_remove_key(k)
  PROVE  /\ keycode' \in [1..SLOTS -> Key \cup {NoKey}]
         /\ LiveReport'.keys \subseteq LiveReport.keys
<1>1. keycode \in [1..SLOTS -> Key \cup {NoKey}] /\ SLOTS \in Nat
  BY SizeFacts DEF ChordsTypeOK
<1>2. /\ LiveReport.keys = {keycode[i] : i \in 1..SLOTS} \ {NoKey}
      /\ LiveReport'.keys = {keycode'[i] : i \in 1..SLOTS} \ {NoKey}
  BY DEF LiveReport
<1>3. CASE k = NoKey \/ SlotsWith(k) = {}
  <2>1. keycode' = keycode
    BY <1>3 DEF kbd_remove_key
  <2>2. QED BY <1>1, <1>2, <2>1
<1>4. CASE k # NoKey /\ SlotsWith(k) # {}
  <2> DEFINE f == First(SlotsWith(k))
  <2>1. SlotsWith(k) \in SUBSET Nat
    BY DEF SlotsWith
  <2>2. f \in SlotsWith(k)
    BY <1>4, <2>1, FirstIsLeast
  <2>3. f \in 1..SLOTS
    BY <2>2 DEF SlotsWith
  <2>4. keycode' = [keycode EXCEPT ![f] = NoKey]
    BY <1>4 DEF kbd_remove_key
  <2> HIDE DEF f
  <2>5. keycode' \in [1..SLOTS -> Key \cup {NoKey}]
    BY <1>1, <2>3, <2>4
  <2>6. \A i \in 1..SLOTS : keycode'[i] = keycode[i] \/ keycode'[i] = NoKey
    BY <1>1, <2>3, <2>4
  <2>7. QED BY <1>2, <2>5, <2>6
<1>5. QED BY <1>3, <1>4

(* An entry joins the line or is dropped. *)
LEMMA EnqueueTyped ==
  ASSUME ChordsTypeOK, NEW e \in Line!Entry, kbd_enqueue(e)
  PROVE  /\ pending' \in Seq(Line!Entry) /\ Len(pending') <= Capacity
         /\ UNCHANGED <<ep1_in, host_kbd>>
         /\ dropped' \in BOOLEAN
         /\ Len(pending) # Capacity => pending' = Append(pending, e)
         /\ pending' \in {pending, Append(pending, e)}
         /\ ~dropped' => ~dropped /\ pending' = Append(pending, e)
<1>1. pending \in Seq(Line!Entry) /\ Len(pending) <= Capacity /\ Capacity \in Nat
  BY SizeFacts DEF ChordsTypeOK
<1>2. /\ pending' = IF Len(pending) < Capacity THEN Append(pending, e) ELSE pending
      /\ UNCHANGED <<ep1_in, host_kbd>>
      /\ dropped' = (dropped \/ Len(pending) = Capacity)
  BY Zenon DEF kbd_enqueue, Line!Offer
<1>3. pending' \in Seq(Line!Entry) /\ Len(pending') <= Capacity
  BY <1>1, <1>2
<1>4. dropped' \in BOOLEAN
  BY <1>2, Zenon
<1>5. ASSUME ~dropped' PROVE ~dropped /\ pending' = Append(pending, e)
  <2>1. ~dropped /\ Len(pending) # Capacity
    BY <1>2, <1>5, Zenon
  <2>2. Len(pending) < Capacity
    BY <1>1, <2>1
  <2>3. QED BY <1>2, <2>1, <2>2, Zenon
<1>6. Len(pending) # Capacity => pending' = Append(pending, e)
  <2>1. Len(pending) # Capacity => Len(pending) < Capacity
    BY <1>1
  <2>2. QED BY <1>2, <2>1, Zenon
<1>7. pending' \in {pending, Append(pending, e)}
  BY <1>2, Zenon
<1>8. QED BY <1>2, <1>3, <1>4, <1>5, <1>6, <1>7, Zenon

(* The actions keep the types. *)
LEMMA ScriptFacts ==
  ASSUME script \in Seq(Step), NEW ops, ToDo(ops)
  PROVE  /\ Head(script) \in Step /\ Head(script).op \in ops
         /\ Tail(script) \in Seq(Step)
BY HeadTailProperties DEF ToDo

LEMMA PressTyped ==
  ASSUME ChordsTypeOK, Press
  PROVE  ChordsTypeOK'
<1> DEFINE s == Head(script)
<1>1. script \in Seq(Step) /\ ToDo({"down", "chord"})
  BY DEF ChordsTypeOK, Press
<1>2. s \in Step /\ s.op \in {"down", "chord"} /\ Tail(script) \in Seq(Step)
  BY <1>1, ScriptFacts
<1>3. s.mods \in SUBSET Mod /\ s.key \in Key \cup {NoKey}
  BY <1>2 DEF Step
<1>4. /\ modifier' = modifier \cup s.mods
      /\ kbd_add_key(s.key)
      /\ script' = IF s.op = "chord" THEN <<Up(s.mods, s.key)>> \o Tail(script)
                   ELSE Tail(script)
      /\ asked' = IF s.key = NoKey THEN asked
                  ELSE Append(asked, [mods |-> modifier', key |-> s.key])
      /\ swallowed' = (swallowed \/ Swallows(s.key))
      /\ kbd_enqueue([report |-> LiveReport']) /\ stale' \in BOOLEAN
      /\ UNCHANGED caller /\ UNCHANGED seen
  BY DEF Press, kbd_stage
<1> HIDE DEF s
<1>5. modifier' \subseteq Mod
  BY <1>3, <1>4 DEF ChordsTypeOK
<1>6. keycode' \in [1..SLOTS -> Key \cup {NoKey}]
  BY <1>3, <1>4, AddedKey
<1>7. LiveReport' \in Report
  BY <1>5, <1>6 DEF LiveReport, Report
<1>8. [report |-> LiveReport'] \in Line!Entry
  BY <1>7 DEF Line!Entry
<1>9. /\ pending' \in Seq(Line!Entry) /\ Len(pending') <= Capacity
      /\ UNCHANGED <<ep1_in, host_kbd>> /\ dropped' \in BOOLEAN
  BY <1>4, <1>8, EnqueueTyped
<1>10. script' \in Seq(Step)
  <2>1. Up(s.mods, s.key) \in Step
    BY <1>3 DEF Up, Step
  <2>2. QED BY <1>2, <1>4, <2>1
<1>11. asked' \in Seq(KeyPress)
  <2>1. ASSUME s.key # NoKey PROVE [mods |-> modifier', key |-> s.key] \in KeyPress
    BY <1>3, <1>5, <2>1 DEF KeyPress
  <2>2. asked \in Seq(KeyPress)
    BY DEF ChordsTypeOK
  <2>3. QED BY <1>4, <2>1, <2>2
<1>12. swallowed' \in BOOLEAN
  BY <1>4, Zenon
<1>13. UNCHANGED <<user, calls, seen>>
  BY <1>4 DEF caller
<1>14. stale' \in BOOLEAN
  BY <1>4
<1>15. QED
  BY <1>5, <1>6, <1>9, <1>10, <1>11, <1>12, <1>13, <1>14 DEF ChordsTypeOK

LEMMA ReleaseTyped ==
  ASSUME ChordsTypeOK, Release
  PROVE  ChordsTypeOK'
<1> DEFINE s == Head(script)
<1>1. script \in Seq(Step) /\ ToDo({"up"})
  BY DEF ChordsTypeOK, Release
<1>2. s \in Step /\ s.op \in {"up"} /\ Tail(script) \in Seq(Step)
  BY <1>1, ScriptFacts
<1>3. s.mods \in SUBSET Mod /\ s.key \in Key \cup {NoKey}
  BY <1>2 DEF Step
<1>4. /\ modifier' = modifier \ s.mods
      /\ kbd_remove_key(s.key)
      /\ script' = Tail(script)
      /\ kbd_enqueue([report |-> LiveReport']) /\ stale' \in BOOLEAN
      /\ UNCHANGED caller /\ UNCHANGED <<asked, seen, swallowed>>
  BY DEF Release, kbd_stage
<1> HIDE DEF s
<1>5. modifier' \subseteq Mod
  BY <1>4 DEF ChordsTypeOK
<1>6. keycode' \in [1..SLOTS -> Key \cup {NoKey}]
  BY <1>3, <1>4, RemovedKey
<1>7. LiveReport' \in Report
  BY <1>5, <1>6 DEF LiveReport, Report
<1>8. [report |-> LiveReport'] \in Line!Entry
  BY <1>7 DEF Line!Entry
<1>9. /\ pending' \in Seq(Line!Entry) /\ Len(pending') <= Capacity
      /\ UNCHANGED <<ep1_in, host_kbd>> /\ dropped' \in BOOLEAN
  BY <1>4, <1>8, EnqueueTyped
<1>10. UNCHANGED <<user, calls, asked, seen, swallowed>>
  BY <1>4 DEF caller
<1>11. script' \in Seq(Step)
  BY <1>2, <1>4
<1>12. stale' \in BOOLEAN
  BY <1>4
<1>13. QED
  BY <1>5, <1>6, <1>9, <1>10, <1>11, <1>12 DEF ChordsTypeOK

LEMMA WaitTyped ==
  ASSUME ChordsTypeOK, kbd_stage_wait
  PROVE  ChordsTypeOK'
<1> DEFINE n == Head(script).n
           e == [silence |-> IF n = 0 THEN WaitMod ELSE n]
<1>1. script \in Seq(Step) /\ ToDo({"wait"})
  BY DEF ChordsTypeOK, kbd_stage_wait
<1>2. Head(script) \in Step /\ Head(script).op \in {"wait"} /\ Tail(script) \in Seq(Step)
  BY <1>1, ScriptFacts
<1>3. n \in 0..(WaitMod - 1)
  BY <1>2 DEF Step
<1>4. /\ kbd_enqueue(e)
      /\ script' = Tail(script)
      /\ UNCHANGED <<modifier, keycode, caller, asked, seen, stale, swallowed>>
  BY DEF kbd_stage_wait
<1>5. e \in Line!Entry
  BY <1>3, SizeFacts DEF Line!Entry
<1> HIDE DEF n, e
<1>6. /\ pending' \in Seq(Line!Entry) /\ Len(pending') <= Capacity
      /\ UNCHANGED <<ep1_in, host_kbd>> /\ dropped' \in BOOLEAN
  BY <1>4, <1>5, EnqueueTyped
<1>7. UNCHANGED <<modifier, keycode, user, calls, asked, seen, stale, swallowed>>
  BY <1>4 DEF caller
<1>8. script' \in Seq(Step)
  BY <1>2, <1>4
<1>9. QED
  BY <1>6, <1>7, <1>8 DEF ChordsTypeOK

LEMMA CallsTyped ==
  ASSUME ChordsTypeOK, NEW c \in AnyCall \cup UserCall, Call(c),
         user' \subseteq UserKey \cup UserMod
  PROVE  ChordsTypeOK'
<1>1. /\ script' = Script(c) /\ calls < MaxCalls /\ calls' = calls + 1
      /\ UNCHANGED <<modifier, keycode, pending, ep1_in, host_kbd, asked, seen, dropped, stale,
                     swallowed>>
  BY DEF Call, line
<1>2. script' \in Seq(Step)
  BY <1>1, CallTyped
<1>3. calls' \in 0..MaxCalls
  BY <1>1, SizeFacts DEF ChordsTypeOK
<1>4. QED
  BY <1>1, <1>2, <1>3 DEF ChordsTypeOK

(* A call is one of the tables or of the user. *)
LEMMA SomeCall ==
  ASSUME ChordsTypeOK, UseKeyboard \/ UserPress \/ UserRelease
  PROVE  \E c \in AnyCall \cup UserCall : Call(c) /\ user' \subseteq UserKey \cup UserMod
<1>1. user \subseteq UserKey \cup UserMod
  BY DEF ChordsTypeOK
<1>2. CASE UseKeyboard
  <2>1. PICK c \in IF calls > 0 THEN Sample ELSE AnyCall : Call(c) /\ UNCHANGED user
    BY <1>2 DEF UseKeyboard
  <2>2. c \in AnyCall
    BY <2>1, CallAssumption
  <2>3. QED BY <1>1, <2>1, <2>2
<1>3. CASE UserPress
  <2>1. PICK k \in (UserKey \cup UserMod) \ user : Call(UsePress(k)) /\ user' = user \cup {k}
    BY <1>3 DEF UserPress
  <2>2. UsePress(k) \in UserCall /\ user' \subseteq UserKey \cup UserMod
    BY <1>1, <2>1 DEF UserCall
  <2>3. QED BY <2>1, <2>2
<1>4. CASE UserRelease
  <2>1. PICK k \in user : Call(UseRelease(k)) /\ user' = user \ {k}
    BY <1>4 DEF UserRelease
  <2>2. UseRelease(k) \in UserCall /\ user' \subseteq UserKey \cup UserMod
    BY <1>1, <2>1 DEF UserCall
  <2>3. QED BY <2>1, <2>2
<1>5. QED BY <1>2, <1>3, <1>4

(* What a flush does to the line: a report is armed, or a silence shrinks. *)
LEMMA FlushTyped ==
  ASSUME ChordsTypeOK, hid_flush
  PROVE  ChordsTypeOK'
<1>1. pending \in Seq(Line!Entry) /\ Len(pending) <= Capacity /\ Capacity \in Nat
  BY SizeFacts DEF ChordsTypeOK
<1>2. UNCHANGED <<modifier, keycode, script, user, calls, asked, seen,
                  dropped, stale, swallowed>>
  BY DEF hid_flush, live, caller
<1>3. Line!Deliver \/ Line!StaySilent
  BY DEF hid_flush
<1>4. pending # <<>>
  BY <1>3 DEF Line!Deliver, Line!StaySilent
<1>5. /\ Head(pending) \in Line!Entry /\ Tail(pending) \in Seq(Line!Entry)
      /\ Len(Tail(pending)) = Len(pending) - 1 /\ Len(pending) \in Nat
  BY <1>1, <1>4, HeadTailProperties, LenProperties
<1>6. CASE Line!Deliver
  <2>1. "report" \in DOMAIN Head(pending) /\ ep1_in' = Head(pending).report
        /\ pending' = Tail(pending) /\ UNCHANGED host_kbd
    BY <1>6 DEF Line!Deliver
  <2>2. Head(pending).report \in Report
    BY <1>5, <2>1 DEF Line!Entry
  <2>3. Len(pending') <= Capacity
    BY <1>1, <1>5, <2>1
  <2>4. QED BY <1>2, <1>5, <2>1, <2>2, <2>3 DEF ChordsTypeOK
<1>7. CASE Line!StaySilent
  <2>1. /\ "silence" \in DOMAIN Head(pending) /\ UNCHANGED <<ep1_in, host_kbd>>
        /\ pending' = IF Head(pending).silence = 1 THEN Tail(pending)
                      ELSE <<[silence |-> Head(pending).silence - 1]>> \o Tail(pending)
    BY <1>7 DEF Line!StaySilent
  <2>2. Head(pending).silence \in 1..WaitMod
    BY <1>5, <2>1 DEF Line!Entry
  <2>3. pending' \in Seq(Line!Entry) /\ Len(pending') <= Capacity
    <3>1. CASE Head(pending).silence = 1
      BY <1>1, <1>5, <2>1, <3>1
    <3>2. CASE Head(pending).silence # 1
      <4> DEFINE e == [silence |-> Head(pending).silence - 1]
      <4>1. e \in Line!Entry
        BY <2>2, <3>2, SizeFacts DEF Line!Entry
      <4>2. pending' = <<e>> \o Tail(pending)
        BY <2>1, <3>2
      <4> HIDE DEF e
      <4>3. QED BY <1>1, <1>5, <4>1, <4>2
    <3>3. QED BY <3>1, <3>2
  <2>4. QED BY <1>2, <2>1, <2>3 DEF ChordsTypeOK
<1>8. QED BY <1>3, <1>6, <1>7

LEMMA PollTyped ==
  ASSUME ChordsTypeOK, HostPoll
  PROVE  ChordsTypeOK'
<1>1. /\ ep1_in # NoReport /\ host_kbd' = ep1_in /\ ep1_in' = NoReport /\ UNCHANGED pending
      /\ seen' = seen \o Presses(host_kbd, host_kbd')
      /\ UNCHANGED <<modifier, keycode, script, user, calls, asked,
                     dropped, stale, swallowed>>
  BY DEF HostPoll, Line!Collect, live, caller
<1>2. host_kbd \in Report /\ host_kbd' \in Report
  BY <1>1 DEF ChordsTypeOK
<1>3. seen \in Seq(KeyPress) /\ Presses(host_kbd, host_kbd') \in Seq(KeyPress)
  BY <1>2, PressesFacts DEF ChordsTypeOK
<1>4. seen' \in Seq(KeyPress)
  BY <1>1, <1>3
<1>5. QED
  BY <1>1, <1>2, <1>4 DEF ChordsTypeOK

LEMMA TypeInit == ChordsInit => ChordsTypeOK
<1> SUFFICES ASSUME ChordsInit PROVE ChordsTypeOK
  OBVIOUS
<1>1. /\ pending = <<>> /\ ep1_in = NoReport /\ host_kbd = Zero
      /\ modifier = {} /\ keycode = [i \in 1..SLOTS |-> NoKey] /\ script = <<>>
      /\ user = {} /\ calls = 0 /\ asked = <<>> /\ seen = <<>>
      /\ dropped = FALSE /\ stale = FALSE /\ swallowed = FALSE
  BY DEF ChordsInit, Line!Init
<1>2. Zero \in Report
  BY DEF Zero, Report
<1>3. keycode \in [1..SLOTS -> Key \cup {NoKey}]
  BY <1>1
<1>4. pending \in Seq(Line!Entry) /\ Len(pending) <= Capacity
  BY <1>1, SizeFacts
<1>5. calls \in 0..MaxCalls
  BY <1>1, SizeFacts
<1>6. /\ script \in Seq(Step)
      /\ asked \in Seq(KeyPress) /\ seen \in Seq(KeyPress)
  BY <1>1
<1>7. {dropped, stale, swallowed} \subseteq BOOLEAN
  BY <1>1
<1>8. QED BY <1>1, <1>2, <1>3, <1>4, <1>5, <1>6, <1>7 DEF ChordsTypeOK

LEMMA TypeStep ==
  ASSUME ChordsTypeOK, [ChordsNext]_chordvars
  PROVE  ChordsTypeOK'
<1>1. CASE CallStep
  BY <1>1, PressTyped, ReleaseTyped, WaitTyped DEF CallStep
<1>2. CASE UseKeyboard \/ UserPress \/ UserRelease
  <2>1. PICK c \in AnyCall \cup UserCall : Call(c) /\ user' \subseteq UserKey \cup UserMod
    BY <1>2, SomeCall
  <2>2. QED BY <2>1, CallsTyped
<1>3. CASE hid_flush
  BY <1>3, FlushTyped
<1>4. CASE HostPoll
  BY <1>4, PollTyped
<1>5. CASE UNCHANGED chordvars
  BY <1>5 DEF chordvars, live, line, caller, ChordsTypeOK
<1>6. QED BY <1>1, <1>2, <1>3, <1>4, <1>5 DEF ChordsNext

(* The report never has more keys than slots, the line never more entries than
   the ring has room for, and every call is made of steps on keys of the report
   (keyboard.c:145-200, usb_hid.c:76-100, macro.c:40-126, compose.h). *)
THEOREM ChordsTypeCorrect == ChordsSpec => []ChordsTypeOK
<1>1. ChordsInit => ChordsTypeOK
  BY TypeInit
<1>2. ChordsTypeOK /\ [ChordsNext]_chordvars => ChordsTypeOK'
  BY TypeStep
<1>3. QED BY <1>1, <1>2, PTL DEF ChordsSpec

------------------------------------------------------------------------------
(* What a host finds in report r after report b: nothing, or the press s[to]. *)
Finds(s, b, r, from, to) ==
  \/ r.keys \subseteq b.keys /\ to = from
  \/ /\ to = from + 1 /\ to <= Len(s)
     /\ \E k \in Key : r.keys \ b.keys = {k} /\ s[to] = [mods |-> r.modifier, key |-> k]

Linked(s, e, b, r, from, to) ==
  IF "report" \in DOMAIN e THEN e.report = r /\ Finds(s, b, r, from, to)
                           ELSE r = b /\ to = from

(* With rs[i] and ns[i], the report and the number of presses after entry i, the
   entries p lead from one report and number to another. *)
Chain(s, p, rs, ns) ==
  /\ rs \in [0..Len(p) -> Report] /\ ns \in [0..Len(p) -> 0..Len(s)]
  /\ \A i \in 1..Len(p) : Linked(s, p[i], rs[i - 1], rs[i], ns[i - 1], ns[i])

Leads(s, p, b, from, r, to) ==
  \E rs \in [0..Len(p) -> Report], ns \in [0..Len(p) -> 0..Len(s)] :
    Chain(s, p, rs, ns) /\ rs[0] = b /\ ns[0] = from /\ rs[Len(p)] = r /\ ns[Len(p)] = to

(* A further press asked for changes nothing of this. *)
LEMMA FindsMore ==
  ASSUME NEW s \in Seq(KeyPress), NEW x \in KeyPress, NEW b, NEW r,
         NEW from \in Nat, NEW to \in Nat,
         Finds(s, b, r, from, to)
  PROVE  Finds(Append(s, x), b, r, from, to)
<1>1. /\ Len(Append(s, x)) = Len(s) + 1 /\ Len(s) \in Nat
      /\ \A i \in 1..Len(s) : Append(s, x)[i] = s[i]
  BY AppendProperties, LenProperties
<1> DEFINE t == Append(s, x)
<1> HIDE DEF t
<1>2. Len(t) = Len(s) + 1 /\ \A i \in 1..Len(s) : t[i] = s[i]
  BY <1>1 DEF t
<1>3. CASE r.keys \subseteq b.keys /\ to = from
  BY <1>3 DEF Finds
<1>4. CASE /\ to = from + 1 /\ to <= Len(s)
           /\ \E k \in Key : r.keys \ b.keys = {k} /\ s[to] = [mods |-> r.modifier, key |-> k]
  <2>1. to \in 1..Len(s) /\ to <= Len(t)
    BY <1>1, <1>2, <1>4
  <2>2. t[to] = s[to]
    BY <1>2, <2>1
  <2>3. Finds(t, b, r, from, to)
    BY <1>4, <2>1, <2>2 DEF Finds
  <2>4. QED BY <2>3 DEF t
<1>5. QED BY <1>3, <1>4 DEF Finds

(* An empty line leads nowhere. *)
LEMMA LeadsNowhere ==
  ASSUME NEW s \in Seq(KeyPress), NEW b \in Report, NEW n \in 0..Len(s)
  PROVE  /\ Leads(s, <<>>, b, n, b, n)
         /\ \A r, m : Leads(s, <<>>, b, n, r, m) => r = b /\ m = n
<1>1. Leads(s, <<>>, b, n, b, n)
  <2> DEFINE rs == [i \in 0..0 |-> b]
             ns == [i \in 0..0 |-> n]
  <2>1. /\ rs \in [0..0 -> Report] /\ ns \in [0..0 -> 0..Len(s)]
        /\ rs[0] = b /\ ns[0] = n /\ Len(<<>>) = 0
    OBVIOUS
  <2> HIDE DEF rs, ns
  <2>2. Chain(s, <<>>, rs, ns)
    BY <2>1 DEF Chain
  <2>3. QED BY <2>1, <2>2 DEF Leads
<1>2. QED BY <1>1 DEF Leads

(* An entry that goes on from where the line led makes it lead further. *)
LEMMA LeadsAppend ==
  ASSUME NEW E, NEW s \in Seq(KeyPress), NEW t \in Seq(KeyPress), NEW p \in Seq(E), NEW e \in E,
         NEW b, NEW from, NEW r \in Report, NEW to \in Nat,
         NEW r2 \in Report, NEW to2 \in 0..Len(t),
         t = s \/ \E x \in KeyPress : t = Append(s, x),
         Leads(s, p, b, from, r, to), Linked(t, e, r, r2, to, to2)
  PROVE  Leads(t, Append(p, e), b, from, r2, to2)
<1> DEFINE q == Append(p, e)
           l == Len(p)
<1>1. /\ l \in Nat /\ Len(q) = l + 1 /\ q[l + 1] = e
      /\ \A i \in 1..l : q[i] = p[i]
  BY AppendProperties, LenProperties
<1>2. Len(s) \in Nat /\ Len(t) \in Nat /\ Len(s) <= Len(t)
  BY AppendProperties, LenProperties
<1>3. PICK rs \in [0..l -> Report], ns \in [0..l -> 0..Len(s)] :
        Chain(s, p, rs, ns) /\ rs[0] = b /\ ns[0] = from /\ rs[l] = r /\ ns[l] = to
  BY DEF Leads
<1> DEFINE rs2 == [i \in 0..(l + 1) |-> IF i = l + 1 THEN r2 ELSE rs[i]]
           ns2 == [i \in 0..(l + 1) |-> IF i = l + 1 THEN to2 ELSE ns[i]]
<1> HIDE DEF q, l
<1>4. /\ rs2 \in [0..(l + 1) -> Report] /\ ns2 \in [0..(l + 1) -> 0..Len(t)]
      /\ \A i \in 0..l : rs2[i] = rs[i] /\ ns2[i] = ns[i]
      /\ rs2[l + 1] = r2 /\ ns2[l + 1] = to2
  BY <1>1, <1>2, <1>3
<1> HIDE DEF rs2, ns2
<1>5. ASSUME NEW i \in 1..l PROVE Linked(t, q[i], rs2[i - 1], rs2[i], ns2[i - 1], ns2[i])
  <2>1. i - 1 \in 0..l /\ i \in 0..l
    BY <1>1
  <2>2. Linked(s, p[i], rs[i - 1], rs[i], ns[i - 1], ns[i])
    BY <1>3 DEF Chain, l
  <2>3. ns[i - 1] \in Nat /\ ns[i] \in Nat
    BY <1>2, <1>3, <2>1
  <2>4. Linked(t, p[i], rs[i - 1], rs[i], ns[i - 1], ns[i])
    BY <2>2, <2>3, FindsMore DEF Linked
  <2>5. QED BY <1>1, <1>4, <2>1, <2>4
<1>6. Linked(t, q[l + 1], rs2[l], rs2[l + 1], ns2[l], ns2[l + 1])
  BY <1>1, <1>3, <1>4
<1>7. \A i \in 1..(l + 1) : Linked(t, q[i], rs2[i - 1], rs2[i], ns2[i - 1], ns2[i])
  <2>1. SUFFICES ASSUME NEW i \in 1..(l + 1)
                 PROVE  Linked(t, q[i], rs2[i - 1], rs2[i], ns2[i - 1], ns2[i])
    OBVIOUS
  <2>2. CASE i = l + 1
    <3>1. i - 1 = l
      BY <1>1, <2>2
    <3>2. QED BY <1>6, <2>2, <3>1
  <2>3. CASE i # l + 1
    <3>1. i \in 1..l
      BY <1>1, <2>3
    <3>2. QED BY <1>5, <3>1
  <2>4. QED BY <2>2, <2>3
<1>8. Chain(t, q, rs2, ns2)
  BY <1>1, <1>4, <1>7 DEF Chain
<1>9. rs2[0] = b /\ ns2[0] = from
  BY <1>1, <1>3, <1>4
<1>10. Leads(t, q, b, from, r2, to2)
  BY <1>1, <1>4, <1>8, <1>9 DEF Leads
<1>11. QED BY <1>10 DEF q

(* The first entry leads to where the others begin. *)
LEMMA LeadsTail ==
  ASSUME NEW E, NEW s \in Seq(KeyPress), NEW p \in Seq(E), p # <<>>,
         NEW b, NEW from, NEW r, NEW to, Leads(s, p, b, from, r, to)
  PROVE  \E b2 \in Report, from2 \in 0..Len(s) :
           Linked(s, Head(p), b, b2, from, from2) /\ Leads(s, Tail(p), b2, from2, r, to)
<1> DEFINE q == Tail(p)
           l == Len(p)
<1>1. /\ l \in Nat \ {0} /\ Len(q) = l - 1 /\ Head(p) = p[1]
      /\ \A i \in 1..(l - 1) : q[i] = p[i + 1]
  BY HeadTailProperties, LenProperties, EmptySeq
<1>2. PICK rs \in [0..l -> Report], ns \in [0..l -> 0..Len(s)] :
        Chain(s, p, rs, ns) /\ rs[0] = b /\ ns[0] = from /\ rs[l] = r /\ ns[l] = to
  BY DEF Leads
<1>3. \A i \in 1..l : Linked(s, p[i], rs[i - 1], rs[i], ns[i - 1], ns[i])
  BY <1>2 DEF Chain
<1> DEFINE rs2 == [i \in 0..(l - 1) |-> rs[i + 1]]
           ns2 == [i \in 0..(l - 1) |-> ns[i + 1]]
<1> HIDE DEF q, l
<1>4. /\ rs2 \in [0..(l - 1) -> Report] /\ ns2 \in [0..(l - 1) -> 0..Len(s)]
      /\ \A i \in 0..(l - 1) : rs2[i] = rs[i + 1] /\ ns2[i] = ns[i + 1]
  BY <1>1, <1>2
<1> HIDE DEF rs2, ns2
<1>5. ASSUME NEW i \in 1..(l - 1) PROVE Linked(s, q[i], rs2[i - 1], rs2[i], ns2[i - 1], ns2[i])
  <2>1. /\ i - 1 \in 0..(l - 1) /\ i \in 0..(l - 1) /\ i + 1 \in 1..l
        /\ (i + 1) - 1 = i /\ (i - 1) + 1 = i
    BY <1>1
  <2>2. Linked(s, p[i + 1], rs[i], rs[i + 1], ns[i], ns[i + 1])
    BY <1>3, <2>1
  <2>3. rs2[i - 1] = rs[i] /\ ns2[i - 1] = ns[i] /\ rs2[i] = rs[i + 1] /\ ns2[i] = ns[i + 1]
    BY <1>4, <2>1
  <2>4. QED BY <1>1, <2>2, <2>3
<1>6. Chain(s, q, rs2, ns2)
  BY <1>1, <1>4, <1>5 DEF Chain
<1>7. rs2[l - 1] = r /\ ns2[l - 1] = to /\ rs2[0] = rs[1] /\ ns2[0] = ns[1]
  BY <1>1, <1>2, <1>4
<1>8. Leads(s, q, rs[1], ns[1], r, to)
  BY <1>1, <1>4, <1>6, <1>7 DEF Leads
<1>9. Linked(s, Head(p), b, rs[1], from, ns[1])
  <2>1. 1 \in 1..l /\ 1 - 1 = 0
    BY <1>1
  <2>2. QED BY <1>1, <1>2, <1>3, <2>1
<1>10. rs[1] \in Report /\ ns[1] \in 0..Len(s)
  BY <1>1, <1>2
<1>11. QED BY <1>8, <1>9, <1>10 DEF q

(* A shorter silence at the front changes nothing. *)
LEMMA LeadsSilent ==
  ASSUME NEW E, NEW s, NEW p \in Seq(E), p # <<>>, NEW e \in E,
         "report" \notin DOMAIN Head(p), "report" \notin DOMAIN e,
         NEW b, NEW from, NEW r, NEW to, Leads(s, p, b, from, r, to)
  PROVE  Leads(s, <<e>> \o Tail(p), b, from, r, to)
<1> DEFINE q == <<e>> \o Tail(p)
           l == Len(p)
<1>0. Tail(p) \in Seq(E) /\ Len(Tail(p)) = l - 1 /\ l \in Nat \ {0} /\ Head(p) = p[1]
      /\ \A i \in 1..(l - 1) : Tail(p)[i] = p[i + 1]
  BY HeadTailProperties, LenProperties, EmptySeq
<1>1. <<e>> \in Seq(E) /\ Len(<<e>>) = 1 /\ <<e>>[1] = e
  OBVIOUS
<1>2. /\ Len(q) = 1 + (l - 1)
      /\ \A i \in 1..(1 + (l - 1)) : q[i] = IF i <= 1 THEN <<e>>[i] ELSE Tail(p)[i - 1]
  BY <1>0, <1>1, ConcatProperties
<1> HIDE DEF q, l
<1>3. Len(q) = l /\ q[1] = e /\ \A i \in 1..l : i # 1 => q[i] = p[i]
  BY <1>0, <1>1, <1>2
<1>4. PICK rs \in [0..l -> Report], ns \in [0..l -> 0..Len(s)] :
        Chain(s, p, rs, ns) /\ rs[0] = b /\ ns[0] = from /\ rs[l] = r /\ ns[l] = to
  BY DEF Leads, l
<1>5. \A i \in 1..l : Linked(s, p[i], rs[i - 1], rs[i], ns[i - 1], ns[i])
  BY <1>4 DEF Chain, l
<1>6. ASSUME NEW i \in 1..l PROVE Linked(s, q[i], rs[i - 1], rs[i], ns[i - 1], ns[i])
  <2>1. CASE i = 1
    <3>1. Linked(s, p[1], rs[i - 1], rs[i], ns[i - 1], ns[i])
      BY <1>5, <2>1
    <3>2. Linked(s, e, rs[i - 1], rs[i], ns[i - 1], ns[i])
      BY <1>0, <3>1 DEF Linked
    <3>3. QED BY <1>3, <2>1, <3>2
  <2>2. CASE i # 1
    <3>1. q[i] = p[i]
      BY <1>3, <2>2
    <3>2. QED BY <1>5, <3>1
  <2>3. QED BY <2>1, <2>2
<1>7. Chain(s, q, rs, ns)
  BY <1>3, <1>4, <1>6 DEF Chain
<1>8. Leads(s, q, b, from, r, to)
  BY <1>3, <1>4, <1>7 DEF Leads
<1>9. QED BY <1>8 DEF q

------------------------------------------------------------------------------
Latest == IF ep1_in = NoReport THEN host_kbd ELSE ep1_in

(* The line leads from what is armed, or was received last, to the live report,
   and from the presses seen by then to all that were asked for. *)
InFlight ==
  /\ \E n \in 0..Len(asked) :
       /\ Leads(asked, pending, Latest, n, LiveReport, Len(asked))
       /\ IF ep1_in = NoReport THEN n = Len(seen)
                               ELSE Finds(asked, host_kbd, ep1_in, Len(seen), n)
  /\ Len(seen) <= Len(asked)
  /\ \A i \in 1..Len(seen) : seen[i] = asked[i]

OrderInv == ChordsTypeOK /\ ((~dropped /\ ~swallowed) => InFlight)

LEMMA SeenFacts ==
  ASSUME ChordsTypeOK
  PROVE  /\ asked \in Seq(KeyPress) /\ Len(asked) \in Nat /\ DOMAIN asked = 1..Len(asked)
         /\ seen \in Seq(KeyPress) /\ Len(seen) \in Nat /\ DOMAIN seen = 1..Len(seen)
         /\ pending \in Seq(Line!Entry)
         /\ host_kbd \in Report /\ Latest \in Report /\ LiveReport \in Report
BY LenProperties, LiveTyped DEF ChordsTypeOK, Latest

(* Once the line is empty there is nothing left to see. *)
LEMMA InFlightShows ==
  ASSUME OrderInv
  PROVE  PressesInOrder
<1>1. ChordsTypeOK /\ ((~dropped /\ ~swallowed) => InFlight)
  BY DEF OrderInv
<1>2. SUFFICES ASSUME ~dropped, ~swallowed
      PROVE  /\ Len(seen) <= Len(asked) /\ \A i \in DOMAIN seen : seen[i] = asked[i]
             /\ (pending = <<>> /\ ep1_in = NoReport) => seen = asked
  BY DEF PressesInOrder
<1>3. InFlight
  BY <1>1, <1>2
<1>4. Len(seen) <= Len(asked) /\ \A i \in DOMAIN seen : seen[i] = asked[i]
  BY <1>1, <1>3, SeenFacts DEF InFlight
<1>5. ASSUME pending = <<>>, ep1_in = NoReport PROVE seen = asked
  <2>1. PICK n \in 0..Len(asked) :
          /\ Leads(asked, pending, Latest, n, LiveReport, Len(asked))
          /\ n = Len(seen)
    BY <1>3, <1>5 DEF InFlight
  <2>2. Len(asked) = n
    <3>1. asked \in Seq(KeyPress) /\ Latest \in Report
      BY <1>1, SeenFacts
    <3>2. Leads(asked, <<>>, Latest, n, LiveReport, Len(asked))
      BY <1>5, <2>1
    <3>3. QED BY <3>1, <3>2, LeadsNowhere
  <2>3. QED BY <1>1, <1>4, <2>1, <2>2, SeenFacts, SeqEqual
<1>6. QED BY <1>4, <1>5

(* A staged report: what it shows beyond the one before is the press just asked for. *)
LEMMA StagedInFlight ==
  ASSUME ChordsTypeOK, ChordsTypeOK', InFlight, NEW e \in Line!Entry,
         pending' = Append(pending, e), UNCHANGED <<ep1_in, host_kbd, seen>>,
         asked' = asked \/ \E x \in KeyPress : asked' = Append(asked, x),
         Linked(asked', e, LiveReport, LiveReport', Len(asked), Len(asked'))
  PROVE  InFlight'
<1>1. /\ asked \in Seq(KeyPress) /\ asked' \in Seq(KeyPress) /\ pending \in Seq(Line!Entry)
      /\ LiveReport \in Report /\ LiveReport' \in Report
      /\ Len(seen) \in Nat
  BY SeenFacts, LiveTyped DEF ChordsTypeOK, LiveReport, Report
<1>2. /\ Len(asked) \in Nat /\ Len(asked') \in Nat /\ Len(asked) <= Len(asked')
      /\ \A i \in 1..Len(asked) : asked'[i] = asked[i]
  BY <1>1, AppendProperties, LenProperties
<1>3. PICK n \in 0..Len(asked) :
        /\ Leads(asked, pending, Latest, n, LiveReport, Len(asked))
        /\ IF ep1_in = NoReport THEN n = Len(seen)
                                ELSE Finds(asked, host_kbd, ep1_in, Len(seen), n)
  BY DEF InFlight
<1>4. Latest' = Latest
  BY DEF Latest
<1>5. Leads(asked', pending', Latest', n, LiveReport', Len(asked'))
  <2>1. Len(asked') \in 0..Len(asked')
    BY <1>2
  <2>2. Leads(asked', Append(pending, e), Latest, n, LiveReport', Len(asked'))
    BY <1>1, <1>2, <1>3, <2>1, LeadsAppend
  <2>3. QED BY <1>4, <2>2
<1>6. ep1_in # NoReport => Finds(asked', host_kbd, ep1_in, Len(seen), n)
  <2>1. n \in Nat
    BY <1>2, <1>3
  <2>2. QED BY <1>1, <1>3, <2>1, FindsMore
<1>7. n \in 0..Len(asked')
  BY <1>2, <1>3
<1>8. Len(seen') <= Len(asked') /\ \A i \in 1..Len(seen') : seen'[i] = asked'[i]
  <2>1. Len(seen) <= Len(asked) /\ \A i \in 1..Len(seen) : seen[i] = asked[i]
    BY DEF InFlight
  <2>2. QED BY <1>1, <1>2, <2>1
<1>9. IF ep1_in' = NoReport THEN n = Len(seen')
                            ELSE Finds(asked', host_kbd', ep1_in', Len(seen'), n)
  BY <1>3, <1>6
<1>10. QED BY <1>5, <1>7, <1>8, <1>9 DEF InFlight

(* The actions keep the presses on their way. *)
LEMMA PressInFlight ==
  ASSUME OrderInv, ChordsTypeOK', Press
  PROVE  OrderInv'
<1> DEFINE s == Head(script)
<1>1. ChordsTypeOK /\ ((~dropped /\ ~swallowed) => InFlight)
  BY DEF OrderInv
<1>2. s.mods \in SUBSET Mod /\ s.key \in Key \cup {NoKey}
  <2>1. script \in Seq(Step) /\ ToDo({"down", "chord"})
    BY <1>1 DEF ChordsTypeOK, Press
  <2>2. s \in Step /\ s.op \in {"down", "chord"}
    BY <2>1, ScriptFacts
  <2>3. QED BY <2>2 DEF Step
<1>3. /\ modifier' = modifier \cup s.mods
      /\ kbd_add_key(s.key)
      /\ asked' = IF s.key = NoKey THEN asked
                  ELSE Append(asked, [mods |-> modifier', key |-> s.key])
      /\ swallowed' = (swallowed \/ Swallows(s.key))
      /\ kbd_enqueue([report |-> LiveReport'])
      /\ UNCHANGED seen
  BY DEF Press, kbd_stage
<1> DEFINE e == [report |-> LiveReport']
<1> HIDE DEF s
<1>4. LiveReport \in Report /\ LiveReport' \in Report /\ LiveReport'.modifier = modifier'
  BY <1>1, LiveTyped DEF ChordsTypeOK, LiveReport, Report
<1>5. e \in Line!Entry /\ "report" \in DOMAIN e /\ e.report = LiveReport'
  BY <1>4 DEF Line!Entry
<1>6. ASSUME ~dropped', ~swallowed' PROVE InFlight'
  <2>1. /\ ~dropped /\ pending' = Append(pending, e) /\ UNCHANGED <<ep1_in, host_kbd>>
    BY <1>1, <1>3, <1>5, <1>6, EnqueueTyped
  <2>2. ~swallowed /\ ~Swallows(s.key)
    BY <1>3, <1>6, Zenon
  <2>3. InFlight
    BY <1>1, <2>1, <2>2
  <2>4. asked \in Seq(KeyPress) /\ Len(asked) \in Nat
    BY <1>1, SeenFacts
  <2>5. CASE s.key = NoKey
    <3>1. asked' = asked /\ keycode' = keycode
      BY <1>1, <1>2, <1>3, <2>5, AddedKey
    <3>2. LiveReport'.keys = LiveReport.keys
      BY <3>1 DEF LiveReport
    <3>3. Linked(asked', e, LiveReport, LiveReport', Len(asked), Len(asked'))
      BY <1>5, <3>1, <3>2 DEF Linked, Finds
    <3> HIDE DEF e
    <3>4. QED BY <1>1, <1>3, <1>5, <2>1, <2>3, <3>1, <3>3, StagedInFlight
  <2>6. CASE s.key # NoKey
    <3> DEFINE x == [mods |-> modifier', key |-> s.key]
    <3>1. asked' = Append(asked, x)
      BY <1>3, <2>6
    <3>2. LiveReport'.keys \ LiveReport.keys = {s.key}
      BY <1>1, <1>2, <1>3, <2>2, <2>6, AddedKey
    <3>3. s.key \in Key /\ modifier' \in SUBSET Mod
      BY <1>2, <2>6 DEF ChordsTypeOK
    <3>4. x \in KeyPress
      BY <3>3 DEF KeyPress
    <3>5. x = [mods |-> LiveReport'.modifier, key |-> s.key]
      BY <1>4
    <3> HIDE DEF x
    <3>6. Len(asked') = Len(asked) + 1 /\ asked'[Len(asked')] = x
      BY <2>4, <3>1, <3>4, AppendProperties
    <3>7. Finds(asked', LiveReport, LiveReport', Len(asked), Len(asked'))
      BY <2>4, <3>2, <3>3, <3>5, <3>6 DEF Finds
    <3>8. Linked(asked', e, LiveReport, LiveReport', Len(asked), Len(asked'))
      BY <1>5, <3>7 DEF Linked
    <3> HIDE DEF e
    <3>9. QED BY <1>1, <1>3, <1>5, <2>1, <2>3, <3>1, <3>4, <3>8, StagedInFlight
  <2>7. QED BY <2>5, <2>6
<1>7. QED BY <1>6 DEF OrderInv

LEMMA ReleaseInFlight ==
  ASSUME OrderInv, ChordsTypeOK', Release
  PROVE  OrderInv'
<1> DEFINE s == Head(script)
<1>1. ChordsTypeOK /\ ((~dropped /\ ~swallowed) => InFlight)
  BY DEF OrderInv
<1>2. s.mods \in SUBSET Mod /\ s.key \in Key \cup {NoKey}
  <2>1. script \in Seq(Step) /\ ToDo({"up"})
    BY <1>1 DEF ChordsTypeOK, Release
  <2>2. s \in Step /\ s.op \in {"up"}
    BY <2>1, ScriptFacts
  <2>3. QED BY <2>2 DEF Step
<1>3. /\ kbd_remove_key(s.key)
      /\ kbd_enqueue([report |-> LiveReport'])
      /\ UNCHANGED <<asked, seen, swallowed>>
  BY DEF Release, kbd_stage
<1> DEFINE e == [report |-> LiveReport']
<1> HIDE DEF s
<1>4. LiveReport' \in Report
  BY DEF ChordsTypeOK, LiveReport, Report
<1>5. e \in Line!Entry /\ "report" \in DOMAIN e /\ e.report = LiveReport'
  BY <1>4 DEF Line!Entry
<1>6. ASSUME ~dropped', ~swallowed' PROVE InFlight'
  <2>1. /\ ~dropped /\ pending' = Append(pending, e) /\ UNCHANGED <<ep1_in, host_kbd>>
    BY <1>1, <1>3, <1>5, <1>6, EnqueueTyped
  <2>2. InFlight
    BY <1>1, <1>3, <1>6, <2>1
  <2>3. LiveReport'.keys \subseteq LiveReport.keys
    BY <1>1, <1>2, <1>3, RemovedKey
  <2>4. Linked(asked', e, LiveReport, LiveReport', Len(asked), Len(asked'))
    BY <1>3, <1>5, <2>3 DEF Linked, Finds
  <2> HIDE DEF e
  <2>5. QED BY <1>1, <1>3, <1>5, <2>1, <2>2, <2>4, StagedInFlight
<1>7. QED BY <1>6 DEF OrderInv

LEMMA WaitInFlight ==
  ASSUME OrderInv, ChordsTypeOK', kbd_stage_wait
  PROVE  OrderInv'
<1> DEFINE n == Head(script).n
           e == [silence |-> IF n = 0 THEN WaitMod ELSE n]
<1>1. ChordsTypeOK /\ ((~dropped /\ ~swallowed) => InFlight)
  BY DEF OrderInv
<1>2. n \in 0..(WaitMod - 1)
  <2>1. script \in Seq(Step) /\ ToDo({"wait"})
    BY <1>1 DEF ChordsTypeOK, kbd_stage_wait
  <2>2. Head(script) \in Step /\ Head(script).op \in {"wait"}
    BY <2>1, ScriptFacts
  <2>3. QED BY <2>2 DEF Step
<1>3. /\ kbd_enqueue(e)
      /\ UNCHANGED <<modifier, keycode, asked, seen, swallowed>>
  BY DEF kbd_stage_wait
<1>4. e \in Line!Entry /\ "report" \notin DOMAIN e
  BY <1>2, SizeFacts DEF Line!Entry
<1> HIDE DEF n, e
<1>5. ASSUME ~dropped', ~swallowed' PROVE InFlight'
  <2>1. /\ ~dropped /\ pending' = Append(pending, e) /\ UNCHANGED <<ep1_in, host_kbd>>
    BY <1>1, <1>3, <1>4, <1>5, EnqueueTyped
  <2>2. InFlight
    BY <1>1, <1>3, <1>5, <2>1
  <2>3. LiveReport' = LiveReport
    BY <1>3 DEF LiveReport
  <2>4. Linked(asked', e, LiveReport, LiveReport', Len(asked), Len(asked'))
    BY <1>3, <1>4, <2>3 DEF Linked
  <2>5. QED BY <1>1, <1>3, <1>4, <2>1, <2>2, <2>4, StagedInFlight
<1>6. QED BY <1>5 DEF OrderInv

LEMMA FlushInFlight ==
  ASSUME OrderInv, ChordsTypeOK', hid_flush
  PROVE  OrderInv'
<1>1. ChordsTypeOK /\ ((~dropped /\ ~swallowed) => InFlight)
  BY DEF OrderInv
<1>2. UNCHANGED <<modifier, keycode, asked, seen, dropped, swallowed>>
  BY DEF hid_flush, live
<1>3. LiveReport' = LiveReport
  BY <1>2 DEF LiveReport
<1>4. ASSUME InFlight PROVE InFlight'
  <2>1. PICK n \in 0..Len(asked) :
          /\ Leads(asked, pending, Latest, n, LiveReport, Len(asked))
          /\ IF ep1_in = NoReport THEN n = Len(seen)
                                  ELSE Finds(asked, host_kbd, ep1_in, Len(seen), n)
    BY <1>4 DEF InFlight
  <2>2. Len(seen) <= Len(asked) /\ \A i \in 1..Len(seen) : seen[i] = asked[i]
    BY <1>4 DEF InFlight
  <2>3. CASE Line!Deliver
    <3>1. /\ pending # <<>> /\ "report" \in DOMAIN Head(pending) /\ ep1_in = NoReport
          /\ ep1_in' = Head(pending).report /\ pending' = Tail(pending) /\ host_kbd' = host_kbd
      BY <2>3 DEF Line!Deliver
    <3>2. Latest = host_kbd /\ n = Len(seen)
      BY <2>1, <3>1 DEF Latest
    <3>3. PICK b2 \in Report, m \in 0..Len(asked) :
            Linked(asked, Head(pending), host_kbd, b2, Len(seen), m)
              /\ Leads(asked, Tail(pending), b2, m, LiveReport, Len(asked))
      BY <1>1, <2>1, <3>1, <3>2, LeadsTail, SeenFacts
    <3>4. b2 = ep1_in' /\ Finds(asked, host_kbd, b2, Len(seen), m)
      BY <3>1, <3>3 DEF Linked
    <3>5. ep1_in' # NoReport /\ Latest' = b2
      BY <3>4, ReportAssumption DEF Latest
    <3>6. Leads(asked', pending', Latest', m, LiveReport', Len(asked'))
      BY <1>2, <1>3, <3>1, <3>3, <3>5
    <3>7. Finds(asked', host_kbd', ep1_in', Len(seen'), m)
      BY <1>2, <3>1, <3>4
    <3>8. /\ m \in 0..Len(asked') /\ Len(seen') <= Len(asked')
          /\ \A i \in 1..Len(seen') : seen'[i] = asked'[i]
      BY <1>2, <2>2, <3>3
    <3>9. QED BY <3>5, <3>6, <3>7, <3>8 DEF InFlight
  <2>4. CASE Line!StaySilent
    <3>1. /\ pending # <<>> /\ "silence" \in DOMAIN Head(pending)
          /\ pending' = IF Head(pending).silence = 1 THEN Tail(pending)
                        ELSE <<[silence |-> Head(pending).silence - 1]>> \o Tail(pending)
          /\ UNCHANGED <<ep1_in, host_kbd>>
      BY <2>4 DEF Line!StaySilent
    <3>2. Head(pending) \in Line!Entry
      BY <1>1, <3>1, SeenFacts, HeadTailProperties
    <3>3. "report" \notin DOMAIN Head(pending) /\ Head(pending).silence \in 1..WaitMod
      BY <3>1, <3>2 DEF Line!Entry
    <3>4. Latest' = Latest
      BY <3>1 DEF Latest
    <3>5. Leads(asked, pending', Latest, n, LiveReport, Len(asked))
      <4>1. CASE Head(pending).silence = 1
        <5>1. PICK b2 \in Report, m \in 0..Len(asked) :
                Linked(asked, Head(pending), Latest, b2, n, m)
                  /\ Leads(asked, Tail(pending), b2, m, LiveReport, Len(asked))
          BY <1>1, <2>1, <3>1, LeadsTail, SeenFacts
        <5>2. b2 = Latest /\ m = n
          BY <3>3, <5>1 DEF Linked
        <5>3. QED BY <3>1, <4>1, <5>1, <5>2
      <4>2. CASE Head(pending).silence # 1
        <5> DEFINE e == [silence |-> Head(pending).silence - 1]
        <5>1. e \in Line!Entry /\ "report" \notin DOMAIN e
          BY <3>3, <4>2, SizeFacts DEF Line!Entry
        <5>2. pending' = <<e>> \o Tail(pending)
          BY <3>1, <4>2
        <5> HIDE DEF e
        <5>3. Leads(asked, <<e>> \o Tail(pending), Latest, n, LiveReport, Len(asked))
          BY <1>1, <2>1, <3>1, <3>3, <5>1, LeadsSilent, SeenFacts
        <5>4. QED BY <5>2, <5>3
      <4>3. QED BY <4>1, <4>2
    <3>6. Leads(asked', pending', Latest', n, LiveReport', Len(asked'))
      BY <1>2, <1>3, <3>4, <3>5
    <3>7. IF ep1_in' = NoReport THEN n = Len(seen')
                                ELSE Finds(asked', host_kbd', ep1_in', Len(seen'), n)
      BY <1>2, <2>1, <3>1
    <3>8. /\ n \in 0..Len(asked') /\ Len(seen') <= Len(asked')
          /\ \A i \in 1..Len(seen') : seen'[i] = asked'[i]
      BY <1>2, <2>1, <2>2
    <3>9. QED BY <3>6, <3>7, <3>8 DEF InFlight
  <2>5. QED BY <2>3, <2>4 DEF hid_flush
<1>5. QED BY <1>1, <1>2, <1>4 DEF OrderInv

LEMMA PollInFlight ==
  ASSUME OrderInv, ChordsTypeOK', HostPoll
  PROVE  OrderInv'
<1>1. ChordsTypeOK /\ ((~dropped /\ ~swallowed) => InFlight)
  BY DEF OrderInv
<1>2. /\ ep1_in # NoReport /\ host_kbd' = ep1_in /\ ep1_in' = NoReport /\ pending' = pending
      /\ seen' = seen \o Presses(host_kbd, ep1_in)
      /\ UNCHANGED <<modifier, keycode, asked, dropped, swallowed>>
  BY DEF HostPoll, Line!Collect, live
<1>3. LiveReport' = LiveReport /\ Latest' = Latest
  BY <1>2 DEF LiveReport, Latest
<1>4. host_kbd \in Report /\ ep1_in \in Report
  BY <1>1, <1>2 DEF ChordsTypeOK
<1>5. ASSUME InFlight PROVE InFlight'
  <2>1. PICK n \in 0..Len(asked) :
          /\ Leads(asked, pending, Latest, n, LiveReport, Len(asked))
          /\ Finds(asked, host_kbd, ep1_in, Len(seen), n)
    BY <1>2, <1>5 DEF InFlight
  <2>2. Len(seen) <= Len(asked) /\ \A i \in 1..Len(seen) : seen[i] = asked[i]
    BY <1>5 DEF InFlight
  <2>3. asked \in Seq(KeyPress) /\ Len(asked) \in Nat /\ seen \in Seq(KeyPress) /\ Len(seen) \in Nat
    BY <1>1, SeenFacts
  <2>4. Len(seen') = n /\ \A i \in 1..n : seen'[i] = asked[i]
    <3>1. CASE ep1_in.keys \subseteq host_kbd.keys /\ n = Len(seen)
      <4>1. Presses(host_kbd, ep1_in) = <<>>
        BY <1>4, <3>1, PressesFacts
      <4>2. seen' = seen
        BY <1>2, <2>3, <4>1, ConcatEmptySeq
      <4>3. QED BY <2>2, <3>1, <4>2
    <3>2. CASE /\ n = Len(seen) + 1 /\ n <= Len(asked)
               /\ \E k \in Key : /\ ep1_in.keys \ host_kbd.keys = {k}
                                 /\ asked[n] = [mods |-> ep1_in.modifier, key |-> k]
      <4>1. PICK k \in Key : /\ ep1_in.keys \ host_kbd.keys = {k}
                             /\ asked[n] = [mods |-> ep1_in.modifier, key |-> k]
        BY <3>2
      <4>2. Presses(host_kbd, ep1_in) = <<asked[n]>>
        BY <1>4, <4>1, PressesFacts
      <4>3. n \in 1..Len(asked) /\ asked[n] \in KeyPress
        BY <2>3, <3>2
      <4> DEFINE x == asked[n]
      <4> HIDE DEF x
      <4>4. seen' = seen \o <<x>> /\ x \in KeyPress
        BY <1>2, <4>2, <4>3 DEF x
      <4>5. Len(seen') = Len(seen) + 1 /\ seen'[Len(seen) + 1] = x
            /\ \A i \in 1..Len(seen) : seen'[i] = seen[i]
        BY <2>3, <4>4
      <4>6. QED BY <2>2, <2>3, <3>2, <4>5 DEF x
    <3>3. QED BY <2>1, <3>1, <3>2 DEF Finds
  <2>5. Leads(asked', pending', Latest', n, LiveReport', Len(asked'))
    BY <1>2, <1>3, <2>1
  <2>6. /\ n \in 0..Len(asked') /\ Len(seen') <= Len(asked')
        /\ \A i \in 1..Len(seen') : seen'[i] = asked'[i]
    BY <1>2, <2>1, <2>3, <2>4
  <2>7. QED BY <1>2, <2>4, <2>5, <2>6 DEF InFlight
<1>6. QED BY <1>1, <1>2, <1>5 DEF OrderInv

LEMMA OrderInit == ChordsInit => OrderInv
<1> SUFFICES ASSUME ChordsInit PROVE OrderInv
  OBVIOUS
<1>1. ChordsTypeOK
  BY TypeInit
<1>2. /\ pending = <<>> /\ ep1_in = NoReport /\ host_kbd = Zero
      /\ modifier = {} /\ keycode = [i \in 1..SLOTS |-> NoKey]
      /\ asked = <<>> /\ seen = <<>>
  BY DEF ChordsInit, Line!Init
<1>3. LiveReport = Zero
  <2>1. {keycode[i] : i \in 1..SLOTS} \ {NoKey} = {}
    BY <1>2
  <2>2. QED BY <1>2, <2>1 DEF LiveReport, Zero
<1>4. Latest = Zero /\ Zero \in Report
  BY <1>1, <1>2 DEF Latest, ChordsTypeOK
<1>5. asked \in Seq(KeyPress) /\ Len(asked) = 0 /\ Len(seen) = 0 /\ 0 \in 0..Len(asked)
  BY <1>2
<1>6. Leads(asked, pending, Latest, 0, LiveReport, Len(asked))
  BY <1>2, <1>3, <1>4, <1>5, LeadsNowhere
<1>7. InFlight
  BY <1>2, <1>5, <1>6 DEF InFlight
<1>8. QED BY <1>1, <1>7 DEF OrderInv

LEMMA OrderStep ==
  ASSUME OrderInv, [ChordsNext]_chordvars
  PROVE  OrderInv'
<1>1. ChordsTypeOK'
  BY TypeStep DEF OrderInv
<1>2. CASE CallStep
  BY <1>1, <1>2, PressInFlight, ReleaseInFlight, WaitInFlight DEF CallStep
<1>3. CASE hid_flush
  BY <1>1, <1>3, FlushInFlight
<1>4. CASE HostPoll
  BY <1>1, <1>4, PollInFlight
<1>5. ASSUME UNCHANGED <<modifier, keycode, pending, ep1_in, host_kbd, asked, seen,
                         dropped, swallowed>>
      PROVE  OrderInv'
  <2>1. LiveReport' = LiveReport /\ Latest' = Latest
    BY <1>5 DEF LiveReport, Latest
  <2>2. InFlight' <=> InFlight
    BY <1>5, <2>1 DEF InFlight
  <2>3. QED BY <1>1, <1>5, <2>2 DEF OrderInv
<1>6. CASE UseKeyboard \/ UserPress \/ UserRelease
  <2>1. PICK c \in AnyCall \cup UserCall : Call(c)
    BY <1>6, SomeCall DEF OrderInv
  <2>2. UNCHANGED <<modifier, keycode, pending, ep1_in, host_kbd, asked, seen, dropped, swallowed>>
    BY <2>1 DEF Call, line
  <2>3. QED BY <1>5, <2>2
<1>7. CASE UNCHANGED chordvars
  BY <1>5, <1>7 DEF chordvars, live, line
<1>8. QED BY <1>2, <1>3, <1>4, <1>6, <1>7 DEF ChordsNext

(* Whatever macros, sequences, characters and user keys come one after the other
   and whenever the host polls, it finds every press once, in order and with its
   modifiers, unless the ring was full or the key could not be pressed
   (keyboard.c:145-200, usb_hid.c:76-100, 128-152). *)
THEOREM PressesAreSeen == ChordsSpec => []PressesInOrder
<1>1. ChordsInit => OrderInv
  BY OrderInit
<1>2. OrderInv /\ [ChordsNext]_chordvars => OrderInv'
  BY OrderStep
<1>3. OrderInv => PressesInOrder
  BY InFlightShows
<1>4. QED BY <1>1, <1>2, <1>3, PTL DEF ChordsSpec

------------------------------------------------------------------------------
(* The newest report is the live one: by itself an invariant, given the types. *)
NewestInv == ChordsTypeOK /\ NewestIsLive

(* An entry is a report or a silence, never both. *)
LEMMA EntryKinds ==
  ASSUME NEW e \in Line!Entry
  PROVE  /\ "report" \in DOMAIN e => "silence" \notin DOMAIN e /\ e = [report |-> e.report]
         /\ "report" \notin DOMAIN e => "silence" \in DOMAIN e
BY DEF Line!Entry

(* A staged report that finds room is the last in line. *)
LEMMA StagedIsNewest ==
  ASSUME ChordsTypeOK, ChordsTypeOK', kbd_stage
  PROVE  NewestIsLive'
<1> DEFINE e == [report |-> LiveReport']
           n == Len(pending) + 1
<1>1. kbd_enqueue(e) /\ stale' = (Len(pending) = Capacity)
  BY DEF kbd_stage
<1>2. e \in Line!Entry
  BY DEF ChordsTypeOK, LiveReport, Report, Line!Entry
<1> HIDE DEF e
<1>3. SUFFICES ASSUME ~stale'
               PROVE  \E i \in DOMAIN pending' : pending'[i] = e /\ SilentAfter(i)'
  BY DEF NewestIsLive, e
<1>4. pending' = Append(pending, e)
  BY <1>1, <1>2, <1>3, EnqueueTyped
<1>5. /\ Len(pending) \in Nat /\ DOMAIN pending' = 1..n /\ pending'[n] = e
  <2>1. pending \in Seq(Line!Entry)
    BY DEF ChordsTypeOK
  <2>2. Len(pending') = n /\ pending'[n] = e /\ pending' \in Seq(Line!Entry) /\ n \in Nat
    BY <1>2, <1>4, <2>1, AppendProperties, LenProperties
  <2>3. QED BY <2>1, <2>2, LenProperties
<1>6. n \in DOMAIN pending' /\ \A j \in DOMAIN pending' : ~(j > n)
  BY <1>5
<1>7. QED BY <1>5, <1>6 DEF SilentAfter

(* A wait that joins the line is no report. *)
LEMMA WaitIsSilent ==
  ASSUME NewestInv, kbd_stage_wait
  PROVE  NewestIsLive'
<1> DEFINE n == Head(script).n
           e == [silence |-> IF n = 0 THEN WaitMod ELSE n]
<1>1. ChordsTypeOK /\ pending \in Seq(Line!Entry)
  BY DEF NewestInv, ChordsTypeOK
<1>2. n \in 0..(WaitMod - 1)
  <2>1. script \in Seq(Step) /\ ToDo({"wait"})
    BY <1>1 DEF ChordsTypeOK, kbd_stage_wait
  <2>2. Head(script) \in Step /\ Head(script).op \in {"wait"}
    BY <2>1, ScriptFacts
  <2>3. QED BY <2>2 DEF Step
<1>3. kbd_enqueue(e) /\ UNCHANGED <<modifier, keycode, stale>>
  BY DEF kbd_stage_wait
<1>4. e \in Line!Entry /\ "silence" \in DOMAIN e
  BY <1>2, SizeFacts DEF Line!Entry
<1> HIDE DEF n, e
<1>5. UNCHANGED <<ep1_in, host_kbd>> /\ pending' \in {pending, Append(pending, e)}
  BY <1>1, <1>3, <1>4, EnqueueTyped
<1>6. /\ DOMAIN pending = 1..Len(pending) /\ Len(pending) \in Nat
      /\ DOMAIN pending \subseteq DOMAIN pending'
      /\ \A j \in DOMAIN pending : pending'[j] = pending[j]
      /\ \A j \in DOMAIN pending' \ DOMAIN pending : pending'[j] = e
  <2>1. CASE pending' = pending
    BY <1>1, <2>1, LenProperties
  <2>2. CASE pending' = Append(pending, e)
    <3>1. /\ pending' \in Seq(Line!Entry) /\ Len(pending') = Len(pending) + 1
          /\ \A j \in 1..Len(pending) : pending'[j] = pending[j]
          /\ pending'[Len(pending) + 1] = e
      BY <1>1, <1>4, <2>2, AppendProperties
    <3>2. DOMAIN pending = 1..Len(pending) /\ DOMAIN pending' = 1..Len(pending')
          /\ Len(pending) \in Nat
      BY <1>1, <3>1, LenProperties
    <3>3. QED BY <3>1, <3>2
  <2>3. QED BY <1>5, <2>1, <2>2
<1>7. \A i : SilentAfter(i) => SilentAfter(i)'
  BY <1>4, <1>6 DEF SilentAfter
<1>8. LiveReport' = LiveReport
  BY <1>3 DEF LiveReport
<1>9. QED BY <1>3, <1>5, <1>6, <1>7, <1>8 DEF NewestInv, NewestIsLive

(* What leaves the line goes towards the host. *)
LEMMA FlushKeepsNewest ==
  ASSUME NewestInv, hid_flush
  PROVE  NewestIsLive'
<1>1. ChordsTypeOK /\ pending \in Seq(Line!Entry)
  BY DEF NewestInv, ChordsTypeOK
<1>2. UNCHANGED <<modifier, keycode, stale>> /\ (Line!Deliver \/ Line!StaySilent)
  BY DEF hid_flush, live
<1>3. LiveReport' = LiveReport
  BY <1>2 DEF LiveReport
<1>4. SUFFICES ASSUME ~stale'
               PROVE  \/ \E i \in DOMAIN pending' :
                           pending'[i] = [report |-> LiveReport] /\ SilentAfter(i)'
                      \/ /\ SilentAfter(0)'
                         /\ LiveReport = IF ep1_in' # NoReport THEN ep1_in' ELSE host_kbd'
  BY <1>3 DEF NewestIsLive
<1>5. \/ \E i \in DOMAIN pending : pending[i] = [report |-> LiveReport] /\ SilentAfter(i)
      \/ /\ SilentAfter(0)
         /\ LiveReport = IF ep1_in # NoReport THEN ep1_in ELSE host_kbd
  BY <1>2, <1>4 DEF NewestInv, NewestIsLive
<1>6. pending # <<>>
  BY <1>2 DEF Line!Deliver, Line!StaySilent
<1>7. /\ Head(pending) = pending[1] /\ pending[1] \in Line!Entry /\ 1 \in DOMAIN pending
      /\ Len(pending) \in Nat \ {0} /\ DOMAIN pending = 1..Len(pending)
      /\ Tail(pending) \in Seq(Line!Entry) /\ DOMAIN Tail(pending) = 1..(Len(pending) - 1)
      /\ \A j \in 1..(Len(pending) - 1) : Tail(pending)[j] = pending[j + 1]
  <2>1. /\ Head(pending) \in Line!Entry /\ Tail(pending) \in Seq(Line!Entry)
        /\ Len(Tail(pending)) = Len(pending) - 1
        /\ \A j \in 1..Len(Tail(pending)) : Tail(pending)[j] = pending[j + 1]
    BY <1>1, <1>6, HeadTailProperties
  <2>2. Len(pending) \in Nat \ {0} /\ DOMAIN pending = 1..Len(pending)
        /\ DOMAIN Tail(pending) = 1..Len(Tail(pending))
    BY <1>1, <1>6, <2>1, LenProperties, EmptySeq
  <2>3. Head(pending) = pending[1]
    OBVIOUS
  <2>4. QED BY <2>1, <2>2, <2>3
<1>8. ASSUME pending' = Tail(pending)
      PROVE  \A i \in Nat : SilentAfter(i + 1) => SilentAfter(i)'
  BY <1>7, <1>8 DEF SilentAfter
<1>9. CASE Line!Deliver
  <2>1. /\ "report" \in DOMAIN pending[1] /\ ep1_in = NoReport
        /\ ep1_in' = pending[1].report /\ pending' = Tail(pending) /\ host_kbd' = host_kbd
    BY <1>7, <1>9 DEF Line!Deliver
  <2>2. "silence" \notin DOMAIN pending[1] /\ pending[1].report \in Report
    BY <1>7, <2>1, EntryKinds DEF Line!Entry
  <2>3. ~SilentAfter(0)
    BY <1>7, <2>2 DEF SilentAfter
  <2>4. PICK i \in DOMAIN pending : pending[i] = [report |-> LiveReport] /\ SilentAfter(i)
    BY <1>5, <2>3
  <2>5. CASE i = 1
    <3>1. SilentAfter(0)'
      BY <1>8, <2>1, <2>4, <2>5
    <3>2. ep1_in' = LiveReport /\ ep1_in' # NoReport
      <4>1. pending[1].report = LiveReport
        BY <2>4, <2>5
      <4>2. QED BY <2>1, <2>2, <4>1, ReportAssumption
    <3>3. QED BY <3>1, <3>2
  <2>6. CASE i # 1
    <3>1. i - 1 \in DOMAIN pending' /\ pending'[i - 1] = pending[i] /\ i - 1 \in Nat
      BY <1>7, <2>1, <2>6
    <3>2. SilentAfter(i - 1)'
      <4>1. (i - 1) + 1 = i
        BY <1>7
      <4>2. QED BY <1>8, <2>1, <2>4, <3>1, <4>1
    <3>3. QED BY <2>4, <3>1, <3>2
  <2>7. QED BY <2>5, <2>6
<1>10. CASE Line!StaySilent
  <2>1. /\ "silence" \in DOMAIN pending[1] /\ UNCHANGED <<ep1_in, host_kbd>>
        /\ pending' = IF pending[1].silence = 1 THEN Tail(pending)
                      ELSE <<[silence |-> pending[1].silence - 1]>> \o Tail(pending)
    BY <1>7, <1>10 DEF Line!StaySilent
  <2>2. pending[1] # [report |-> LiveReport]
    BY <2>1
  <2>3. CASE pending' = Tail(pending)
    <3>1. CASE \E i \in DOMAIN pending : pending[i] = [report |-> LiveReport] /\ SilentAfter(i)
      <4>1. PICK i \in DOMAIN pending : pending[i] = [report |-> LiveReport] /\ SilentAfter(i)
        BY <3>1
      <4>2. i - 1 \in DOMAIN pending' /\ pending'[i - 1] = pending[i] /\ i - 1 \in Nat
            /\ (i - 1) + 1 = i
        BY <1>7, <2>2, <2>3, <4>1
      <4>3. SilentAfter(i - 1)'
        BY <1>8, <2>3, <4>1, <4>2
      <4>4. QED BY <4>1, <4>2, <4>3
    <3>2. CASE /\ SilentAfter(0)
               /\ LiveReport = IF ep1_in # NoReport THEN ep1_in ELSE host_kbd
      <4>1. SilentAfter(1)
        BY <1>7, <3>2 DEF SilentAfter
      <4>2. SilentAfter(0)'
        BY <1>8, <2>3, <4>1
      <4>3. QED BY <2>1, <3>2, <4>2
    <3>3. QED BY <1>5, <3>1, <3>2
  <2>4. CASE pending' # Tail(pending)
    <3> DEFINE e == [silence |-> pending[1].silence - 1]
    <3>1. pending' = <<e>> \o Tail(pending) /\ "silence" \in DOMAIN e
      BY <2>1, <2>4
    <3> HIDE DEF e
    <3>2. /\ DOMAIN pending' = DOMAIN pending /\ pending'[1] = e
          /\ \A j \in DOMAIN pending : j # 1 => pending'[j] = pending[j]
      BY <1>7, <3>1
    <3>3. \A i : SilentAfter(i) => SilentAfter(i)'
      BY <3>1, <3>2 DEF SilentAfter
    <3>4. QED BY <1>5, <2>1, <2>2, <3>2, <3>3
  <2>5. QED BY <2>3, <2>4
<1>11. QED BY <1>2, <1>9, <1>10

(* The invariant, and the theorem. *)
LEMMA NewestStep ==
  ASSUME NewestInv, [ChordsNext]_chordvars
  PROVE  NewestInv'
<1>1. ChordsTypeOK /\ ChordsTypeOK'
  BY TypeStep DEF NewestInv
<1>2. ASSUME UNCHANGED <<modifier, keycode, pending, ep1_in, host_kbd, stale>>
      PROVE  NewestIsLive'
  BY <1>2 DEF NewestInv, NewestIsLive, SilentAfter, LiveReport
<1>3. CASE Press \/ Release
  BY <1>1, <1>3, StagedIsNewest DEF NewestInv, Press, Release
<1>4. CASE kbd_stage_wait
  BY <1>1, <1>4, WaitIsSilent DEF NewestInv
<1>5. CASE UseKeyboard \/ UserPress \/ UserRelease
  <2>1. PICK c \in AnyCall \cup UserCall : Call(c) /\ user' \subseteq UserKey \cup UserMod
    BY <1>1, <1>5, SomeCall
  <2>2. UNCHANGED <<modifier, keycode, pending, ep1_in, host_kbd, stale>>
    BY <2>1 DEF Call, line
  <2>3. QED BY <1>1, <1>2, <2>2 DEF NewestInv
<1>6. CASE hid_flush
  BY <1>1, <1>6, FlushKeepsNewest DEF NewestInv
<1>7. CASE HostPoll
  <2>1. /\ UNCHANGED <<modifier, keycode, pending, stale>>
        /\ ep1_in # NoReport /\ host_kbd' = ep1_in /\ ep1_in' = NoReport
    BY <1>7 DEF HostPoll, Line!Collect, live
  <2>2. NewestIsLive'
    BY <2>1 DEF NewestInv, NewestIsLive, SilentAfter, LiveReport
  <2>3. QED BY <1>1, <2>2 DEF NewestInv
<1>8. CASE UNCHANGED chordvars
  BY <1>1, <1>2, <1>8 DEF chordvars, live, line, NewestInv
<1>9. QED BY <1>3, <1>4, <1>5, <1>6, <1>7, <1>8 DEF ChordsNext, CallStep

(* Whatever reports were lost, what the host will see last is the live report,
   unless the last report staged met a full ring (keyboard.c:126-178,
   usb_hid.c:77-91). *)
THEOREM LossEndsWithNextReport == ChordsSpec => []NewestIsLive
<1>1. ChordsInit => NewestInv
  <2>1. SUFFICES ASSUME ChordsInit PROVE NewestIsLive
    BY TypeInit DEF NewestInv
  <2>2. /\ pending = <<>> /\ ep1_in = NoReport /\ host_kbd = Zero
        /\ modifier = {} /\ keycode = [i \in 1..SLOTS |-> NoKey]
    BY <2>1 DEF ChordsInit, Line!Init
  <2>3. LiveReport = Zero
    BY <2>2 DEF LiveReport, Zero
  <2>4. QED BY <2>2, <2>3 DEF NewestIsLive, SilentAfter
<1>2. NewestInv /\ [ChordsNext]_chordvars => NewestInv'
  BY NewestStep
<1>3. NewestInv => NewestIsLive
  BY DEF NewestInv
<1>4. QED BY <1>1, <1>2, <1>3, PTL DEF ChordsSpec

==============================================================================
