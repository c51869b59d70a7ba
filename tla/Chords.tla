------------------------------- MODULE Chords --------------------------------
(***************************************************************************)
(* What the keyboard types by itself: macros (macro.c), special and        *)
(* accented characters (compose.c, compose.h) and the helpers of keyboard.c*)
(* they share, beside the keys the user holds, down to the key presses that*)
(* the host finds in the reports.  Which character a press enters is the   *)
(* host's layout, which is not modelled.                                   *)
(*                                                                         *)
(* A call runs inside keyboard_task(): it takes one step for each report it*)
(* stages, and nothing leaves the line before it ends, while the host may  *)
(* collect what is armed.  The line is BoundedFifo, which ReportQueue      *)
(* implements; HidPipeline has the bus events that discard it.             *)
(***************************************************************************)
EXTENDS Naturals, Sequences, FiniteSets, SequencesExt

CONSTANTS
  SLOTS,             \* 6: keycodes in a report
  KBD_QUEUE_DEPTH,   \* slots of the report ring
  MAX_MACRO_STEPS,
  WaitMod,           \* the longest MACRO_WAIT
  Key,               \* keycodes that go into a slot of the report
  MacroSequence,     \* the macro_action_t arrays handed to run_macro_sequence
  UserKey, UserMod,  \* what the user holds and releases
  Sample,            \* the calls that follow others; the first may be any
  MaxCalls,          \* calls in a behaviour
  NoReport

Mod == {"LCTL", "LSFT", "LALT", "RALT"}
NoKey == "NO"

First(numbers) == CHOOSE i \in numbers : \A j \in numbers : i <= j

(* macro_action_t; a tapped modifier goes into a slot like a key. *)
Action == [type: {"DOWN", "UP", "TAP"}, keycode: Key]
            \cup [type: {"WAIT"}, ms: 0..(WaitMod - 1)]
            \cup [type: {"END"}]

Ends(s) == {i \in 1..MAX_MACRO_STEPS : i <= Len(s) /\ s[i].type = "END"}

ASSUME ChordsAssumption ==
  /\ {SLOTS, MAX_MACRO_STEPS, WaitMod} \subseteq Nat \ {0}
  /\ KBD_QUEUE_DEPTH \in Nat \ {0, 1} /\ MaxCalls \in Nat
  /\ IsFiniteSet(Key) /\ Mod \cup UserKey \subseteq Key /\ NoKey \notin Key
  /\ UserMod \subseteq Mod
  /\ \A s \in MacroSequence :
       s \in Seq(Action) /\ (Ends(s) = {} => Len(s) >= MAX_MACRO_STEPS)

------------------------------------------------------------------------------
(* What a call does: steps on the live report.  A chord is a press and, in the
   step after it, the release. *)

Down(mods, k)  == [op |-> "down", mods |-> mods, key |-> k]
Up(mods, k)    == [op |-> "up", mods |-> mods, key |-> k]
Chord(mods, k) == [op |-> "chord", mods |-> mods, key |-> k]
Wait(n)        == [op |-> "wait", n |-> n]

Step == [op: {"down", "up", "chord"}, mods: SUBSET Mod, key: Key \cup {NoKey}]
          \cup [op: {"wait"}, n: 0..(WaitMod - 1)]

send_mod_key(mods, k) == <<Chord(mods, k)>>
tap_key(k) == send_mod_key({}, k)

compose_direct(k)   == send_mod_key({"RALT"}, k)
compose_direct_s(k) == send_mod_key({"RALT", "LSFT"}, k)

compose_accented(accent, letter) == send_mod_key({"RALT"}, accent) \o tap_key(letter)

(* execute_macro: the shortcuts, by the key that goes with Ctrl. *)
MacroKey == [MC_COPY |-> "C", MC_PSTE |-> "V", MC_CUT |-> "X", MC_UNDO |-> "Z",
             MC_REDO |-> "Y", MC_SAVE |-> "S", MC_FIND |-> "F", MC_SALL |-> "A"]

execute_macro(m) == send_mod_key({"LCTL"}, MacroKey[m])

(* press_key and release_key tell modifiers from keys, tap_key does not. *)
press_key(k)   == IF k \in Mod THEN Down({k}, NoKey) ELSE Down({}, k)
release_key(k) == IF k \in Mod THEN Up({k}, NoKey) ELSE Up({}, k)

MacroStep(a) ==
  CASE a.type = "DOWN" -> press_key(a.keycode)
    [] a.type = "UP"   -> release_key(a.keycode)
    [] a.type = "TAP"  -> Chord({}, a.keycode)
    [] a.type = "WAIT" -> Wait(a.ms)

(* Up to MACRO_ACTION_END; a sequence that has none within MAX_MACRO_STEPS is
   cut there and all modifiers are cleared. *)
run_macro_sequence(s) ==
  IF Ends(s) = {}
  THEN Append([i \in 1..MAX_MACRO_STEPS |-> MacroStep(s[i])], Up(Mod, NoKey))
  ELSE [i \in 1..(First(Ends(s)) - 1) |-> MacroStep(s[i])]

------------------------------------------------------------------------------
(* compose.h: named characters and the keys they are made of.  A character is
   a letter under an accent, or a glyph of its own (accent "none"). *)

Glyph(g) == [accent |-> "none", letter |-> g, upper |-> FALSE]

Direct(plain, shifted) ==
  [n \in {Glyph(g) : g \in DOMAIN plain \cup DOMAIN shifted} |->
     IF n.letter \in DOMAIN plain THEN compose_direct(plain[n.letter])
                                  ELSE compose_direct_s(shifted[n.letter])]

Accented(accent, key, lower, upper) ==
  [n \in [accent: {accent}, letter: lower, upper: {FALSE}]
           \cup [accent: {accent}, letter: upper, upper: {TRUE}] |->
     compose_accented(key, n.letter)]

COMPOSE_DK == [acute |-> "SCLN", circ |-> "LBRC", diaer |-> "QUOT", grave |-> "GRV",
               ced |-> "EQL", macron |-> "RBRC", tilde |-> "RBRC", ring |-> "N0",
               dot |-> "DOT"]

Ligatures == Direct([oe |-> "E", ae |-> "A"], [OE |-> "E", AE |-> "A"])

European ==
  Direct([o_stroke |-> "O", sz |-> "S", eth |-> "D", thorn |-> "P", tbar |-> "T",
          lstr |-> "W", dotless_i |-> "I", eng |-> "G", hbar |-> "H", ij |-> "J",
          kra |-> "K", ldot |-> "L"],
         [O_stroke |-> "O", ETH |-> "D", THORN |-> "P", TBAR |-> "T", LSTR |-> "W",
          ENG |-> "G", HBAR |-> "H", IJ |-> "J", LDOT |-> "L"])

Typography ==
  Direct([mu |-> "M", pilcrow |-> "R", cent |-> "C", ldquo |-> "B", rdquo |-> "V"],
         [copyright |-> "C", reg |-> "R", lsquo |-> "B", rsquo |-> "V",
          guill_open |-> "Z", guill_close |-> "X", ordf |-> "F", ordm |-> "M",
          omega |-> "Q"])

Symbols == Direct([arrow_l |-> "Y", arrow_d |-> "U"], [arrow_u |-> "U", yen |-> "Y"])

Vowel == {"A", "E", "I", "O", "U"}

Acute == Accented("acute", COMPOSE_DK.acute, Vowel \cup {"Y", "C", "N", "S", "Z"}, Vowel)
Grave == Accented("grave", COMPOSE_DK.grave, Vowel, {"A", "E", "U"})
Circumflex ==
  Accented("circ", COMPOSE_DK.circ, Vowel \cup {"C", "G", "H", "J", "S", "W", "Y"}, Vowel)
Diaeresis == Accented("diaer", COMPOSE_DK.diaer, Vowel \cup {"Y"}, Vowel)
Cedilla ==
  Accented("ced", COMPOSE_DK.ced, {"C", "G", "K", "L", "N", "R", "S", "T"}, {"C"})
Tilde  == Accented("tilde", COMPOSE_DK.tilde, {"A", "N", "O", "I", "U"}, {"A", "N", "O"})
Macron == Accented("macron", COMPOSE_DK.macron, Vowel, {})
Ring   == Accented("ring", COMPOSE_DK.ring, {"A", "U"}, {"A"})
Dot    == Accented("dot", COMPOSE_DK.dot, {"C", "E", "G", "I", "Z"}, {})

Tables == {Ligatures, European, Typography, Symbols, Acute, Grave, Circumflex,
           Diaeresis, Cedilla, Tilde, Macron, Ring, Dot}

compose == [n \in UNION {DOMAIN t : t \in Tables} |-> (CHOOSE t \in Tables : n \in DOMAIN t)[n]]

------------------------------------------------------------------------------
(* Calls.  Characters are entered through the compose functions; a user key
   or modifier is staged by process_key_press and process_key_release. *)

UseMacro(m)    == [by |-> "macro", name |-> m]
UseCompose(n)  == [by |-> "compose", name |-> n]
UseSequence(s) == [by |-> "sequence", name |-> s]
UsePress(k)    == [by |-> "press", name |-> k]
UseRelease(k)  == [by |-> "release", name |-> k]

Script(c) ==
  CASE c.by = "macro"    -> execute_macro(c.name)
    [] c.by = "compose"  -> compose[c.name]
    [] c.by = "sequence" -> run_macro_sequence(c.name)
    [] c.by = "press"    -> <<press_key(c.name)>>
    [] c.by = "release"  -> <<release_key(c.name)>>

AnyCall == {UseCompose(n) : n \in DOMAIN compose} \cup {UseMacro(m) : m \in DOMAIN MacroKey}
             \cup {UseSequence(s) : s \in MacroSequence}

ASSUME CallAssumption ==
  /\ \A n \in DOMAIN compose, i \in 1..2 : i <= Len(compose[n]) => compose[n][i].key \in Key
  /\ \A m \in DOMAIN MacroKey : MacroKey[m] \in Key
  /\ Sample \subseteq AnyCall

Report == [modifier: SUBSET Mod, keys: SUBSET Key]
Zero   == [modifier |-> {}, keys |-> {}]

KeyPress == [mods: SUBSET Mod, key: Key]

ASSUME ReportAssumption == NoReport \notin Report

VARIABLES
  modifier,    \* s_kbd_report.modifier
  keycode,     \* s_kbd_report.keycode
  script,      \* what the call under way has yet to do
  pending,     \* the reports in line, and the waits between them
  ep1_in,      \* the report armed in EP1 IN, or NoReport
  host_kbd,    \* the last report the host received
  user,        \* the keys and modifiers the user holds
  calls,       \* calls so far
  asked,       \* (ghost) the key presses the calls stand for, oldest first
  seen,        \* (ghost) the key presses the host found in the reports
  dropped,     \* (ghost) an entry met a full line
  stale,       \* (ghost) the last report staged met a full line
  swallowed    \* (ghost) a key was pressed that was down, or had no free slot

live      == <<modifier, keycode, script>>
line      == <<pending, ep1_in, host_kbd>>
caller    == <<user, calls>>
chordvars == <<live, line, caller, asked, seen, dropped, stale, swallowed>>

Capacity == KBD_QUEUE_DEPTH - 1

Line == INSTANCE BoundedFifo

ChordsInit ==
  /\ Line!Init
  /\ modifier = {} /\ keycode = [i \in 1..SLOTS |-> NoKey] /\ script = <<>>
  /\ user = {} /\ calls = 0
  /\ asked = <<>> /\ seen = <<>>
  /\ dropped = FALSE /\ stale = FALSE /\ swallowed = FALSE

------------------------------------------------------------------------------
(* The live report, and its staging. *)

SlotsWith(k) == {i \in 1..SLOTS : keycode[i] = k}

kbd_add_key(k) ==
  keycode' = IF k = NoKey \/ SlotsWith(NoKey) = {} THEN keycode
             ELSE [keycode EXCEPT ![First(SlotsWith(NoKey))] = k]

kbd_remove_key(k) ==
  keycode' = IF k = NoKey \/ SlotsWith(k) = {} THEN keycode
             ELSE [keycode EXCEPT ![First(SlotsWith(k))] = NoKey]

LiveReport ==
  [modifier |-> modifier, keys |-> {keycode[i] : i \in 1..SLOTS} \ {NoKey}]

(* Mutant: the line is not tested for room. *)
EnqueueAnyway(e) ==
  /\ pending' = Append(pending, e)
  /\ dropped' = (dropped \/ Len(pending) = Capacity)
  /\ UNCHANGED <<ep1_in, host_kbd>>

kbd_enqueue(e) ==
  Line!Offer(e) /\ dropped' = (dropped \/ Len(pending) = Capacity)

(* kbd_stage: the live report joins the line, or is lost. *)
kbd_stage ==
  /\ kbd_enqueue([report |-> LiveReport'])
  /\ stale' = (Len(pending) = Capacity)

ToDo(ops) == script # <<>> /\ Head(script).op \in ops

(* A press that cannot show: no slot is free, or the key is down already. *)
Swallows(k) == k # NoKey /\ (SlotsWith(NoKey) = {} \/ SlotsWith(k) # {})

(* The first half of a chord, or a press by itself. *)
Press ==
  /\ ToDo({"down", "chord"})
  /\ LET s == Head(script)
     IN  /\ modifier' = modifier \cup s.mods
         /\ kbd_add_key(s.key)
         /\ script' = IF s.op = "chord" THEN <<Up(s.mods, s.key)>> \o Tail(script)
                      ELSE Tail(script)
         /\ asked' = IF s.key = NoKey THEN asked
                     ELSE Append(asked, [mods |-> modifier', key |-> s.key])
         /\ swallowed' = (swallowed \/ Swallows(s.key))
  /\ kbd_stage
  /\ UNCHANGED <<caller, seen>>

(* Mutant: the report without the key is not staged. *)
ReleaseUnstaged ==
  /\ ToDo({"up"})
  /\ LET s == Head(script)
     IN  modifier' = modifier \ s.mods /\ kbd_remove_key(s.key)
  /\ script' = Tail(script)
  /\ UNCHANGED <<line, caller, asked, seen, dropped, stale, swallowed>>

Release ==
  /\ ToDo({"up"})
  /\ LET s == Head(script)
     IN  modifier' = modifier \ s.mods /\ kbd_remove_key(s.key)
  /\ script' = Tail(script)
  /\ kbd_stage
  /\ UNCHANGED <<caller, asked, seen, swallowed>>

(* The count of a wait is taken down before it is looked at: 0 is the longest. *)
kbd_stage_wait ==
  /\ ToDo({"wait"})
  /\ LET n == Head(script).n
     IN  kbd_enqueue([silence |-> IF n = 0 THEN WaitMod ELSE n])
  /\ script' = Tail(script)
  /\ UNCHANGED <<modifier, keycode, caller, asked, seen, stale, swallowed>>

CallStep == Press \/ Release \/ kbd_stage_wait

------------------------------------------------------------------------------
(* Calls come one after the other. *)

Call(c) ==
  /\ script = <<>> /\ script' = Script(c)
  /\ calls < MaxCalls /\ calls' = calls + 1
  /\ UNCHANGED <<modifier, keycode, line, asked, seen, dropped, stale, swallowed>>

UseKeyboard ==
  \E c \in IF calls > 0 THEN Sample ELSE AnyCall : Call(c) /\ UNCHANGED user

UserPress ==
  \E k \in (UserKey \cup UserMod) \ user : Call(UsePress(k)) /\ user' = user \cup {k}

UserRelease ==
  \E k \in user : Call(UseRelease(k)) /\ user' = user \ {k}

(* The main loop flushes when keyboard_task() has returned. *)
hid_flush ==
  /\ script = <<>>
  /\ Line!Deliver \/ Line!StaySilent
  /\ UNCHANGED <<live, caller, asked, seen, dropped, stale, swallowed>>

(* The keys that are down in a report and were not in the one before. *)
Presses(before, r) ==
  [i \in 1..Cardinality(r.keys \ before.keys) |->
     [mods |-> r.modifier, key |-> SetToSeq(r.keys \ before.keys)[i]]]

HostPoll ==
  /\ Line!Collect
  /\ seen' = seen \o Presses(host_kbd, host_kbd')
  /\ UNCHANGED <<live, caller, asked, dropped, stale, swallowed>>

ChordsNext == CallStep \/ UseKeyboard \/ UserPress \/ UserRelease \/ hid_flush \/ HostPoll

ChordsSpec == ChordsInit /\ [][ChordsNext]_chordvars

(* The call under way comes to its end, the main loop flushes and the host
   polls, again and again. *)
FairChordsSpec ==
  /\ ChordsSpec
  /\ WF_chordvars(CallStep) /\ WF_chordvars(hid_flush) /\ WF_chordvars(HostPoll)

------------------------------------------------------------------------------
ChordsTypeOK ==
  /\ modifier \subseteq Mod /\ keycode \in [1..SLOTS -> Key \cup {NoKey}]
  /\ script \in Seq(Step)
  /\ pending \in Seq(Line!Entry) /\ Len(pending) <= Capacity
  /\ ep1_in \in Report \cup {NoReport} /\ host_kbd \in Report
  /\ user \subseteq UserKey \cup UserMod /\ calls \in 0..MaxCalls
  /\ asked \in Seq(KeyPress) /\ seen \in Seq(KeyPress)
  /\ {dropped, stale, swallowed} \subseteq BOOLEAN

(* The host finds every key press of every macro, character and sequence, with
   its modifiers, in the order of the calls, and all of them once the line is
   empty, unless the ring was full or the key could not be pressed
   (keyboard.c:172-178). *)
PressesInOrder ==
  (~dropped /\ ~swallowed) =>
    /\ Len(seen) <= Len(asked) /\ \A i \in DOMAIN seen : seen[i] = asked[i]
    /\ (pending = <<>> /\ ep1_in = NoReport) => seen = asked

(* No report is in line behind entry i. *)
SilentAfter(i) ==
  \A j \in DOMAIN pending : j > i => "silence" \in DOMAIN pending[j]

(* What the host will see last is the live report, also in the middle of a call
   and after reports were lost, unless the last report staged met a full line
   itself: a loss lasts until the next report (keyboard.c:126-178, usb_hid.c:
   77-91). *)
NewestIsLive ==
  ~stale =>
    \/ \E i \in DOMAIN pending : pending[i] = [report |-> LiveReport] /\ SilentAfter(i)
    \/ /\ SilentAfter(0)
       /\ LiveReport = IF ep1_in # NoReport THEN ep1_in ELSE host_kbd

(* When the calls are over the host comes to see the keys that are down, and no
   others, whatever the full line lost before, unless it lost the very last
   report. *)
HostSeesLive == <>[](stale \/ host_kbd = LiveReport)

==============================================================================
