------------------------------ MODULE Keyboard ------------------------------
(***************************************************************************)
(* One keyboard_task() tick after another: the dispatch of debounced key   *)
(* edges through the layered keymap into the live HID reports (keyboard.c, *)
(* layer.c, keymap.c, macro.c), the encoder's Alt-Tab gesture with its     *)
(* release timeout, and the two layer LEDs (led.c).                        *)
(*                                                                         *)
(* The debounced matrix is the input: each scan picks the set of keys that *)
(* are down.  A keycode is a record whose kind is the range it lies in.    *)
(***************************************************************************)
EXTENDS Naturals, Sequences, FiniteSets, FiniteSetsExt

CONSTANTS
  Position,                \* row * MATRIX_COLS + col of the modelled cells
  NUM_LAYERS,
  keymaps,                 \* [layer][position] -> keycode
  Key,                     \* basic non-modifier usages
  NoKey,                   \* 0x00, an empty report slot
  Mod,                     \* modifier bits
  Usage,                   \* consumer usages
  NoUsage,                 \* 0x0000
  KC_TAB, MOD_LALT, MOD_LSFT,
  SLOTS,                   \* 6: keycodes in a report
  MAX_LAYER_KEYS,
  ALT_RELEASE_TIMEOUT,     \* ALT_RELEASE_TIMEOUT_MS, in ticks
  LED_TABLE_SIZE, LED_INDEX_DEFAULT, LED_DELTA_STEPS, LED_BRIGHTNESS_MAX,
  led_table,               \* PWM level of each brightness notch
  LockReport               \* LED reports the host may have sent

Layer == 0..(NUM_LAYERS - 1)

NoCode    == [kind |-> "no"]
TransCode == [kind |-> "trns"]
KeyCode(k)       == [kind |-> "key", key |-> k]
ModCode(m)       == [kind |-> "mod", mod |-> m]
LayerCode(l)     == [kind |-> "layer", target |-> l]
MacroCode(m, k)  == [kind |-> "macro", mod |-> m, key |-> k]
ConsumerCode(u)  == [kind |-> "consumer", usage |-> u]
LedCode(up)      == [kind |-> "led", up |-> up]
SysCode(reset)   == [kind |-> "sys", reset |-> reset]

Keycode ==
  {NoCode, TransCode}
    \cup {KeyCode(k) : k \in Key} \cup {ModCode(m) : m \in Mod}
    \cup {LayerCode(l) : l \in Layer} \cup {MacroCode(m, k) : m \in Mod, k \in Key}
    \cup {ConsumerCode(u) : u \in Usage} \cup {LedCode(b) : b \in BOOLEAN}
    \cup {SysCode(r) : r \in {"SYS_RST", "SYS_BOOT"}}

ASSUME KeyboardAssumption ==
  /\ Position \subseteq Nat /\ IsFiniteSet(Position)
  /\ NUM_LAYERS \in Nat \ {0}
  /\ keymaps \in [Layer -> [Position -> Keycode]]
  /\ KC_TAB \in Key /\ NoKey \notin Key /\ NoUsage \notin Usage
  /\ {MOD_LALT, MOD_LSFT} \subseteq Mod
  /\ {SLOTS, MAX_LAYER_KEYS, ALT_RELEASE_TIMEOUT, LED_TABLE_SIZE} \subseteq Nat \ {0}
  /\ LED_DELTA_STEPS \in Nat \ {0} /\ LED_BRIGHTNESS_MAX \in Nat
  /\ LED_INDEX_DEFAULT \in 0..(LED_TABLE_SIZE - 1)
  /\ led_table \in [0..(LED_TABLE_SIZE - 1) -> 0..LED_BRIGHTNESS_MAX]
  /\ \A i, j \in 0..(LED_TABLE_SIZE - 1) : i < j => led_table[i] < led_table[j]
  /\ led_table[LED_TABLE_SIZE - 1] = LED_BRIGHTNESS_MAX
  /\ LockReport \subseteq SUBSET {"A", "B"}

VARIABLES
  down,              \* matrix_current: positions that are pressed
  edges,             \* positions whose edge this tick is not dispatched yet
  phase,             \* where keyboard_task() stands, or the reset it waits for
  modifier,          \* s_kbd_report.modifier
  slots,             \* s_kbd_report.keycode
  consumer,          \* s_con_report.consumer
  pressed_keys,      \* s_pressed_keys, with its count
  active_layer_keys, \* with active_layer_key_count
  current_layer,
  alt_held,          \* s_alt_held
  alt_idle_ticks,    \* s_alt_idle_ticks
  out,               \* the reports staged by the last call that staged any
  led_index,
  led_pwm,           \* the two compare registers
  led_report,        \* s_led_report as the last tick read it
  overflowed         \* (ghost) an add found no free slot since all keys were up

report  == [modifier |-> modifier, keycode |-> slots]
matrix  == <<down, edges, phase>>
live    == <<modifier, slots, consumer, out>>
tables  == <<pressed_keys, active_layer_keys, current_layer>>
altvars == <<alt_held, alt_idle_ticks>>
ledvars == <<led_index, led_pwm, led_report>>
vars    == <<matrix, live, tables, altvars, ledvars, overflowed>>

NoKeys == [i \in 1..SLOTS |-> NoKey]

BothAt(index) == [A |-> led_table[index], B |-> led_table[index]]

Init ==
  /\ down = {} /\ edges = {} /\ phase = "scan"
  /\ modifier = {} /\ slots = NoKeys /\ consumer = NoUsage
  /\ pressed_keys = <<>> /\ active_layer_keys = <<>> /\ current_layer = 0
  /\ alt_held = FALSE /\ alt_idle_ticks = 0
  /\ out = <<[modifier |-> {}, keycode |-> NoKeys]>>
  /\ led_index = LED_INDEX_DEFAULT
  /\ led_pwm = BothAt(LED_INDEX_DEFAULT) /\ led_report = {}
  /\ overflowed = FALSE

------------------------------------------------------------------------------
(* Report operations, as functions of a report r. *)

SetMod(r, bits)   == [r EXCEPT !.modifier = @ \cup bits]
ClearMod(r, bits) == [r EXCEPT !.modifier = @ \ bits]

SlotsWith(r, k) == {i \in 1..SLOTS : r.keycode[i] = k}

(* kbd_add_key and kbd_remove_key act on the first slot that matches, or on
   none. *)
ReplaceFirst(r, old, new) ==
  IF SlotsWith(r, old) = {} THEN r
  ELSE [r EXCEPT !.keycode[Min(SlotsWith(r, old))] = new]

(* Mutant: a release clears every slot with the usage. *)
RemoveEverySlot(r, k) ==
  [r EXCEPT !.keycode = [i \in 1..SLOTS |-> IF @[i] = k THEN NoKey ELSE @[i]]]

AddKey(r, k)    == ReplaceFirst(r, NoKey, k)
RemoveKey(r, k) == ReplaceFirst(r, k, NoKey)

RoomFor(r) == SlotsWith(r, NoKey) # {}

(* The reports are staged in order and the last one is the live report. *)
Stage(reports) ==
  /\ out' = reports
  /\ modifier' = reports[Len(reports)].modifier
  /\ slots' = reports[Len(reports)].keycode

(* Mutant: the chord's key is never removed. *)
ChordLeavesKey(r, bits, k) ==
  LET pressed == AddKey(SetMod(r, bits), k) IN <<pressed, ClearMod(pressed, bits)>>

(* send_mod_key: chord down, chord up. *)
Chord(r, bits, k) ==
  LET pressed == AddKey(SetMod(r, bits), k)
  IN  <<pressed, RemoveKey(ClearMod(pressed, bits), k)>>

(* keymap_key_to_keycode: fall through transparent cells, layer by layer. *)
keymap_key_to_keycode(layer, p) ==
  LET opaque == {l \in 0..layer : keymaps[l][p] # TransCode}
  IN  IF opaque = {} THEN NoCode ELSE keymaps[Max(opaque)][p]

(* Mutant: shrink the table without moving its last entry. *)
DropLast(s, i) == SubSeq(s, 1, Len(s) - 1)

(* Both tables delete by moving their last entry into the gap. *)
SwapRemove(s, i) ==
  [j \in 1..(Len(s) - 1) |-> IF j = i THEN s[Len(s)] ELSE s[j]]

Entries(s, p) == {i \in DOMAIN s : s[i].pos = p}

(* Mutant: the newest layer key wins. *)
NewestLayer(keys) == IF keys = <<>> THEN 0 ELSE keys[Len(keys)].target

(* layer_update: the highest target held, or the base layer. *)
HighestLayer(keys) == Max({keys[i].target : i \in DOMAIN keys} \cup {0})

------------------------------------------------------------------------------
(* matrix_scan(), and the edges it leaves for the dispatch loop. *)
Scan(d) ==
  /\ phase = "scan"
  /\ down' = d
  /\ edges' = (down \ d) \cup (d \ down)
  /\ phase' = "dispatch"
  /\ UNCHANGED <<live, tables, altvars, ledvars, overflowed>>

(* The dispatch loop visits positions in row-major order. *)
NextEdge(p) ==
  /\ phase = "dispatch"
  /\ edges # {} /\ p = Min(edges)
  /\ edges' = edges \ {p}
  /\ UNCHANGED down

(* Mutant: the press is not recorded. *)
ForgetPress(p, code) == UNCHANGED pressed_keys

track_pressed_key(p, code) ==
  pressed_keys' = Append(pressed_keys, [pos |-> p, keycode |-> code])

PressLayer(p, code) ==
  /\ code.kind = "layer"
  /\ IF Len(active_layer_keys) < MAX_LAYER_KEYS
     THEN LET keys == Append(active_layer_keys, [pos |-> p, target |-> code.target])
          IN  active_layer_keys' = keys /\ current_layer' = HighestLayer(keys)
     ELSE UNCHANGED <<active_layer_keys, current_layer>>
  /\ UNCHANGED <<phase, pressed_keys, live, altvars, ledvars, overflowed>>

(* led_step: move the brightness one notch and write it to both LEDs. *)
PressLed(code) ==
  /\ code.kind = "led"
  /\ led_index' = IF code.up
                  THEN IF led_index < LED_TABLE_SIZE - 1 THEN led_index + 1 ELSE led_index
                  ELSE IF led_index > 0 THEN led_index - 1 ELSE led_index
  /\ led_pwm' = BothAt(led_index')
  /\ UNCHANGED <<phase, tables, live, altvars, led_report, overflowed>>

(* SYS_RST and SYS_BOOT set the boot mark and spin until the chip resets. *)
PressSys(code) ==
  /\ code.kind = "sys"
  /\ phase' = code.reset
  /\ UNCHANGED <<tables, live, altvars, ledvars, overflowed>>

PressMacro(code) ==
  /\ code.kind = "macro"
  /\ Stage(Chord(report, {code.mod}, code.key))
  /\ overflowed' = (overflowed \/ ~RoomFor(report))
  /\ UNCHANGED <<phase, consumer, tables, altvars, ledvars>>

PressConsumer(p, code) ==
  /\ code.kind = "consumer"
  /\ consumer' = code.usage
  /\ track_pressed_key(p, code)
  /\ UNCHANGED <<phase, modifier, slots, out, active_layer_keys, current_layer,
                 altvars, ledvars, overflowed>>

PressBasic(p, code) ==
  /\ code.kind \in {"key", "mod"}
  /\ Stage(<<IF code.kind = "mod" THEN SetMod(report, {code.mod})
                                  ELSE AddKey(report, code.key)>>)
  /\ overflowed' = (overflowed \/ (code.kind = "key" /\ ~RoomFor(report)))
  /\ track_pressed_key(p, code)
  /\ UNCHANGED <<phase, consumer, active_layer_keys, current_layer, altvars, ledvars>>

process_key_press(p) ==
  /\ NextEdge(p) /\ p \in down
  /\ LET code == keymap_key_to_keycode(current_layer, p) IN
       \/ PressLayer(p, code)
       \/ PressLed(code)
       \/ PressSys(code)
       \/ PressMacro(code)
       \/ PressConsumer(p, code)
       \/ PressBasic(p, code)
       \/ /\ code = NoCode
          /\ UNCHANGED <<phase, live, tables, altvars, ledvars, overflowed>>

(* A position without a pressed-key entry may be a layer key; if not, nothing. *)
ReleaseUntracked(p) ==
  /\ Entries(pressed_keys, p) = {}
  /\ IF Entries(active_layer_keys, p) = {}
     THEN UNCHANGED <<active_layer_keys, current_layer>>
     ELSE LET keys == SwapRemove(active_layer_keys, Min(Entries(active_layer_keys, p)))
          IN  active_layer_keys' = keys /\ current_layer' = HighestLayer(keys)
  /\ UNCHANGED <<live, pressed_keys, overflowed>>

ReleaseTracked(p) ==
  /\ Entries(pressed_keys, p) # {}
  /\ LET i == Min(Entries(pressed_keys, p))
         code == pressed_keys[i].keycode
     IN  /\ pressed_keys' = SwapRemove(pressed_keys, i)
         /\ \/ /\ code.kind = "consumer"
               /\ consumer' = NoUsage
               /\ UNCHANGED <<modifier, slots, out>>
            \/ /\ code.kind \in {"key", "mod"}
               /\ Stage(<<IF code.kind = "mod" THEN ClearMod(report, {code.mod})
                                               ELSE RemoveKey(report, code.key)>>)
               /\ UNCHANGED consumer
  /\ overflowed' = (overflowed /\ pressed_keys' # <<>>)
  /\ UNCHANGED <<active_layer_keys, current_layer>>

process_key_release(p) ==
  /\ NextEdge(p) /\ p \notin down
  /\ ReleaseUntracked(p) \/ ReleaseTracked(p)
  /\ UNCHANGED <<phase, altvars, ledvars>>

------------------------------------------------------------------------------
(* Mutant: every encoder scan restarts the timeout. *)
QuietRestartsTimeout ==
  /\ phase = "dispatch" /\ edges = {}
  /\ phase' = "alt"
  /\ alt_idle_ticks' = 0
  /\ UNCHANGED <<down, edges, live, tables, alt_held, ledvars, overflowed>>

(* encoder_scan() with no completed detent. *)
EncoderQuiet ==
  /\ phase = "dispatch" /\ edges = {}
  /\ phase' = "alt"
  /\ UNCHANGED <<down, edges, live, tables, altvars, ledvars, overflowed>>

(* Mutant: counter-clockwise leaves Shift set. *)
AltTabLeavesShift(r, dir) ==
  LET base   == SetMod(r, {MOD_LALT})
      tapped == AddKey(SetMod(base, {MOD_LSFT}), KC_TAB)
  IN  IF dir = "CW" THEN Chord(base, {}, KC_TAB) ELSE <<tapped, RemoveKey(tapped, KC_TAB)>>

(* encoder_step: latch Alt, then tap Tab, with Shift around it for CCW. *)
AltTab(r, dir) ==
  LET alt    == SetMod(r, {MOD_LALT})
      base   == IF alt_held THEN r ELSE alt
      shift  == SetMod(base, {MOD_LSFT})
      tapped == AddKey(shift, KC_TAB)
  IN  (IF alt_held THEN <<>> ELSE <<alt>>) \o
      (IF dir = "CW"
       THEN Chord(base, {}, KC_TAB)
       ELSE <<shift, tapped, ClearMod(RemoveKey(tapped, KC_TAB), {MOD_LSFT})>>)

encoder_step(dir) ==
  /\ phase = "dispatch" /\ edges = {}
  /\ phase' = "alt"
  /\ Stage(AltTab(report, dir))
  /\ alt_held' = TRUE
  /\ alt_idle_ticks' = 0
  /\ overflowed' = (overflowed \/ ~RoomFor(report))
  /\ UNCHANGED <<down, edges, consumer, tables, ledvars>>

(* Mutant: one tick too late. *)
ExpiresLate == alt_idle_ticks + 1 > ALT_RELEASE_TIMEOUT

AltExpired == alt_idle_ticks + 1 >= ALT_RELEASE_TIMEOUT

(* encoder_alt_timeout_tick: release Alt once the encoder has been idle. *)
encoder_alt_timeout_tick ==
  /\ phase = "alt"
  /\ phase' = "led"
  /\ IF ~alt_held THEN UNCHANGED <<altvars, modifier, slots, out>>
     ELSE IF AltExpired
     THEN /\ Stage(<<ClearMod(report, {MOD_LALT})>>)
          /\ alt_held' = FALSE
          /\ alt_idle_ticks' = 0
     ELSE /\ alt_idle_ticks' = alt_idle_ticks + 1
          /\ UNCHANGED <<alt_held, modifier, slots, out>>
  /\ UNCHANGED <<down, edges, consumer, tables, ledvars, overflowed>>

(* led_update_layer, then led_apply_host_report: a lit lock is full on. *)
LevelsWith(boosted, layer, index, locks) ==
  [A |-> IF "A" \in locks THEN LED_BRIGHTNESS_MAX
         ELSE led_table[IF layer >= 1 THEN boosted ELSE index],
   B |-> IF "B" \in locks THEN LED_BRIGHTNESS_MAX
         ELSE led_table[IF layer >= 2 THEN boosted ELSE index]]

(* Mutant: past the brightest notch the boosted index starts again from 0. *)
LedLevelsWrap(layer, index, locks) ==
  LevelsWith((index + LED_DELTA_STEPS) % LED_TABLE_SIZE, layer, index, locks)

LedLevels(layer, index, locks) ==
  LevelsWith(IF index + LED_DELTA_STEPS < LED_TABLE_SIZE
             THEN index + LED_DELTA_STEPS ELSE LED_TABLE_SIZE - 1, layer, index, locks)

LedUpdate(locks) ==
  /\ phase = "led"
  /\ phase' = "scan"
  /\ led_report' = locks
  /\ led_pwm' = LedLevels(current_layer, led_index, locks)
  /\ UNCHANGED <<down, edges, live, tables, altvars, led_index, overflowed>>

(* The awaited reset restarts the firmware: keyboard_init() and a matrix
   that has seen no key. *)
Restart ==
  /\ phase \in {"SYS_RST", "SYS_BOOT"}
  /\ down' = {} /\ edges' = {} /\ phase' = "scan"
  /\ modifier' = {} /\ slots' = NoKeys /\ consumer' = NoUsage
  /\ pressed_keys' = <<>> /\ active_layer_keys' = <<>> /\ current_layer' = 0
  /\ alt_held' = FALSE /\ alt_idle_ticks' = 0
  /\ out' = <<[modifier |-> {}, keycode |-> NoKeys]>>
  /\ led_index' = LED_INDEX_DEFAULT
  /\ led_pwm' = BothAt(LED_INDEX_DEFAULT) /\ led_report' = {}
  /\ overflowed' = FALSE

Tick ==
  \/ \E d \in SUBSET Position : Scan(d)
  \/ \E p \in Position : process_key_press(p) \/ process_key_release(p)
  \/ EncoderQuiet
  \/ encoder_alt_timeout_tick
  \/ \E locks \in LockReport : LedUpdate(locks)

Next == Tick \/ (\E dir \in {"CW", "CCW"} : encoder_step(dir)) \/ Restart

Spec == Init /\ [][Next]_vars

------------------------------------------------------------------------------
Report == [modifier: SUBSET Mod, keycode: [1..SLOTS -> Key \cup {NoKey}]]

(* Types; the two tables hold only codes that are tracked and layer targets. *)
TypeOK ==
  /\ down \subseteq Position /\ edges \subseteq Position
  /\ phase \in {"scan", "dispatch", "alt", "led", "SYS_RST", "SYS_BOOT"}
  /\ report \in Report
  /\ consumer \in Usage \cup {NoUsage}
  /\ pressed_keys \in Seq([pos: Position, keycode: Keycode])
  /\ active_layer_keys \in Seq([pos: Position, target: Layer])
  /\ Len(pressed_keys) <= Cardinality(Position)
  /\ Len(active_layer_keys) <= MAX_LAYER_KEYS
  /\ current_layer \in Layer
  /\ alt_held \in BOOLEAN
  /\ alt_idle_ticks \in 0..(ALT_RELEASE_TIMEOUT - 1)
  /\ out \in Seq(Report) /\ out # <<>>
  /\ led_index \in 0..(LED_TABLE_SIZE - 1)
  /\ led_pwm \in [{"A", "B"} -> 0..LED_BRIGHTNESS_MAX] /\ led_report \subseteq {"A", "B"}
  /\ overflowed \in BOOLEAN

Tracked(code) == {i \in DOMAIN pressed_keys : pressed_keys[i].keycode = code}

PressPositions == {pressed_keys[i].pos : i \in DOMAIN pressed_keys}
LayerPositions == {active_layer_keys[i].pos : i \in DOMAIN active_layer_keys}

(* Each table has one entry per position, no position is in both, and apart
   from releases not yet dispatched an entry's position is down: neither
   table outgrows the held keys (keyboard.c, track_pressed_key; layer.c). *)
TablesMatchMatrix ==
  /\ Cardinality(PressPositions) = Len(pressed_keys)
  /\ Cardinality(LayerPositions) = Len(active_layer_keys)
  /\ PressPositions \cap LayerPositions = {}
  /\ PressPositions \cup LayerPositions \subseteq (down \ edges) \cup (edges \ down)

(* No stuck key: a usage is in the report at most once for each position that
   was pressed as it and not released, whatever macros and encoder steps
   tapped meanwhile (kbd_add_key, kbd_remove_key). *)
NoStuckKey ==
  \A k \in Key : Cardinality(SlotsWith(report, k)) <= Cardinality(Tracked(KeyCode(k)))

(* Until a seventh key is added, the report has exactly the held keys, once
   for each position: a tap gives back the slot it took. *)
ReportIsExact ==
  ~overflowed =>
    \A k \in Key : Cardinality(SlotsWith(report, k)) = Cardinality(Tracked(KeyCode(k)))

(* No stuck modifier: a modifier bit is owned by a held modifier key or by a
   latched Alt-Tab gesture. *)
NoStuckModifier ==
  \A m \in modifier : Tracked(ModCode(m)) # {} \/ (m = MOD_LALT /\ alt_held)

(* A held layer key is in force, and when all are released so is the base
   layer ("the highest priority one", layer.c:24). *)
LayerFollowsKeys ==
  /\ \A i \in DOMAIN active_layer_keys : active_layer_keys[i].target <= current_layer
  /\ current_layer # 0 => \E i \in DOMAIN active_layer_keys :
                             active_layer_keys[i].target = current_layer

(* Between ticks with nothing pressed, nothing is left behind: no key, no
   consumer usage, no layer, no modifier but the gesture's Alt, and the last
   report staged says so. *)
QuietWhenReleased ==
  (phase = "scan" /\ down = {}) =>
    /\ slots = NoKeys /\ consumer = NoUsage
    /\ pressed_keys = <<>> /\ active_layer_keys = <<>> /\ current_layer = 0
    /\ modifier \subseteq (IF alt_held THEN {MOD_LALT} ELSE {})
    /\ out[Len(out)] = report

LayerHeldFrom(l) ==
  \E i \in DOMAIN active_layer_keys : active_layer_keys[i].target >= l

(* Between ticks the LEDs tell which layer keys are held, at every brightness
   and after any brightness key: unless a lock lights it, LED A is brighter
   than the brightness chosen exactly while a key of layer 1 or above is held,
   and LED B while one of layer 2 or above is; only at full brightness is there
   nothing to add.  No LED is ever below the brightness chosen (led.c:69-91,
   108-114). *)
LedsTellLayer ==
  phase = "scan" =>
    LET chosen == led_table[led_index]
        Tells(x, l) ==
          IF x \in led_report THEN led_pwm[x] = LED_BRIGHTNESS_MAX
          ELSE /\ led_pwm[x] >= chosen
               /\ led_pwm[x] > chosen <=> LayerHeldFrom(l) /\ chosen < LED_BRIGHTNESS_MAX
    IN  Tells("A", 1) /\ Tells("B", 2)

Fairness == WF_vars(Tick) /\ WF_vars(Restart)

FairSpec == Spec /\ Fairness

(* Once the encoder is left alone, the gesture's Alt is released for good
   (encoder_alt_timeout_tick). *)
AltIsReleased ==
  (<>[][\A dir \in {"CW", "CCW"} : ~encoder_step(dir)]_vars) => <>[](~alt_held)

(* The report "represents the full current keyboard state" (keyboard.c:16):
   a held modifier key is in it. *)
HeldModifierIsReported ==
  \A m \in Mod : Tracked(ModCode(m)) # {} => m \in modifier

==============================================================================
