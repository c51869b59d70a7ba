SPECIFICATION Spec
CONSTANTS
  Position = {16, 37, 44}
  NUM_LAYERS = 3
  keymaps <- MCkeymaps
  Key <- MCKey
  Mod <- MCMod
  Usage <- MCUsage
  Q = Q
  C = C
  Tab = Tab
  Esc = Esc
  One = One
  F1 = F1
  R = R
  T = T
  P0 = P0
  Zero = Zero
  F10 = F10
  LCTL = LCTL
  RCTL = RCTL
  LALT = LALT
  LSFT = LSFT
  VOLU = VOLU
  VOLD = VOLD
  NoKey = NoKey
  NoUsage = NoUsage
  KC_TAB = Tab
  MOD_LALT = LALT
  MOD_LSFT = LSFT
  SLOTS = 6
  MAX_LAYER_KEYS = 4
  ALT_RELEASE_TIMEOUT = 2
  LED_TABLE_SIZE = 1
  LED_INDEX_DEFAULT = 0
  LED_DELTA_STEPS = 1
  LED_BRIGHTNESS_MAX = 255
  led_table <- OneNotch
  LockReport <- NoLocks
INVARIANT HeldModifierIsReported
