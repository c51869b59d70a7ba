----------------------------- MODULE MCKeyboard -----------------------------
(* Cells of the shipped keymap (keymap.c:80-136), as <<base, function,
   system>> codes; a position is elec row * 9 + elec col.  Each run picks the
   cells it needs.  Two report slots stand for six and a timeout of two ticks
   for 600; two brightness notches stand for twenty-five. *)
EXTENDS Keyboard

CONSTANTS Q, C, Tab, Esc, One, F1, R, T, P0, Zero, F10,
          LCTL, RCTL, LALT, LSFT, VOLU, VOLD

MCKey   == {Q, C, Tab, Esc, One, F1, R, T, P0, Zero, F10}
MCMod   == {LCTL, RCTL, LALT, LSFT}
MCUsage == {VOLU, VOLD}

k00 == 8    k01 == 7    k10 == 17   k11 == 16   k14 == 13   k15 == 12
k33 == 32   k40 == 44   k42 == 42   k48 == 37   k49 == 36   k0B == 46
k4G == 87

Cell(p) ==
  CASE p = k00 -> <<KeyCode(Esc), TransCode, SysCode("SYS_BOOT")>>
    [] p = k01 -> <<KeyCode(One), KeyCode(F1), SysCode("SYS_RST")>>
    [] p = k10 -> <<KeyCode(Tab), TransCode, TransCode>>
    [] p = k11 -> <<KeyCode(Q), MacroCode(LCTL, C), TransCode>>
    [] p = k14 -> <<KeyCode(R), ConsumerCode(VOLU), LedCode(TRUE)>>
    [] p = k15 -> <<KeyCode(T), ConsumerCode(VOLD), LedCode(FALSE)>>
    [] p = k33 -> <<KeyCode(C), TransCode, TransCode>>
    [] p = k40 -> <<ModCode(LCTL), TransCode, TransCode>>
    [] p = k42 -> <<ModCode(LALT), TransCode, TransCode>>
    [] p = k48 -> <<LayerCode(1), TransCode, TransCode>>
    [] p = k49 -> <<ModCode(RCTL), LayerCode(2), TransCode>>
    [] p = k0B -> <<KeyCode(Zero), KeyCode(F10), TransCode>>
    [] p = k4G -> <<KeyCode(P0), TransCode, KeyCode(F10)>>

MCkeymaps == [l \in Layer |-> [p \in Position |-> Cell(p)[l + 1]]]

NoLocks == {{}}

(* After reset no lock is lit; then each LED is seen lit and not lit. *)
EitherLock == {{"A"}, {"B"}}

(* The default and the last notch of led_table; and the last alone. *)
TwoNotches == [i \in 0..1 |-> <<42, 255>>[i + 1]]
OneNotch == [i \in {0} |-> 255]

==============================================================================
