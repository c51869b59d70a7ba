------------------------------- MODULE MCChords -------------------------------
(* The ring has its 8 slots and every call of the tables is tried first; the
   calls that follow, up to three in all, are one of each kind.  Two slots and
   a limit of five steps stand for six and 32: the slots fill up, one of the
   sequences of macro.c:112-126 ends and the other is cut off; a third leaves
   its key pressed. *)
EXTENDS Chords

Act(t, k) == [type |-> t, keycode |-> k]

PasteSpecial == <<Act("TAP", "LALT"), [type |-> "WAIT", ms |-> 0], Act("TAP", "E"), [type |-> "END"]>>

SelectRight == <<Act("DOWN", "LCTL"), Act("DOWN", "LSFT"), Act("TAP", "RGHT"),
                 Act("UP", "LSFT"), Act("UP", "LCTL"), [type |-> "END"]>>

LeftDown == <<Act("DOWN", "RGHT"), [type |-> "END"]>>

MCMacroSequence == {PasteSpecial, SelectRight, LeftDown}
MCKey ==
  {"A", "B", "C", "D", "E", "F", "G", "H", "I", "J", "K", "L", "M", "N", "O", "P", "Q", "R",
   "S", "T", "U", "V", "W", "X", "Y", "Z", "N0", "SCLN", "LBRC", "QUOT", "GRV", "EQL", "RBRC",
   "DOT", "RGHT", "LCTL", "LSFT", "LALT", "RALT"}

MCUserKey == {"E", "C"}
MCUserMod == {"LSFT"}

MCSample ==
  {UseMacro("MC_COPY"), UseSequence(PasteSpecial), UseCompose(Glyph("OE"))}
    \cup {UseCompose([accent |-> a, letter |-> "E", upper |-> FALSE]) :
             a \in {"acute", "macron"}}

===============================================================================
