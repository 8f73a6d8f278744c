-------------------------------- MODULE Keyboard --------------------------------
(***************************************************************************)
(* The keyboard driver, src/keyboard/keyboard.c: teclado_ler, polled by the *)
(* terminal, turns the bytes of a PS/2 keyboard (scancode set 1) into       *)
(* characters.  The keyboard runs ahead of it: keys go down, repeat and go  *)
(* up while their bytes wait in the controller, so every byte is decoded    *)
(* with flags that must be those of the moment its key was touched.         *)
(*                                                                         *)
(* A byte is [code, up]; a key is known by its code and whether the         *)
(* keyboard puts E0 in front of it.  A character is [base, upper, accent];  *)
(* the letters and marks that behave alike are one.                         *)
(***************************************************************************)
EXTENDS Integers, Sequences, FiniteSets, SequencesExt

CONSTANTS Keys,          \* the keys the user touches
          MaxDown,       \* bound: keys held at once
          MaxQueue       \* bound: bytes waiting when a key is touched

Plain(code) == [e0 |-> FALSE, code |-> code]
Extended(code) == [e0 |-> TRUE, code |-> code]

\* The layout.  The keys of a pair with one code differ in the prefix: CTRL,
\* ENTER, the slash of the keypad and the semicolon, an arrow and a digit of
\* the keypad (which has no character).
Layout ==
    [ShiftL |-> Plain("SHIFT_L"), ShiftR |-> Plain("SHIFT_R"),
     CtrlL |-> Plain("CTRL"), CtrlR |-> Extended("CTRL"),
     CapsLock |-> Plain("CAPSLOCK"),
     Acute |-> Plain("AGUDO_CRASE"), Tilde |-> Plain("TIL_CIRCUNFLEXO"),
     Space |-> Plain("SPACE"), Backspace |-> Plain("BACKSPACE"),
     Enter |-> Plain("ENTER"), KpEnter |-> Extended("ENTER"),
     Semicolon |-> Plain("SEMICOLON"), KpSlash |-> Extended("SEMICOLON"),
     Kp8 |-> Plain("KP8"), Up |-> Extended("KP8"),
     A |-> Plain("A"), L |-> Plain("L")]

Shifts == {"ShiftL", "ShiftR"}
Ctrls == {"CtrlL", "CtrlR"}

ASSUME KeysAssumption ==
    /\ Keys \subseteq DOMAIN Layout
    /\ MaxDown \in Nat /\ MaxQueue \in Nat

VARIABLES down,          \* the keys held, most recent first
          queue,         \* bytes in the keyboard and the controller
          shift_pressionado, capslock_ativo, capslock_pressionado,
          ctrl_pressionado, e0_prefix, acento_pendente,
          tecla,         \* what teclado_ler returned last
          typing,        \* ghost: capslock and accent as the user sees them
          expected,      \* ghost: what the user expects and has not got yet
          overlapped     \* ghost: both keys of a modifier were held together

flags == <<shift_pressionado, capslock_ativo, capslock_pressionado,
           ctrl_pressionado, e0_prefix, acento_pendente>>
user == <<down, typing, overlapped>>
vars == <<down, queue, flags, tecla, typing, expected, overlapped>>

NENHUM == "none"
Held(S) == \E k \in 1 .. Len(down) : down[k] \in S

-----------------------------------------------------------------------------
(* Characters                                                               *)

Char(base, upper, accent) == [base |-> base, upper |-> upper, accent |-> accent]
TECLA_NENHUMA == Char("none", FALSE, NENHUM)
Command(name) == Char(name, FALSE, NENHUM)     \* negative codes, and '\n', '/'

\* The dead key a code is, with shift or without.
Accent(code, shift) ==
    CASE code = "AGUDO_CRASE" -> IF shift THEN "grave" ELSE "acute"
      [] code = "TIL_CIRCUNFLEXO" -> IF shift THEN "circumflex" ELSE "tilde"
      [] OTHER -> NENHUM

\* kbd_ABNT2 and kbd_ABNT2_shift with aplica_case: capslock acts on letters.
Cased(code, shift, caps) ==
    CASE code \in {"A", "L"} -> Char(code, shift # caps, NENHUM)
      [] code \in {"SEMICOLON"} -> Char(code, shift, NENHUM)
      [] code \in {"SPACE", "BACKSPACE", "ENTER"} -> Char(code, FALSE, NENHUM)
      [] OTHER -> TECLA_NENHUMA

\* combina_acento: of the letters here, only "a" takes accents, all four.
Combined(c, accent) == IF c.base = "A" THEN [c EXCEPT !.accent = accent] ELSE c

\* What a key of the main block gives while CTRL is up, and the accent that
\* stays pending: a dead key waits, and repeated or followed by a space stands
\* for itself; backspace only takes it back.
KeyChar(code, shift, caps, pending) ==
    LET accent == Accent(code, shift)
    IN  CASE accent # NENHUM ->
               IF pending = accent THEN Char("mark", FALSE, accent) ELSE TECLA_NENHUMA
          [] accent = NENHUM /\ pending # NENHUM /\ code = "SPACE" ->
               Char("mark", FALSE, pending)
          [] accent = NENHUM /\ pending # NENHUM /\ code = "BACKSPACE" -> TECLA_NENHUMA
          [] OTHER -> Combined(Cased(code, shift, caps), pending)

KeyAccent(code, shift, pending) ==
    LET accent == Accent(code, shift)
    IN  IF pending = accent THEN NENHUM ELSE accent

\* Keys with the prefix.
ExtendedKey(code) ==
    CASE code = "KP8" -> Command("TECLA_SETA_CIMA")
      [] code = "ENTER" -> Char("ENTER", FALSE, NENHUM)
      [] code = "SEMICOLON" -> Command("/")
      [] OTHER -> TECLA_NENHUMA

\* With CTRL held.
CtrlKey(code) == IF code = "L" THEN Command("TECLA_CTRL_L") ELSE TECLA_NENHUMA

-----------------------------------------------------------------------------
(* The keyboard and its user                                                *)

E0 == [code |-> "E0", up |-> FALSE]

\* The bytes of a key going down or up.  While a shift is held the keyboard
\* wraps the arrows in a false release and press of it.
Bytes(k, up) ==
    LET key == Layout[k]
        bytes == IF key.e0 THEN <<E0, [code |-> key.code, up |-> up]>>
                 ELSE <<[code |-> key.code, up |-> up]>>
        fake == <<E0, [code |-> "SHIFT_L", up |-> ~up]>>
    IN  IF key.e0 /\ key.code = "KP8" /\ Held(Shifts)
        THEN IF up THEN bytes \o fake ELSE fake \o bytes
        ELSE bytes

\* What the user expects of touching a key: the flags are the keys held.
Wanted(k) ==
    LET key == Layout[k]
    IN  CASE key.e0 -> ExtendedKey(key.code)
          [] ~key.e0 /\ k \in Shifts \cup Ctrls \cup {"CapsLock"} -> TECLA_NENHUMA
          [] ~key.e0 /\ k \notin Shifts \cup Ctrls \cup {"CapsLock"} /\ Held(Ctrls) ->
                CtrlKey(key.code)
          [] OTHER -> KeyChar(key.code, Held(Shifts), typing.caps, typing.accent)

WantedAccent(k) ==
    IF Layout[k].e0 \/ k \in Shifts \cup Ctrls \cup {"CapsLock"} \/ Held(Ctrls)
    THEN typing.accent
    ELSE KeyAccent(Layout[k].code, Held(Shifts), typing.accent)

Overlaps(k) ==
    \/ k \in Shifts /\ Held(Shifts \ {k})
    \/ k \in Ctrls /\ Held(Ctrls \ {k})

\* The make code is sent; what the user sees is followed until an overlap.
Expect(k) ==
    /\ queue' = queue \o Bytes(k, FALSE)
    /\ overlapped' = (overlapped \/ Overlaps(k))
    /\ expected' = IF overlapped' THEN <<>>
                   ELSE IF Wanted(k) = TECLA_NENHUMA THEN expected
                   ELSE Append(expected, Wanted(k))

Press(k) ==
    /\ ~Held({k}) /\ Len(down) < MaxDown /\ Len(queue) <= MaxQueue
    /\ down' = <<k>> \o down
    /\ Expect(k)
    /\ typing' = [caps |-> IF k = "CapsLock" THEN ~typing.caps ELSE typing.caps,
                  accent |-> IF overlapped' THEN NENHUM ELSE WantedAccent(k)]
    /\ UNCHANGED <<flags, tecla>>

\* The key pressed last repeats while it is held; a held CAPS LOCK is one press.
Repeat ==
    /\ down # <<>> /\ Len(queue) <= MaxQueue
    /\ Expect(Head(down))
    /\ typing' = [typing EXCEPT !.accent = IF overlapped' THEN NENHUM
                                           ELSE WantedAccent(Head(down))]
    /\ UNCHANGED <<down, flags, tecla>>

Release(k) ==
    /\ Len(queue) <= MaxQueue
    /\ \E i \in 1 .. Len(down) : down[i] = k /\ down' = RemoveAt(down, i)
    /\ queue' = queue \o Bytes(k, TRUE)
    /\ UNCHANGED <<typing, expected, overlapped, flags, tecla>>

-----------------------------------------------------------------------------
(* teclado_ler                                                              *)

sc == Head(queue)

\* A byte is read and a value returned to the terminal.
Take(value) ==
    /\ queue # <<>>
    /\ queue' = Tail(queue)
    /\ tecla' = value
    /\ expected' = IF value = TECLA_NENHUMA \/ expected = <<>> THEN expected
                   ELSE Tail(expected)
    /\ UNCHANGED user

ReadPrefix ==
    /\ queue # <<>> /\ sc = E0
    /\ e0_prefix' = TRUE
    /\ Take(TECLA_NENHUMA)
    /\ UNCHANGED <<shift_pressionado, capslock_ativo, capslock_pressionado,
                   ctrl_pressionado, acento_pendente>>

\* Mutant of ReadExtended: every release with the prefix is ignored.
ReadExtended_NoRelease ==
    /\ queue # <<>> /\ sc # E0 /\ e0_prefix
    /\ e0_prefix' = FALSE
    /\ ctrl_pressionado' = (ctrl_pressionado \/ (sc.code = "CTRL" /\ ~sc.up))
    /\ Take(IF sc.up THEN TECLA_NENHUMA ELSE ExtendedKey(sc.code))
    /\ UNCHANGED <<shift_pressionado, capslock_ativo, capslock_pressionado,
                   acento_pendente>>

\* The byte after the prefix: right CTRL, the keys that have a value, and the
\* false shifts, which are ignored.
ReadExtended ==
    /\ queue # <<>> /\ sc # E0 /\ e0_prefix
    /\ e0_prefix' = FALSE
    /\ ctrl_pressionado' = IF sc.code = "CTRL" THEN ~sc.up ELSE ctrl_pressionado
    /\ Take(IF sc.up THEN TECLA_NENHUMA ELSE ExtendedKey(sc.code))
    /\ UNCHANGED <<shift_pressionado, capslock_ativo, capslock_pressionado,
                   acento_pendente>>

Modifiers == {"SHIFT_L", "SHIFT_R", "CTRL", "CAPSLOCK"}
PlainByte == queue # <<>> /\ sc # E0 /\ ~e0_prefix

\* Mutant of ReadModifier: CAPS LOCK toggles on every make code.
ReadModifier_CapsRepeats ==
    /\ PlainByte /\ sc.code \in Modifiers
    /\ shift_pressionado' = IF sc.code \in {"SHIFT_L", "SHIFT_R"} THEN ~sc.up
                            ELSE shift_pressionado
    /\ ctrl_pressionado' = IF sc.code = "CTRL" THEN ~sc.up ELSE ctrl_pressionado
    /\ capslock_pressionado' = IF sc.code = "CAPSLOCK" THEN ~sc.up
                               ELSE capslock_pressionado
    /\ capslock_ativo' = IF sc.code = "CAPSLOCK" /\ ~sc.up
                         THEN ~capslock_ativo ELSE capslock_ativo
    /\ Take(TECLA_NENHUMA)
    /\ UNCHANGED <<e0_prefix, acento_pendente>>

\* Either shift, left CTRL, or CAPS LOCK, which toggles once per press.
ReadModifier ==
    /\ PlainByte /\ sc.code \in Modifiers
    /\ shift_pressionado' = IF sc.code \in {"SHIFT_L", "SHIFT_R"} THEN ~sc.up
                            ELSE shift_pressionado
    /\ ctrl_pressionado' = IF sc.code = "CTRL" THEN ~sc.up ELSE ctrl_pressionado
    /\ capslock_pressionado' = IF sc.code = "CAPSLOCK" THEN ~sc.up
                               ELSE capslock_pressionado
    /\ capslock_ativo' = IF sc.code = "CAPSLOCK" /\ ~sc.up /\ ~capslock_pressionado
                         THEN ~capslock_ativo ELSE capslock_ativo
    /\ Take(TECLA_NENHUMA)
    /\ UNCHANGED <<e0_prefix, acento_pendente>>

\* Another key: its release is ignored; with CTRL it is a command or nothing.
ReadOther ==
    /\ PlainByte /\ sc.code \notin Modifiers
    /\ sc.up \/ ctrl_pressionado
    /\ Take(IF sc.up THEN TECLA_NENHUMA ELSE CtrlKey(sc.code))
    /\ UNCHANGED flags

ReadChar ==
    /\ PlainByte /\ sc.code \notin Modifiers
    /\ ~sc.up /\ ~ctrl_pressionado
    /\ Take(KeyChar(sc.code, shift_pressionado, capslock_ativo, acento_pendente))
    /\ acento_pendente' = KeyAccent(sc.code, shift_pressionado, acento_pendente)
    /\ UNCHANGED <<shift_pressionado, capslock_ativo, capslock_pressionado,
                   ctrl_pressionado, e0_prefix>>

TecladoLer == ReadPrefix \/ ReadExtended \/ ReadModifier \/ ReadOther \/ ReadChar

Init ==
    /\ down = <<>> /\ queue = <<>>
    /\ shift_pressionado = FALSE /\ capslock_ativo = FALSE
    /\ capslock_pressionado = FALSE /\ ctrl_pressionado = FALSE
    /\ e0_prefix = FALSE /\ acento_pendente = NENHUM
    /\ tecla = TECLA_NENHUMA
    /\ typing = [caps |-> FALSE, accent |-> NENHUM]
    /\ expected = <<>> /\ overlapped = FALSE

Next ==
    \/ \E k \in Keys : Press(k) \/ Release(k)
    \/ Repeat
    \/ TecladoLer

Spec == Init /\ [][Next]_vars

-----------------------------------------------------------------------------
(* Properties                                                               *)

TypeOK ==
    /\ down \in Seq(Keys) /\ Cardinality({down[k] : k \in DOMAIN down}) = Len(down)
    /\ {shift_pressionado, capslock_ativo, capslock_pressionado, ctrl_pressionado,
        e0_prefix} \subseteq BOOLEAN
    /\ acento_pendente \in {NENHUM, "acute", "grave", "tilde", "circumflex"}
    /\ e0_prefix => queue # <<>>

Drained == queue = <<>>

\* No modifier sticks: when every byte has been read and no shift (CTRL) key is
\* held, the flag is off, whichever keys were pressed, repeated and released in
\* whatever order, with prefixes and false shifts between them; CAPS LOCK is as
\* many presses made it, and while no two keys of one modifier were held
\* together the pending accent is the one the user left.
NoStuckModifier ==
    Drained =>
        /\ ~Held(Shifts) => ~shift_pressionado
        /\ ~Held(Ctrls) => ~ctrl_pressionado
        /\ capslock_pressionado = Held({"CapsLock"})
        /\ capslock_ativo = typing.caps
        /\ ~overlapped => acento_pendente = typing.accent

\* "Returns the character of the scancode, with shift and capslock already
\* taken into account" (keyboard.h): while no two keys of one modifier were
\* held together, every value teclado_ler returns is the next one the user
\* expects, computed from the keys held when the key was touched, and none is
\* missing once the bytes have been read.
TypedAsHeld ==
    [][~overlapped' =>
          /\ TecladoLer /\ tecla' # TECLA_NENHUMA =>
                expected # <<>> /\ tecla' = Head(expected)
          /\ queue' = <<>> => expected' = <<>>]_vars
=============================================================================
