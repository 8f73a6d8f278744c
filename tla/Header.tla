--------------------------------- MODULE Header ---------------------------------
(***************************************************************************)
(* What kernel_main draws before its loop (src/kernel.c, with               *)
(* src/Render/render.c): a black screen, the logo, the four letters VGOS    *)
(* beside it, a line below both, and the first prompt, where the terminal   *)
(* begins.  All sizes but the frame's are fixed, and nothing compares them: *)
(* the stores are where the sizes put them.  Terminal goes on from there.   *)
(*                                                                         *)
(* `drawn' is the rectangle written last, `shapes' those of the header; a   *)
(* rectangle covers the unlit pixels of its bitmap too.  The letters are    *)
(* drawn row by row and the prompt character by character.                  *)
(***************************************************************************)
EXTENDS Terminal

CONSTANTS SCREEN_SPACE,  \* 2^32
          Frames         \* frames panic_configurar_video has accepted

PIXEL == 4               \* sizeof(uint32_t)

\* The tests of panic_configurar_video, and the screen each frame gives Terminal.
ASSUME FramesAssumption ==
    /\ SCREEN_SPACE \in Nat
    /\ \A f \in Frames :
          /\ f \in [fb : Nat, pitch : Nat, width : Nat, height : Nat]
          /\ f.width >= 48 /\ f.height >= 56
          /\ f.pitch % PIXEL = 0 /\ f.width <= f.pitch \div PIXEL
          /\ f.fb + f.pitch * f.height < SCREEN_SPACE

VARIABLES frame,
          drawing,       \* what kernel_main draws next
          done,          \* how many of its rows, or characters, are drawn
          drawn, shapes  \* ghosts

hvars == <<frame, drawing, done, drawn, shapes>>

Rect(x, y, w, h) == [left |-> x, top |-> y, right |-> x + w, bottom |-> y + h]

-----------------------------------------------------------------------------
(* Sizes and places                                                         *)

logo_width == 250
logo_height == 245
blk_w == 6
blk_h == 8
lcols == 12              \* of a letter, in blocks
lrows == 12
letters == 4
let_w == lcols * blk_w
let_h == lrows * blk_h
let_gap == 12
header_gap == 50
PROMPT_LEN == 13

\* Mutant of total_header_w: the space between logo and letters is forgotten.
total_header_w_NoGap == logo_width + (let_w * 4 + let_gap * 3)

total_header_w == logo_width + header_gap + (let_w * 4 + let_gap * 3)

\* Centered, but never closer to the left border than 20.
start_x ==
    LET x == (frame.width - total_header_w) \div 2
    IN  IF x < 20 THEN 20 ELSE x

logo_y == 20
art_x == start_x + logo_width + header_gap
art_y == logo_y + (logo_height - let_h) \div 2
sep_y == logo_y + logo_height + 15

\* Mutant of text_y: the terminal begins at the separator.
text_y_OnLine == sep_y

text_y == sep_y + 15

ScreenOf(f) == [width |-> f.width, height |-> f.height, terminal_y_inicial |-> text_y]
ASSUME ScreensAssumption == {ScreenOf(f) : f \in Frames} \subseteq Geometries

-----------------------------------------------------------------------------
\* A shape of the header is drawn, and what is drawn next.
Shape(r, next, n) ==
    /\ drawn' = r /\ shapes' = shapes \cup {r}
    /\ drawing' = next /\ done' = n
    /\ UNCHANGED <<frame, tvars>>

FundoPreto ==
    /\ drawing = "background"
    /\ drawn' = Rect(0, 0, frame.width, frame.height)
    /\ drawing' = "logo"
    /\ UNCHANGED <<frame, done, shapes, tvars>>

DesenharLogo ==
    /\ drawing = "logo"
    /\ Shape(Rect(start_x, logo_y, logo_width, logo_height), "letters", 0)

\* One row of blocks of one letter.
LetterRow ==
    /\ drawing = "letters"
    /\ LET li == done \div lrows
           r == done % lrows
           row == Rect(art_x + li * (let_w + let_gap), art_y + r * blk_h, let_w, blk_h)
       IN  IF done + 1 < letters * lrows
           THEN Shape(row, "letters", done + 1)
           ELSE Shape(row, "separator", 0)

\* From margin to margin; the screen is wider than both (TerminalAssumption).
Separator ==
    /\ drawing = "separator"
    /\ Shape(Rect(MARGEM_X, sep_y, frame.width - 2 * MARGEM_X, 1), "prompt", 0)

\* desenhar_string, one character; then the loop of the terminal.
PromptChar ==
    /\ drawing = "prompt"
    /\ drawn' = Rect(MARGEM_X + done * CHAR_X, text_y, CHAR_X, CHAR_Y)
    /\ done' = done + 1
    /\ drawing' = IF done + 1 < PROMPT_LEN THEN "prompt" ELSE "terminal"
    /\ UNCHANGED <<frame, shapes, tvars>>

HInit ==
    /\ frame \in Frames
    /\ drawing = "background" /\ done = 0
    /\ drawn = Rect(0, 0, 1, 1) /\ shapes = {}
    /\ TInit /\ screen = ScreenOf(frame)

HNext ==
    \/ FundoPreto \/ DesenharLogo \/ LetterRow \/ Separator \/ PromptChar
    \/ drawing = "terminal" /\ TNext /\ UNCHANGED hvars

HSpec == HInit /\ [][HNext]_<<hvars, tvars>>

-----------------------------------------------------------------------------
(* Properties                                                               *)

\* The frames with room for the border of 20, the logo, the letters and the first
\* row of the terminal; the modes of the boot menu are larger.
HoldsHeader == frame.width >= 644 /\ frame.height >= 319

\* The address one past the last byte the stores of a rectangle reach.
EndOf(r) == frame.fb + PIXEL * ((r.bottom - 1) * (frame.pitch \div PIXEL) + r.right)

\* Nothing tests the places computed for the logo, the letters, the separator and
\* the prompt: in every frame wide and high enough for the header they lie in the
\* frame, and no store leaves its memory or the address space.
HeaderInFrame ==
    HoldsHeader =>
        /\ drawn.right <= frame.width /\ drawn.bottom <= frame.height
        /\ EndOf(drawn) <= frame.fb + frame.pitch * frame.height
        /\ frame.fb + frame.pitch * frame.height < SCREEN_SPACE

Apart(s, t) == \/ s.right <= t.left \/ t.right <= s.left
               \/ s.bottom <= t.top \/ t.bottom <= s.top

CellRect(c) == Rect(c[1], c[2], CHAR_X, CHAR_Y)

\* No shape of the header covers another, nor does the prompt; and the terminal
\* never writes over the header: not the line, through wraps and prompts moved
\* by commands, nor CTRL+L, which clears from the terminal's first row on.
HeaderKept ==
    /\ \A s \in shapes : s = drawn \/ Apart(s, drawn)
    /\ \A s \in shapes :
          /\ s.bottom <= screen.terminal_y_inicial /\ s.bottom <= prompt_y
          /\ \A c \in CellsOf(term) \cup {<<term.x, term.y>>} : Apart(s, CellRect(c))
=============================================================================
