------------------------------ MODULE PanicScreen ------------------------------
(***************************************************************************)
(* The panic screen, src/src/arch/x86/panic.c: the validation of the frame  *)
(* buffer and the script of texts, separators and gaps kernel_panic draws   *)
(* before it stops the machine.  panic_texto is one step per character.     *)
(*                                                                         *)
(* A text is a sequence of "glyph" and "newline"; `drawn' is the rectangle  *)
(* the last step wrote.  All sums are exact: the script has at most 23      *)
(* lines, so `linha_y' and `x' stay far below 2^32.                         *)
(***************************************************************************)
EXTENDS Integers, Sequences

CONSTANTS VIDEO_SPACE,   \* 2^32
          PIXEL,         \* sizeof(uint32_t)
          MIN_LARGURA,   \* 48
          MIN_ALTURA,    \* 56
          MARGEM,
          CHAR_LARGURA,
          CHAR_ALTURA,
          LINHA_ALTURA,
          SEP_DY,        \* 3, from a separator to the text around it
          GAP,           \* 8, a blank between paragraphs
          SEP_COLUNAS,   \* 32, the widest separator in characters
          TEXT_MAX,      \* 512
          Texts,         \* the texts drawn
          Geometries     \* the arguments <<fb, pitch, largura, altura>>

ASSUME PanicAssumption ==
    /\ {VIDEO_SPACE, PIXEL, MARGEM, CHAR_LARGURA, CHAR_ALTURA, LINHA_ALTURA,
        GAP, SEP_COLUNAS, TEXT_MAX} \subseteq Nat \ {0}
    /\ MIN_LARGURA \in Nat /\ MIN_LARGURA >= 2 * MARGEM + CHAR_LARGURA
    /\ MIN_ALTURA \in Nat /\ MIN_ALTURA >= 2 * MARGEM + CHAR_ALTURA
    /\ SEP_DY \in 0 .. LINHA_ALTURA
    /\ Texts \subseteq Seq({"glyph", "newline"})
    /\ Geometries \subseteq Nat \X Nat \X Nat \X Nat

VARIABLES video,                \* the struct `video'
          panico_em_andamento,
          script,               \* what kernel_panic has yet to draw
          texto,                \* the text in progress: what is left of it
          x, linhas, i,         \* panic_texto's locals
          linha_y,
          drawn,                \* ghost: the rectangle written last
          parado                \* in panic_parar

svars == <<video, panico_em_andamento, script, texto, x, linhas, i, linha_y,
           drawn, parado>>
cursor == <<x, linhas, i>>

NoVideo == [fb |-> 0, pitch |-> 0, largura |-> 0, altura |-> 0]
NoText == <<"none">>   \* no text is being drawn
Rect(x0, y0, w, h) == [left |-> x0, top |-> y0, right |-> x0 + w, bottom |-> y0 + h]
Nothing == Rect(0, 0, 0, 0)

-----------------------------------------------------------------------------
\* The tests of panic_configurar_video, in their order: the smallest screen
\* holds one character, a line holds the screen's width, and neither the size
\* nor the end of the frame leaves the address space.
ValidGeometry(fb, pitch, largura, altura) ==
    /\ fb # 0 /\ fb % PIXEL = 0
    /\ largura >= MIN_LARGURA /\ altura >= MIN_ALTURA
    /\ pitch # 0 /\ pitch % PIXEL = 0
    /\ pitch \div PIXEL >= largura
    /\ altura <= (VIDEO_SPACE - 1) \div pitch
    /\ fb <= VIDEO_SPACE - 1 - pitch * altura

\* panic_configurar_video; a failure forgets an earlier frame.
Configurar(fb, pitch, largura, altura) ==
    /\ ~panico_em_andamento
    /\ video' = IF ValidGeometry(fb, pitch, largura, altura)
                THEN [fb |-> fb, pitch |-> pitch, largura |-> largura,
                      altura |-> altura]
                ELSE [video EXCEPT !.fb = 0]
    /\ UNCHANGED <<panico_em_andamento, script, texto, cursor, linha_y, drawn,
                   parado>>

Text(max) == [op |-> "text", max |-> max]
SepAbove == [op |-> "separator", max |-> -SEP_DY]   \* at linha_y - 3
SepBelow == [op |-> "separator", max |-> SEP_DY]    \* at linha_y + 3
Blank == [op |-> "gap", max |-> 0]

\* What kernel_panic draws; `regs' is "none", "regs", or "page fault" when the
\* frame's vector is 14.
ScriptOf(regs) ==
    <<Text(1), SepAbove, Text(3), Blank>>
    \o (CASE regs = "none" -> <<Text(1)>>
          [] regs = "regs" ->
               <<Text(1)>> \o [pair \in 1 .. 7 |-> Text(2)] \o <<Text(1)>>
          [] OTHER ->
               <<Text(1)>> \o [pair \in 1 .. 7 |-> Text(2)] \o <<Text(1), Text(1)>>)
    \o <<SepBelow, Blank, Text(2)>>

\* Mutant of KernelPanic: a second panic draws the screen again.
KernelPanic_Reenters(regs) ==
    /\ ~parado
    /\ panico_em_andamento' = TRUE
    /\ IF video.fb = 0
       THEN /\ parado' = TRUE
            /\ UNCHANGED <<script, linha_y, drawn>>
       ELSE /\ script' = ScriptOf(regs)
            /\ linha_y' = MARGEM
            /\ drawn' = Rect(0, 0, video.largura, video.altura)
            /\ UNCHANGED parado
    /\ texto' = NoText
    /\ UNCHANGED <<video, cursor>>

\* kernel_panic up to its first text: a second panic, or one without a frame,
\* only stops; otherwise the background is filled.
KernelPanic(regs) ==
    /\ ~parado
    /\ panico_em_andamento' = TRUE
    /\ IF panico_em_andamento \/ video.fb = 0
       THEN /\ parado' = TRUE
            /\ UNCHANGED <<script, linha_y, drawn>>
       ELSE /\ script' = ScriptOf(regs)
            /\ linha_y' = MARGEM
            /\ drawn' = Rect(0, 0, video.largura, video.altura)
            /\ UNCHANGED parado
    /\ UNCHANGED <<video, texto, cursor>>

\* The script is being drawn; no text is half drawn.
Drawing == panico_em_andamento /\ ~parado
AtOp(op) == Drawing /\ texto = NoText /\ script # <<>> /\ Head(script).op = op

BeginText(t) ==
    /\ AtOp("text")
    /\ texto' = t
    /\ x' = MARGEM /\ linhas' = 1 /\ i' = 0
    /\ UNCHANGED <<video, panico_em_andamento, script, linha_y, drawn, parado>>

\* The last statement of panic_texto, and the return to kernel_panic.
EndText(y) ==
    /\ linha_y' = y + LINHA_ALTURA
    /\ texto' = NoText
    /\ script' = Tail(script)

InText == Drawing /\ texto # NoText
MoreText == InText /\ texto # <<>> /\ i < TEXT_MAX
Wraps == \/ Head(texto) = "newline"
         \/ x + CHAR_LARGURA > video.largura - MARGEM

TextOver ==
    /\ InText /\ (texto = <<>> \/ i >= TEXT_MAX)
    /\ EndText(linha_y)
    /\ UNCHANGED <<video, panico_em_andamento, cursor, drawn, parado>>

\* The text may have no more lines.
TooManyLines ==
    /\ MoreText /\ Wraps /\ linhas + 1 > Head(script).max
    /\ linhas' = linhas + 1
    /\ EndText(linha_y)
    /\ UNCHANGED <<video, panico_em_andamento, x, i, drawn, parado>>

NewLine ==
    /\ MoreText /\ Head(texto) = "newline" /\ linhas + 1 <= Head(script).max
    /\ linhas' = linhas + 1 /\ linha_y' = linha_y + LINHA_ALTURA
    /\ x' = MARGEM /\ i' = i + 1 /\ texto' = Tail(texto)
    /\ UNCHANGED <<video, panico_em_andamento, script, drawn, parado>>

\* Mutant of FitsBelow: tests the top of the character only.
FitsBelow_Top(y) == y <= video.altura - MARGEM

FitsBelow(y) == y + CHAR_ALTURA <= video.altura - MARGEM

\* A character, on a new line when the current one is full; past the bottom
\* margin the text ends.
Glyph ==
    /\ MoreText /\ Head(texto) = "glyph"
    /\ Wraps => linhas + 1 <= Head(script).max
    /\ LET left == IF Wraps THEN MARGEM ELSE x
           top == IF Wraps THEN linha_y + LINHA_ALTURA ELSE linha_y
       IN  /\ linhas' = IF Wraps THEN linhas + 1 ELSE linhas
           /\ IF FitsBelow(top)
              THEN /\ drawn' = Rect(left, top, CHAR_LARGURA, CHAR_ALTURA)
                   /\ x' = left + CHAR_LARGURA
                   /\ linha_y' = top
                   /\ i' = i + 1 /\ texto' = Tail(texto)
                   /\ UNCHANGED script
              ELSE /\ x' = left
                   /\ EndText(top)
                   /\ UNCHANGED <<i, drawn>>
    /\ UNCHANGED <<video, panico_em_andamento, parado>>

SeparatorEnd ==
    IF video.largura - MARGEM > MARGEM + SEP_COLUNAS * CHAR_LARGURA
    THEN MARGEM + SEP_COLUNAS * CHAR_LARGURA ELSE video.largura - MARGEM

\* panic_separador: one row of pixels, unless it falls below the margin.
Separator ==
    /\ AtOp("separator")
    /\ LET y == linha_y + Head(script).max
       IN  drawn' = IF y >= video.altura - MARGEM THEN drawn
                    ELSE Rect(MARGEM, y, SeparatorEnd - MARGEM, 1)
    /\ script' = Tail(script)
    /\ UNCHANGED <<video, panico_em_andamento, texto, cursor, linha_y, parado>>

Gap ==
    /\ AtOp("gap")
    /\ linha_y' = linha_y + GAP
    /\ script' = Tail(script)
    /\ UNCHANGED <<video, panico_em_andamento, texto, cursor, drawn, parado>>

PanicParar ==
    /\ Drawing /\ texto = NoText /\ script = <<>>
    /\ parado' = TRUE
    /\ UNCHANGED <<video, panico_em_andamento, script, texto, cursor, linha_y, drawn>>

\* The texts are any of Texts: messages, and what panic_par and panic_valor write
\* into their buffers.
DrawStep ==
    \/ \E t \in Texts : BeginText(t)
    \/ TextOver \/ TooManyLines \/ NewLine \/ Glyph
    \/ Separator \/ Gap \/ PanicParar

SInit ==
    /\ video = NoVideo                                                \* .bss
    /\ panico_em_andamento = FALSE /\ parado = FALSE
    /\ script = <<>> /\ texto = NoText
    /\ x = 0 /\ linhas = 0 /\ i = 0 /\ linha_y = 0
    /\ drawn = Nothing

SNext ==
    \/ \E g \in Geometries : Configurar(g[1], g[2], g[3], g[4])
    \/ \E regs \in {"none", "regs", "page fault"} : KernelPanic(regs)
    \/ DrawStep

SSpec == SInit /\ [][SNext]_svars

-----------------------------------------------------------------------------
(* Properties                                                               *)

ScreenTypeOK ==
    /\ video \in [fb : Nat, pitch : Nat, largura : Nat, altura : Nat]
    /\ panico_em_andamento \in BOOLEAN /\ parado \in BOOLEAN
    /\ script \in Seq([op : {"text", "separator", "gap"}, max : Int])
    /\ texto = NoText \/ texto \in Seq({"glyph", "newline"})
    /\ x \in Nat /\ linhas \in Nat /\ i \in 0 .. TEXT_MAX
    /\ linha_y \in Nat
    /\ drawn \in [left : Nat, top : Nat, right : Nat, bottom : Nat]

\* The address one past the last byte of a rectangle: what the stores of
\* desenhar_char_com_fundo and of the separator reach.
EndOf(r) == video.fb + PIXEL * ((r.bottom - 1) * (video.pitch \div PIXEL) + r.right)

\* Whatever the geometry that was accepted, the texts and the registers, the
\* panic screen is drawn inside the frame: characters and separators never
\* leave the screen, nor their stores the frame buffer or the address space.
PanicInFrame ==
    panico_em_andamento /\ drawn # Nothing =>
        /\ drawn.right <= video.largura /\ drawn.bottom <= video.altura
        /\ EndOf(drawn) <= video.fb + video.pitch * video.altura
        /\ video.fb + video.pitch * video.altura < VIDEO_SPACE
=============================================================================
