-------------------------------- MODULE Terminal --------------------------------
(***************************************************************************)
(* The terminal loop of kernel_main (src/kernel.c) and the rows its         *)
(* commands write (src/comandos/comandos.c).  The line being typed lives in *)
(* a buffer and on the screen at once: characters are drawn and erased at a *)
(* cursor that wraps, and nothing records where each of them went.          *)
(*                                                                         *)
(* What a character is does not matter to the cursor: the line and the      *)
(* clipboard are their lengths, and a command is a line as long as its      *)
(* name.  `cells' is a ghost: where each character of the line was drawn.   *)
(***************************************************************************)
EXTENDS Integers, Sequences, SequencesExt

CONSTANTS LINHA_MAX,
          Geometries,    \* [width, height, terminal_y_inicial]
          MAX_Y          \* bound: no command is run with the cursor below it

MARGEM_X == 50           \* the margin on both sides
PROMPT == 13 * 16        \* "root@vgos:~# "
CHAR_X == 16
CHAR_Y == 24
cursor_base_x == MARGEM_X + PROMPT

\* Where the last cell of a full row is depends on the width; the loop's own
\* formula for it is right unless 16 divides width - 100.
ASSUME TerminalAssumption ==
    /\ LINHA_MAX \in Nat \ {0} /\ MAX_Y \in Nat
    /\ \A g \in Geometries :
          /\ g.width \in Nat /\ g.height \in Nat /\ g.terminal_y_inicial \in Nat
          /\ g.width >= 320 /\ (g.width - 2 * MARGEM_X) % CHAR_X # 0

VARIABLES screen,        \* the geometry, and where the terminal starts
          term,          \* [x, y, len, cells]: cursor, linha_len, and the ghost
          prompt_y,      \* ghost: the row of the prompt
          clipboard_len,
          parado         \* the command exit or panic ended the loop

tvars == <<screen, term, prompt_y, clipboard_len, parado>>

-----------------------------------------------------------------------------
(* Cursor and line                                                          *)

RowFits(y) == y + CHAR_Y < screen.height - CHAR_Y

Written(t) == [x |-> t.x + CHAR_X, y |-> t.y, len |-> t.len + 1,
               cells |-> Append(t.cells, <<t.x, t.y>>)]

RowFull(t) == t.x + CHAR_X >= screen.width - MARGEM_X

\* Mutant of InserirChar: the buffer is filled to its last place and one more.
InserirChar_OneMore(t) ==
    CASE t.len > LINHA_MAX - 1 -> t
      [] t.len <= LINHA_MAX - 1 /\ ~RowFull(t) -> Written(t)
      [] t.len <= LINHA_MAX - 1 /\ RowFull(t) /\ RowFits(t.y) ->
            Written([t EXCEPT !.x = MARGEM_X, !.y = @ + CHAR_Y])
      [] OTHER -> t

\* inserir_char: a character that has no room, in the buffer or on the screen,
\* is dropped; one past the margin goes to the next row.
InserirChar(t) ==
    CASE t.len >= LINHA_MAX - 1 -> t
      [] t.len < LINHA_MAX - 1 /\ ~RowFull(t) -> Written(t)
      [] t.len < LINHA_MAX - 1 /\ RowFull(t) /\ RowFits(t.y) ->
            Written([t EXCEPT !.x = MARGEM_X, !.y = @ + CHAR_Y])
      [] OTHER -> t

MinX(t) == IF t.y = screen.terminal_y_inicial THEN cursor_base_x ELSE MARGEM_X

\* Mutant of Erased: the last cell of the row above is taken to be one further.
Erased_OneMore(t) ==
    CASE t.x > MinX(t) -> [t EXCEPT !.x = @ - CHAR_X]
      [] t.x <= MinX(t) /\ t.y > screen.terminal_y_inicial ->
            [t EXCEPT !.y = @ - CHAR_Y,
                      !.x = MARGEM_X + ((screen.width - 100) \div CHAR_X) * CHAR_X]
      [] OTHER -> t

\* The cursor after backspace: one cell back, or at the end of the row above.
\* The cell erased is the one the cursor ends on.
Erased(t) ==
    CASE t.x > MinX(t) -> [t EXCEPT !.x = @ - CHAR_X]
      [] t.x <= MinX(t) /\ t.y > screen.terminal_y_inicial ->
            [t EXCEPT !.y = @ - CHAR_Y,
                      !.x = MARGEM_X + ((screen.width - 100) \div CHAR_X - 1) * CHAR_X]
      [] OTHER -> t

\* A prompt on row y and an empty line after it.
Prompt(y) ==
    /\ term' = [x |-> cursor_base_x, y |-> y, len |-> 0, cells |-> <<>>]
    /\ prompt_y' = y

-----------------------------------------------------------------------------
(* Keys                                                                     *)

Digitar ==
    /\ ~parado
    /\ term' = InserirChar(term)
    /\ UNCHANGED <<screen, prompt_y, clipboard_len, parado>>

Backspace ==
    /\ ~parado /\ term.len > 0
    /\ LET t == Erased(term)
       IN  term' = IF t = term THEN term
                   ELSE [t EXCEPT !.len = @ - 1, !.cells = Front(@)]
    /\ UNCHANGED <<screen, prompt_y, clipboard_len, parado>>

Copiar ==
    /\ ~parado
    /\ clipboard_len' = term.len
    /\ UNCHANGED <<screen, term, prompt_y, parado>>

\* CTRL+V inserts the clipboard one character at a time.
Colar ==
    /\ ~parado
    /\ LET after[n \in 0 .. clipboard_len] ==
             IF n = 0 THEN term ELSE InserirChar(after[n - 1])
       IN  term' = after[clipboard_len]
    /\ UNCHANGED <<screen, prompt_y, clipboard_len, parado>>

\* CTRL+L.
LimparTerminal ==
    /\ ~parado
    /\ Prompt(screen.terminal_y_inicial)
    /\ UNCHANGED <<screen, clipboard_len, parado>>

-----------------------------------------------------------------------------
(* ENTER                                                                    *)

\* The commands that return, by the lengths of their names and the rows they
\* write; mostrar_pmm writes one row less when the page cannot be allocated.
Commands ==
    {[lens |-> {4, 6}, rows |-> {10}],     \* help, helpet
     [lens |-> {7}, rows |-> {1}],         \* version
     [lens |-> {3}, rows |-> {4}],         \* gdt
     [lens |-> {3}, rows |-> {4, 5}]}      \* pmm, mem

\* comandos_executar moves the cursor down before each row it writes, whatever
\* the height; the loop moves to a new row only if there is one.
NewPrompt(rows) ==
    LET y == term.y + rows * CHAR_Y
    IN  Prompt(IF RowFits(y) THEN y + CHAR_Y ELSE y)

\* An empty line, or one that is no command: the prompt moves on.
EnterSemComando ==
    /\ ~parado
    /\ NewPrompt(0)
    /\ UNCHANGED <<screen, clipboard_len, parado>>

EnterComando ==
    /\ ~parado /\ term.y <= MAX_Y
    /\ \E c \in Commands : term.len \in c.lens /\ \E rows \in c.rows : NewPrompt(rows)
    /\ UNCHANGED <<screen, clipboard_len, parado>>

EnterClear ==
    /\ term.len = 5
    /\ LimparTerminal

\* exit and sair write two rows and halt; panic raises #UD and does not return
\* (PanicScreen): the cursor is not used again.
EnterExit ==
    /\ ~parado /\ term.len \in {4, 5}
    /\ parado' = TRUE
    /\ UNCHANGED <<screen, term, prompt_y, clipboard_len>>

TInit ==
    /\ screen \in Geometries
    /\ term = [x |-> cursor_base_x, y |-> screen.terminal_y_inicial, len |-> 0,
               cells |-> <<>>]
    /\ prompt_y = screen.terminal_y_inicial
    /\ clipboard_len = 0
    /\ parado = FALSE

TNext ==
    \/ Digitar \/ Backspace \/ Copiar \/ Colar \/ LimparTerminal
    \/ EnterSemComando \/ EnterComando \/ EnterClear \/ EnterExit

TSpec == TInit /\ [][TNext]_tvars

-----------------------------------------------------------------------------
(* Properties                                                               *)

\* The line and the clipboard fit their buffers whatever is typed and pasted.
TermTypeOK ==
    /\ screen \in Geometries
    /\ term.x \in Nat /\ term.y \in Nat
    /\ term.len \in 0 .. LINHA_MAX - 1 /\ Len(term.cells) = term.len
    /\ clipboard_len \in 0 .. LINHA_MAX - 1
    /\ prompt_y \in Nat /\ parado \in BOOLEAN

CellsOf(t) == {t.cells[k] : k \in DOMAIN t.cells}

\* The line in the buffer is the line on the screen, through wraps, pastes and
\* prompts moved by commands ("line wrap e Backspace multilinha", README.md):
\* its characters are in cells of their own, between the margins and after the
\* prompt; none is below the frame while the prompt is not; and the cell the
\* next backspace erases is that of the last character.
LineOnScreen ==
    /\ \A k, l \in DOMAIN term.cells : k # l => term.cells[k] # term.cells[l]
    /\ \A c \in CellsOf(term) :
          /\ MARGEM_X <= c[1] /\ c[1] + CHAR_X < screen.width - MARGEM_X
          /\ prompt_y <= c[2] /\ (c[2] = prompt_y => cursor_base_x <= c[1])
          /\ prompt_y + CHAR_Y <= screen.height => c[2] + CHAR_Y <= screen.height
    /\ term.len > 0 => <<Erased(term).x, Erased(term).y>> = Last(term.cells)
=============================================================================
