----------------------------- MODULE Console_proofs -----------------------------
(***************************************************************************)
(* Proofs about the terminal and the keyboard it polls.                     *)
(***************************************************************************)
EXTENDS Header, Keyboard, ArithLemmas, SequenceTheorems

(***************************************************************************)
(* TERMINAL.  Number the cells of the screen row by row from the left       *)
(* margin of the prompt: the prompt takes 13 of them, and character k of    *)
(* the line is in cell 12 + k.  The cursor is at the cell after the last    *)
(* character, or at the end of its row, which is the same number.           *)
(***************************************************************************)

Columns == (screen.width - 2 * MARGEM_X) \div CHAR_X
Cell(p, q) == <<MARGEM_X + CHAR_X * (q % Columns), p + CHAR_Y * (q \div Columns)>>

\* The cursor of line t, in row r and column c below the prompt.
CursorIn(t, p, r, c) ==
    /\ t.x = MARGEM_X + CHAR_X * c /\ t.y = p + CHAR_Y * r
    /\ r * Columns + c = 13 + t.len
    /\ r > 0 /\ p + CHAR_Y <= screen.height => t.y + CHAR_Y <= screen.height

LineAt(t, p) ==
    /\ t \in [x : Nat, y : Nat, len : 0 .. LINHA_MAX - 1, cells : Seq(Nat \X Nat)]
    /\ Len(t.cells) = t.len
    /\ \A k \in 1 .. t.len : t.cells[k] = Cell(p, 12 + k)
    /\ \E r \in Nat, c \in 0 .. Columns : CursorIn(t, p, r, c)

TInv ==
    /\ screen \in Geometries
    /\ prompt_y \in Nat /\ prompt_y >= screen.terminal_y_inicial
    /\ LineAt(term, prompt_y)
    /\ clipboard_len \in 0 .. LINHA_MAX - 1 /\ parado \in BOOLEAN

LEMMA ScreenFacts ==
    ASSUME screen \in Geometries
    PROVE  /\ screen.width \in Nat /\ screen.height \in Nat
           /\ screen.terminal_y_inicial \in Nat
           /\ Columns \in Nat /\ Columns >= 13
           /\ CHAR_X * Columns < screen.width - 2 * MARGEM_X
           /\ screen.width - 2 * MARGEM_X < CHAR_X * (Columns + 1)
           /\ (screen.width - 100) \div CHAR_X = Columns
<1>1. /\ screen.width \in Nat /\ screen.height \in Nat
      /\ screen.terminal_y_inicial \in Nat
      /\ screen.width >= 320 /\ (screen.width - 100) % 16 # 0
  BY TerminalAssumption DEF MARGEM_X, CHAR_X
<1> DEFINE w == screen.width - 100
<1>2. w \in Nat /\ w >= 220 /\ w % 16 # 0
  BY <1>1
<1>3. Columns = w \div 16
  BY DEF Columns, MARGEM_X, CHAR_X
<1> HIDE DEF w
<1>4. /\ w \div 16 \in Nat /\ w \div 16 >= 13
      /\ 16 * (w \div 16) < w /\ w < 16 * ((w \div 16) + 1)
  BY <1>2
<1> QED
  BY <1>1, <1>3, <1>4 DEF w, CHAR_X, MARGEM_X

\* The number of a cell determines its row and column.
LEMMA RowColumn ==
    ASSUME NEW n \in Nat \ {0}, NEW r \in Int, NEW c \in 0 .. n - 1, NEW q \in Int,
           q = r * n + c
    PROVE  q \div n = r /\ q % n = c
<1>1. r * n \in Int /\ (r + 1) * n = r * n + n
  OBVIOUS
<1>2. r <= q \div n <=> r * n <= q
  BY DivFloor
<1>3. r + 1 <= q \div n <=> (r + 1) * n <= q
  BY DivFloor
<1>4. q \div n \in Int
  BY DivMod
<1>5. q \div n = r
  BY <1>1, <1>2, <1>3, <1>4
<1>6. q = (n * (q \div n)) + (q % n) /\ q % n \in Int
  BY DivMod
<1>7. n * r = r * n
  OBVIOUS
<1> QED
  BY <1>1, <1>5, <1>6, <1>7

LEMMA CellOfCursor ==
    ASSUME screen \in Geometries, NEW p \in Nat, NEW r \in Nat,
           NEW c \in 0 .. Columns - 1, NEW q \in Nat, q = r * Columns + c
    PROVE  Cell(p, q) = <<MARGEM_X + CHAR_X * c, p + CHAR_Y * r>>
<1>1. Columns \in Nat \ {0}
  BY ScreenFacts
<1>2. q \div Columns = r /\ q % Columns = c
  BY <1>1, RowColumn
<1> QED
  BY <1>2 DEF Cell
\* An empty line after the prompt.
LEMMA EmptyLine ==
    ASSUME screen \in Geometries, NEW p \in Nat, NEW t,
           t = [x |-> cursor_base_x, y |-> p, len |-> 0, cells |-> <<>>]
    PROVE  LineAt(t, p)
<1>1. t \in [x : Nat, y : Nat, len : 0 .. LINHA_MAX - 1, cells : Seq(Nat \X Nat)]
  BY TerminalAssumption DEF cursor_base_x, MARGEM_X, PROMPT
<1>2. CursorIn(t, p, 0, 13) /\ 13 \in 0 .. Columns
  BY ScreenFacts DEF CursorIn, cursor_base_x, MARGEM_X, PROMPT, CHAR_X, CHAR_Y
<1> QED
  BY <1>1, <1>2 DEF LineAt

\* A character is written at cell 13 + len, where the cursor stands.
LEMMA CharWritten ==
    ASSUME screen \in Geometries, NEW p \in Nat, NEW t,
           t \in [x : Nat, y : Nat, len : 0 .. LINHA_MAX - 1, cells : Seq(Nat \X Nat)],
           Len(t.cells) = t.len, t.len < LINHA_MAX - 1,
           \A k \in 1 .. t.len : t.cells[k] = Cell(p, 12 + k),
           NEW r \in Nat, NEW c \in 0 .. Columns - 1, CursorIn(t, p, r, c)
    PROVE  LineAt(Written(t), p)
<1> DEFINE w == Written(t)
           cell == <<t.x, t.y>>
<1>1. /\ t.x \in Nat /\ t.y \in Nat /\ t.len \in Nat /\ t.cells \in Seq(Nat \X Nat)
      /\ cell \in Nat \X Nat /\ Columns \in Nat /\ LINHA_MAX \in Nat
  BY ScreenFacts, TerminalAssumption
<1>2. /\ w.x = t.x + 16 /\ w.y = t.y /\ w.len = t.len + 1
      /\ w.cells = Append(t.cells, cell)
  BY DEF Written, CHAR_X
<1>22. w = [x |-> w.x, y |-> w.y, len |-> w.len, cells |-> w.cells]
  BY DEF Written
<1>3. /\ w.cells \in Seq(Nat \X Nat) /\ Len(w.cells) = t.len + 1
      /\ \A k \in 1 .. t.len : w.cells[k] = t.cells[k]
      /\ w.cells[t.len + 1] = cell
  BY <1>1, <1>2, AppendProperties
<1>4. cell = Cell(p, 13 + t.len)
  BY <1>1, CellOfCursor DEF CursorIn
<1> HIDE DEF w, cell
<1>5. CursorIn(w, p, r, c + 1) /\ c + 1 \in 0 .. Columns
  <2>1. r * Columns + (c + 1) = (r * Columns + c) + 1 /\ r * Columns \in Int
    BY <1>1
  <2>2. /\ t.x = 50 + 16 * c /\ t.y = p + 24 * r /\ r * Columns + c = 13 + t.len
        /\ (r > 0 /\ p + 24 <= screen.height => t.y + 24 <= screen.height)
    BY DEF CursorIn, CHAR_X, CHAR_Y, MARGEM_X
  <2>3. /\ w.x = 50 + 16 * (c + 1) /\ w.y = p + 24 * r
        /\ r * Columns + (c + 1) = 13 + w.len
        /\ (r > 0 /\ p + 24 <= screen.height => w.y + 24 <= screen.height)
    <3>1. w.x = 50 + 16 * (c + 1) /\ w.y = p + 24 * r
      <4>1. c \in Int /\ w.x = (50 + 16 * c) + 16 /\ w.y = p + 24 * r
        BY <1>2, <2>2
      <4>2. (50 + 16 * c) + 16 = 50 + 16 * (c + 1)
        BY <4>1
      <4> QED
        BY <4>1, <4>2
    <3>2. r * Columns + (c + 1) = 13 + w.len
      <4>1. (13 + t.len) + 1 = 13 + w.len
        BY <1>1, <1>2
      <4>2. r * Columns + (c + 1) = (13 + t.len) + 1
        BY <2>1, <2>2
      <4> QED
        BY <4>1, <4>2
    <3> QED
      BY <1>2, <2>2, <3>1, <3>2
  <2>4. c + 1 \in 0 .. Columns
    BY <1>1
  <2> QED
    BY <2>3, <2>4 DEF CursorIn, CHAR_X, CHAR_Y, MARGEM_X
<1>6. w \in [x : Nat, y : Nat, len : 0 .. LINHA_MAX - 1, cells : Seq(Nat \X Nat)]
  <2>1. w.x \in Nat /\ w.y \in Nat /\ w.len \in 0 .. LINHA_MAX - 1
    BY <1>1, <1>2
  <2> QED
    BY <1>22, <1>3, <2>1
<1>7. \A k \in 1 .. w.len : w.cells[k] = Cell(p, 12 + k)
  <2> TAKE k \in 1 .. w.len
  <2>1. k \in 1 .. t.len \/ k = t.len + 1
    BY <1>1, <1>2
  <2>2. CASE k \in 1 .. t.len
    BY <1>3, <2>2
  <2>3. CASE k = t.len + 1
    <3>1. 12 + k = 13 + t.len
      BY <1>1, <2>3
    <3> QED
      BY <1>3, <1>4, <2>3, <3>1
  <2> QED
    BY <2>1, <2>2, <2>3
<1> QED
  BY <1>2, <1>3, <1>5, <1>6, <1>7 DEF LineAt, w

LEMMA InsertKeepsLine ==
    ASSUME screen \in Geometries, NEW p \in Nat, NEW t, LineAt(t, p)
    PROVE  LineAt(InserirChar(t), p)
<1>1. /\ t \in [x : Nat, y : Nat, len : 0 .. LINHA_MAX - 1, cells : Seq(Nat \X Nat)]
      /\ Len(t.cells) = t.len
      /\ \A k \in 1 .. t.len : t.cells[k] = Cell(p, 12 + k)
  BY DEF LineAt
<1>2. PICK r \in Nat, c \in 0 .. Columns : CursorIn(t, p, r, c)
  BY DEF LineAt
<1>3. /\ t.x \in Nat /\ t.y \in Nat /\ Columns \in Nat /\ Columns >= 13
      /\ screen.width \in Nat /\ screen.height \in Nat /\ LINHA_MAX \in Nat
      /\ t.x = 50 + 16 * c /\ t.y = p + 24 * r
  BY <1>1, <1>2, ScreenFacts, TerminalAssumption DEF CursorIn, MARGEM_X, CHAR_X, CHAR_Y
<1>4. CASE t.len >= LINHA_MAX - 1
  <2>1. InserirChar(t) = t
    BY <1>1, <1>3, <1>4 DEF InserirChar
  <2> QED
    BY <2>1
<1>5. CASE t.len < LINHA_MAX - 1 /\ ~RowFull(t)
  <2>1. InserirChar(t) = Written(t)
    BY <1>1, <1>3, <1>5 DEF InserirChar
  <2>2. c \in 0 .. Columns - 1
    BY <1>3, <1>5, ScreenFacts DEF RowFull, CHAR_X, MARGEM_X
  <2> QED
    BY <1>1, <1>2, <1>5, <2>1, <2>2, CharWritten
<1>6. CASE t.len < LINHA_MAX - 1 /\ RowFull(t) /\ RowFits(t.y)
  <2> DEFINE n == [t EXCEPT !.x = MARGEM_X, !.y = @ + CHAR_Y]
  <2>1. InserirChar(t) = Written(n)
    BY <1>1, <1>3, <1>6 DEF InserirChar
  <2>2. c = Columns
    BY <1>3, <1>6, ScreenFacts DEF RowFull, CHAR_X, MARGEM_X
  <2>3. /\ n \in [x : Nat, y : Nat, len : 0 .. LINHA_MAX - 1, cells : Seq(Nat \X Nat)]
        /\ n.x = 50 /\ n.y = t.y + 24 /\ n.len = t.len /\ n.cells = t.cells
    <3>1. MARGEM_X = 50 /\ t.y + CHAR_Y = t.y + 24 /\ t.y + 24 \in Nat
      BY <1>3 DEF MARGEM_X, CHAR_Y
    <3>2. /\ n.x = MARGEM_X /\ n.y = t.y + CHAR_Y /\ n.len = t.len /\ n.cells = t.cells
      BY <1>1
    <3>3. MARGEM_X \in Nat /\ t.y + CHAR_Y \in Nat
      BY <3>1
    <3>4. n \in [x : Nat, y : Nat, len : 0 .. LINHA_MAX - 1, cells : Seq(Nat \X Nat)]
      BY <1>1, <3>3
    <3> HIDE DEF n
    <3> QED
      BY <3>1, <3>2, <3>4
  <2> HIDE DEF n
  <2>4. CursorIn(n, p, r + 1, 0)
    <3>1. (r + 1) * Columns + 0 = r * Columns + c
      BY <1>3, <2>2
    <3>2. n.y + 24 <= screen.height
      BY <1>3, <1>6, <2>3 DEF RowFits, CHAR_Y
    <3>3. (r + 1) * Columns + 0 = 13 + n.len
      BY <1>2, <2>3, <3>1 DEF CursorIn
    <3>4. n.x = MARGEM_X + CHAR_X * 0 /\ n.y = p + CHAR_Y * (r + 1)
      BY <1>3, <2>3 DEF MARGEM_X, CHAR_X, CHAR_Y
    <3> QED
      BY <3>2, <3>3, <3>4 DEF CursorIn, CHAR_Y
  <2>5. r + 1 \in Nat /\ 0 \in 0 .. Columns - 1
    BY <1>3
  <2>6. Len(n.cells) = n.len /\ n.len < LINHA_MAX - 1
    BY <1>1, <1>6, <2>3
  <2>7. \A k \in 1 .. n.len : n.cells[k] = Cell(p, 12 + k)
    BY <1>1, <2>3
  <2>8. LineAt(Written(n), p)
    BY <2>3, <2>4, <2>5, <2>6, <2>7, CharWritten
  <2> QED
    BY <2>1, <2>8
<1>7. CASE /\ t.len < LINHA_MAX - 1 /\ RowFull(t) /\ ~RowFits(t.y)
  <2>1. InserirChar(t) = t
    BY <1>1, <1>3, <1>7 DEF InserirChar
  <2> QED
    BY <2>1
<1> QED
  BY <1>1, <1>3, <1>4, <1>5, <1>6, <1>7

\* Backspace finds the last character's cell.
LEMMA ErasedIsLast ==
    ASSUME screen \in Geometries, NEW p \in Nat, p >= screen.terminal_y_inicial,
           NEW t, LineAt(t, p), t.len > 0
    PROVE  /\ <<Erased(t).x, Erased(t).y>> = Cell(p, 12 + t.len)
           /\ Erased(t).len = t.len /\ Erased(t).cells = t.cells
           /\ Erased(t) \in [x : Nat, y : Nat, len : 0 .. LINHA_MAX - 1,
                             cells : Seq(Nat \X Nat)]
           /\ Erased(t) # t
           /\ \E r \in Nat, c \in 0 .. Columns :
                 /\ Erased(t).x = MARGEM_X + CHAR_X * c /\ Erased(t).y = p + CHAR_Y * r
                 /\ r * Columns + c = 12 + t.len
                 /\ r > 0 /\ p + CHAR_Y <= screen.height
                       => Erased(t).y + CHAR_Y <= screen.height
<1>1. t \in [x : Nat, y : Nat, len : 0 .. LINHA_MAX - 1, cells : Seq(Nat \X Nat)]
  BY DEF LineAt
<1>2. PICK r \in Nat, c \in 0 .. Columns : CursorIn(t, p, r, c)
  BY DEF LineAt
<1>3. /\ t.x \in Nat /\ t.y \in Nat /\ Columns \in Nat /\ Columns >= 13
      /\ t.len \in Nat /\ screen.height \in Nat /\ screen.terminal_y_inicial \in Nat
      /\ t.x = 50 + 16 * c /\ t.y = p + 24 * r
      /\ (screen.width - 100) \div CHAR_X = Columns
  BY <1>1, <1>2, ScreenFacts, TerminalAssumption DEF CursorIn, MARGEM_X, CHAR_X, CHAR_Y
<1>4. /\ r * Columns + c = 13 + t.len /\ r * Columns \in Int
      /\ (r > 0 /\ p + 24 <= screen.height => t.y + 24 <= screen.height)
  BY <1>2, <1>3 DEF CursorIn, CHAR_Y
<1>5. t.y = screen.terminal_y_inicial => r = 0
  BY <1>3
<1>6. t.x > MinX(t) <=> c > 0
  <2>1. CASE r = 0
    BY <1>3, <1>4, <2>1 DEF MinX, cursor_base_x, MARGEM_X, PROMPT
  <2>2. CASE r # 0
    BY <1>3, <1>5, <2>2 DEF MinX, MARGEM_X
  <2> QED
    BY <2>1, <2>2
<1>7. CASE c > 0
  <2>0. Erased(t) = [t EXCEPT !.x = @ - CHAR_X]
    <3>1. MinX(t) \in Nat
      BY DEF MinX, cursor_base_x, MARGEM_X, PROMPT
    <3>2. t.x > MinX(t) /\ ~(t.x <= MinX(t))
      BY <1>3, <1>6, <1>7, <3>1
    <3> QED
      BY <3>2 DEF Erased
  <2>1. /\ Erased(t).x = t.x - 16 /\ Erased(t).y = t.y
        /\ Erased(t).len = t.len /\ Erased(t).cells = t.cells
        /\ Erased(t) = [t EXCEPT !.x = @ - CHAR_X]
    BY <1>1, <2>0 DEF CHAR_X
  <2>2. /\ c - 1 \in 0 .. Columns - 1 /\ 12 + t.len = r * Columns + (c - 1)
        /\ 12 + t.len \in Nat
    BY <1>3, <1>4, <1>7
  <2>3. Cell(p, 12 + t.len) = <<MARGEM_X + CHAR_X * (c - 1), p + CHAR_Y * r>>
    BY <2>2, CellOfCursor
  <2>4. Erased(t).x = MARGEM_X + CHAR_X * (c - 1) /\ Erased(t).y = p + CHAR_Y * r
    BY <1>3, <2>1 DEF MARGEM_X, CHAR_X, CHAR_Y
  <2>5. Erased(t).x \in Nat /\ Erased(t).x # t.x
    BY <1>3, <1>7, <2>1
  <2>6. Erased(t) \in [x : Nat, y : Nat, len : 0 .. LINHA_MAX - 1, cells : Seq(Nat \X Nat)]
    BY <1>1, <2>1, <2>5
  <2>7. c - 1 \in 0 .. Columns
    BY <1>3, <2>2
  <2> QED
    BY <1>4, <2>1, <2>2, <2>3, <2>4, <2>5, <2>6, <2>7 DEF CHAR_Y
<1>8. CASE c = 0
  <2>1. r > 0
    BY <1>3, <1>4, <1>8
  <2>2. ~(t.x > MinX(t)) /\ t.x <= MinX(t) /\ t.y > screen.terminal_y_inicial
    <3>1. MinX(t) \in Nat
      BY DEF MinX, cursor_base_x, MARGEM_X, PROMPT
    <3> QED
      BY <1>3, <1>6, <1>8, <2>1, <3>1
  <2>3. /\ Erased(t) = [t EXCEPT !.y = @ - CHAR_Y,
                        !.x = MARGEM_X + ((screen.width - 100) \div CHAR_X - 1) * CHAR_X]
    BY <2>2 DEF Erased
  <2>4. /\ Erased(t).x = 50 + (Columns - 1) * 16 /\ Erased(t).y = t.y - 24
        /\ Erased(t).len = t.len /\ Erased(t).cells = t.cells
    BY <1>1, <1>3, <2>3 DEF CHAR_X, CHAR_Y, MARGEM_X
  <2>5. /\ Columns - 1 \in 0 .. Columns - 1 /\ r - 1 \in Nat /\ 12 + t.len \in Nat
        /\ 12 + t.len = (r - 1) * Columns + (Columns - 1)
    <3>1. (r - 1) * Columns = r * Columns - Columns
      BY <1>3
    <3> QED
      BY <1>3, <1>4, <1>8, <2>1, <3>1
  <2>6. Cell(p, 12 + t.len) = <<MARGEM_X + CHAR_X * (Columns - 1), p + CHAR_Y * (r - 1)>>
    BY <2>5, CellOfCursor
  <2>7. /\ Erased(t).x = MARGEM_X + CHAR_X * (Columns - 1)
        /\ Erased(t).y = p + CHAR_Y * (r - 1)
    BY <1>3, <2>4 DEF MARGEM_X, CHAR_X, CHAR_Y
  <2>8. Erased(t).x \in Nat /\ Erased(t).y \in Nat /\ Erased(t).y # t.y
    BY <1>3, <2>1, <2>4
  <2>9. Erased(t) \in [x : Nat, y : Nat, len : 0 .. LINHA_MAX - 1, cells : Seq(Nat \X Nat)]
    BY <1>1, <2>3, <2>4, <2>8
  <2>10. p + 24 <= screen.height => Erased(t).y + 24 <= screen.height
    BY <1>3, <1>4, <2>1, <2>4
  <2>11. Columns - 1 \in 0 .. Columns
    BY <1>3
  <2> QED
    BY <2>4, <2>5, <2>6, <2>7, <2>8, <2>9, <2>10, <2>11 DEF CHAR_Y
<1> QED
  BY <1>3, <1>7, <1>8

\* A sequence without its last element.
LEMMA AllButLast ==
    ASSUME NEW T, NEW s \in Seq(T), NEW n \in Nat, n > 0, Len(s) = n
    PROVE  /\ SubSeq(s, 1, n - 1) \in Seq(T)
           /\ Len(SubSeq(s, 1, n - 1)) = n - 1
           /\ \A k \in 1 .. n - 1 : SubSeq(s, 1, n - 1)[k] = s[k]
<1>1. n - 1 \in Int /\ \A k \in 1 .. n - 1 : s[k] \in T
  OBVIOUS
<1> DEFINE f == SubSeq(s, 1, n - 1)
<1>2. /\ f \in Seq(T)
      /\ Len(f) = IF 1 <= n - 1 THEN n - 1 - 1 + 1 ELSE 0
      /\ \A k \in 1 .. n - 1 - 1 + 1 : f[k] = s[1 + k - 1]
  BY <1>1, SubSeqProperties
<1> HIDE DEF f
<1>3. Len(f) = n - 1
  BY <1>2
<1>4. \A k \in 1 .. n - 1 : f[k] = s[k]
  <2> TAKE k \in 1 .. n - 1
  <2>1. k \in 1 .. n - 1 - 1 + 1 /\ 1 + k - 1 = k
    OBVIOUS
  <2> QED
    BY <1>2, <2>1
<1> QED
  BY <1>2, <1>3, <1>4 DEF f

\* Backspace takes the last character off the line.
LEMMA BackspaceKeepsLine ==
    ASSUME screen \in Geometries, NEW p \in Nat, p >= screen.terminal_y_inicial,
           NEW t, LineAt(t, p), t.len > 0, NEW e, e = Erased(t)
    PROVE  LineAt([e EXCEPT !.len = @ - 1, !.cells = Front(@)], p)
<1> DEFINE b == [e EXCEPT !.len = @ - 1, !.cells = Front(@)]
<1>1. /\ t \in [x : Nat, y : Nat, len : 0 .. LINHA_MAX - 1, cells : Seq(Nat \X Nat)]
      /\ Len(t.cells) = t.len
      /\ \A k \in 1 .. t.len : t.cells[k] = Cell(p, 12 + k)
  BY DEF LineAt
<1>2. /\ e \in [x : Nat, y : Nat, len : 0 .. LINHA_MAX - 1, cells : Seq(Nat \X Nat)]
      /\ e.len = t.len /\ e.cells = t.cells
  BY ErasedIsLast
<1>3. PICK r \in Nat, c \in 0 .. Columns :
         /\ e.x = MARGEM_X + CHAR_X * c /\ e.y = p + CHAR_Y * r
         /\ r * Columns + c = 12 + t.len
         /\ r > 0 /\ p + CHAR_Y <= screen.height => e.y + CHAR_Y <= screen.height
  BY ErasedIsLast
<1>4. t.len \in Nat /\ t.cells \in Seq(Nat \X Nat) /\ LINHA_MAX \in Nat
  BY <1>1, TerminalAssumption
<1> DEFINE f == SubSeq(t.cells, 1, t.len - 1)
<1>5. b.x = e.x /\ b.y = e.y /\ b.len = t.len - 1 /\ b.cells = f
  BY <1>1, <1>2, <1>4 DEF Front
<1>6. /\ f \in Seq(Nat \X Nat) /\ Len(f) = t.len - 1
      /\ \A k \in 1 .. t.len - 1 : f[k] = t.cells[k]
  <2>1. PICK s, n : s = t.cells /\ n = t.len
    OBVIOUS
  <2>2. s \in Seq(Nat \X Nat) /\ n \in Nat /\ n > 0 /\ Len(s) = n
    BY <1>1, <1>4, <2>1
  <2>3. /\ SubSeq(s, 1, n - 1) \in Seq(Nat \X Nat)
        /\ Len(SubSeq(s, 1, n - 1)) = n - 1
        /\ \A k \in 1 .. n - 1 : SubSeq(s, 1, n - 1)[k] = s[k]
    BY <2>2, AllButLast
  <2> QED
    BY <2>1, <2>3
<1>7. b \in [x : Nat, y : Nat, len : 0 .. LINHA_MAX - 1, cells : Seq(Nat \X Nat)]
  <2>1. e.len - 1 \in 0 .. LINHA_MAX - 1 /\ Front(e.cells) \in Seq(Nat \X Nat)
    <3>1. t.len \in 0 .. LINHA_MAX - 1
      BY <1>1
    <3>2. Front(e.cells) = f
      BY <1>1, <1>2 DEF Front
    <3> HIDE DEF f
    <3>3. e.len - 1 \in 0 .. LINHA_MAX - 1
      BY <1>2, <1>4, <3>1
    <3> QED
      BY <1>6, <3>2, <3>3
  <2> QED
    BY <1>2, <2>1
<1> HIDE DEF b, f
<1>8. CursorIn(b, p, r, c)
  <2>1. r * Columns + c = 13 + b.len
    BY <1>3, <1>4, <1>5
  <2> QED
    BY <1>3, <1>5, <2>1 DEF CursorIn
<1>9. \A k \in 1 .. b.len : b.cells[k] = Cell(p, 12 + k)
  <2> TAKE k \in 1 .. b.len
  <2>1. k \in 1 .. t.len - 1 /\ k \in 1 .. t.len
    BY <1>4, <1>5
  <2> QED
    BY <1>1, <1>5, <1>6, <2>1
<1> QED
  BY <1>5, <1>6, <1>7, <1>8, <1>9 DEF LineAt, b

\* A paste of N characters: after n of them the line is f[n].
IsPaste(f, t, N) ==
    f = [n \in 0 .. N |-> IF n = 0 THEN t ELSE InserirChar(f[n - 1])]

LEMMA PasteExists ==
    ASSUME NEW t, NEW N \in Nat
    PROVE  \E f : IsPaste(f, t, N)
<1> DEFINE T == {n \in Nat : ~ \E f : IsPaste(f, t, n)}
<1> SUFFICES ASSUME T # {} PROVE FALSE
  OBVIOUS
<1>1. PICK m \in T : \A n \in T : m <= n
  BY NatMinimum
<1>2. m # 0
  <2>1. IsPaste([n \in 0 .. 0 |-> t], t, 0)
    BY DEF IsPaste
  <2> QED
    BY <2>1
<1>3. m - 1 \in Nat /\ ~(m - 1 \in T) /\ m \in Nat
  BY <1>1, <1>2
<1>4. PICK g : IsPaste(g, t, m - 1)
  BY <1>3
<1> DEFINE h == [n \in 0 .. m |-> IF n = m THEN InserirChar(g[m - 1]) ELSE g[n]]
<1>5. ASSUME NEW n \in 0 .. m
      PROVE  h[n] = IF n = 0 THEN t ELSE InserirChar(h[n - 1])
  <2>1. CASE n = m
    <3>1. h[n] = InserirChar(g[m - 1]) /\ n # 0 /\ h[n - 1] = g[m - 1]
      BY <1>2, <1>3, <2>1
    <3> QED
      BY <3>1
  <2>2. CASE n # m
    <3>1. n \in 0 .. m - 1 /\ h[n] = g[n]
      BY <1>3, <2>2
    <3>2. g[n] = IF n = 0 THEN t ELSE InserirChar(g[n - 1])
      BY <1>4, <3>1 DEF IsPaste
    <3>3. n # 0 => h[n - 1] = g[n - 1]
      BY <1>3, <3>1
    <3> QED
      BY <3>1, <3>2, <3>3
  <2> QED
    BY <2>1, <2>2
<1>6. h = [n \in 0 .. m |-> h[n]]
  OBVIOUS
<1> HIDE DEF h
<1>7. IsPaste(h, t, m)
  BY <1>5, <1>6 DEF IsPaste
<1> QED
  BY <1>1, <1>7

LEMMA PasteKeepsLine ==
    ASSUME screen \in Geometries, NEW p \in Nat, NEW t, LineAt(t, p),
           NEW N \in Nat, NEW f, IsPaste(f, t, N)
    PROVE  LineAt(f[N], p)
<1> DEFINE T == {n \in 0 .. N : ~LineAt(f[n], p)}
<1> SUFFICES ASSUME T # {} PROVE FALSE
  BY DEF T
<1>0. T \in SUBSET Nat
  <2>1. 0 .. N \subseteq Nat
    OBVIOUS
  <2> QED
    BY <2>1 DEF T
<1>1. PICK m \in T : \A n \in T : m <= n
  <2> HIDE DEF T
  <2> QED
    BY <1>0, NatMinimum
<1>2. f[0] = t
  BY DEF IsPaste
<1>3. m - 1 \in 0 .. N /\ ~(m - 1 \in T) /\ m \in 0 .. N /\ m # 0
  BY <1>1, <1>2
<1>4. f[m] = InserirChar(f[m - 1])
  BY <1>3 DEF IsPaste
<1>5. LineAt(f[m - 1], p)
  BY <1>3
<1> HIDE DEF T
<1>6. LineAt(f[m], p)
  BY <1>4, <1>5, InsertKeepsLine
<1> QED
  BY <1>1, <1>6 DEF T
\* The invariant one step later, on the screen of before.
LEMMA TInvAfter ==
    ASSUME screen' = screen, screen \in Geometries,
           prompt_y' \in Nat, prompt_y' >= screen.terminal_y_inicial,
           LineAt(term', prompt_y'),
           clipboard_len' \in 0 .. LINHA_MAX - 1, parado' \in BOOLEAN
    PROVE  TInv'
  BY DEF TInv, LineAt, CursorIn, Columns, Cell

LEMMA TInvInit == TInit => TInv
<1> SUFFICES ASSUME TInit PROVE TInv
  OBVIOUS
<1>1. screen \in Geometries
  BY DEF TInit
<1>2. screen.terminal_y_inicial \in Nat /\ LINHA_MAX \in Nat \ {0}
  BY <1>1, ScreenFacts, TerminalAssumption
<1>3. LineAt(term, prompt_y)
  BY <1>1, <1>2, EmptyLine DEF TInit
<1>4. 0 \in 0 .. LINHA_MAX - 1
  BY <1>2
<1>5. prompt_y \in Nat /\ prompt_y >= screen.terminal_y_inicial
  BY <1>2 DEF TInit
<1>6. clipboard_len \in 0 .. LINHA_MAX - 1 /\ parado \in BOOLEAN
  BY <1>4 DEF TInit
<1> QED
  BY <1>1, <1>3, <1>5, <1>6 DEF TInv

\* A prompt on a row of the terminal, with an empty line.
LEMMA PromptStep ==
    ASSUME TInv, NEW y \in Nat, y >= screen.terminal_y_inicial, Prompt(y),
           UNCHANGED <<screen, clipboard_len>>, parado' \in BOOLEAN
    PROVE  TInv'
<1>1. screen \in Geometries /\ clipboard_len' \in 0 .. LINHA_MAX - 1
  BY DEF TInv
<1>2. PICK t : t = [x |-> cursor_base_x, y |-> y, len |-> 0, cells |-> <<>>]
  OBVIOUS
<1>3. LineAt(t, y)
  BY <1>1, <1>2, EmptyLine
<1>4. term' = t /\ prompt_y' = y
  BY <1>2 DEF Prompt
<1>5. LineAt(term', prompt_y')
  BY <1>3, <1>4
<1> QED
  BY <1>1, <1>4, <1>5, TInvAfter

\* The row of the next prompt, after a command that wrote some rows.
LEMMA NewPromptStep ==
    ASSUME TInv, NEW rows \in Nat, NewPrompt(rows),
           UNCHANGED <<screen, clipboard_len>>, parado' \in BOOLEAN
    PROVE  TInv'
<1> DEFINE y0 == term.y + rows * CHAR_Y
           y == IF RowFits(y0) THEN y0 + CHAR_Y ELSE y0
<1>1. /\ screen \in Geometries /\ screen.terminal_y_inicial \in Nat
      /\ prompt_y \in Nat /\ prompt_y >= screen.terminal_y_inicial
      /\ LineAt(term, prompt_y)
  BY ScreenFacts DEF TInv
<1>2. PICK r \in Nat : term.y = prompt_y + 24 * r
  BY <1>1 DEF LineAt, CursorIn, CHAR_Y
<1>3. y0 \in Nat /\ y0 >= screen.terminal_y_inicial
  BY <1>1, <1>2 DEF CHAR_Y
<1> HIDE DEF y0
<1>4. y \in Nat /\ y >= screen.terminal_y_inicial
  BY <1>1, <1>3 DEF CHAR_Y
<1>5. Prompt(y)
  BY DEF NewPrompt, y0
<1> HIDE DEF y
<1> QED
  BY <1>4, <1>5, PromptStep

LEMMA TInvStep ==
    TInv /\ [TNext]_tvars => TInv'
<1> SUFFICES ASSUME TInv, [TNext]_tvars PROVE TInv'
  OBVIOUS
<1>1. /\ screen \in Geometries /\ prompt_y \in Nat
      /\ prompt_y >= screen.terminal_y_inicial
      /\ LineAt(term, prompt_y)
      /\ clipboard_len \in 0 .. LINHA_MAX - 1 /\ parado \in BOOLEAN
      /\ screen.terminal_y_inicial \in Nat /\ LINHA_MAX \in Nat
  BY ScreenFacts, TerminalAssumption DEF TInv
<1>2. CASE Digitar
  <2>1. LineAt(InserirChar(term), prompt_y)
    BY <1>1, InsertKeepsLine
  <2> QED
    BY <1>1, <1>2, <2>1, TInvAfter DEF Digitar
<1>3. CASE Backspace
  <2>1. /\ term.len > 0 /\ UNCHANGED <<screen, prompt_y, clipboard_len, parado>>
        /\ term' = IF Erased(term) = term THEN term
                   ELSE [Erased(term) EXCEPT !.len = @ - 1, !.cells = Front(@)]
    BY <1>3 DEF Backspace
  <2>2. Erased(term) # term
    BY <1>1, <2>1, ErasedIsLast
  <2>3. PICK e : e = Erased(term)
    OBVIOUS
  <2>4. term' = [e EXCEPT !.len = @ - 1, !.cells = Front(@)]
    BY <2>1, <2>2, <2>3
  <2>5. LineAt([e EXCEPT !.len = @ - 1, !.cells = Front(@)], prompt_y)
    BY <1>1, <2>1, <2>3, BackspaceKeepsLine
  <2>6. LineAt(term', prompt_y')
    BY <2>1, <2>4, <2>5
  <2> QED
    BY <1>1, <2>1, <2>6, TInvAfter
<1>4. CASE Copiar
  <2>1. term.len \in 0 .. LINHA_MAX - 1
    BY <1>1 DEF LineAt
  <2> QED
    BY <1>1, <1>4, <2>1, TInvAfter DEF Copiar
<1>5. CASE Colar
  <2>1. PICK N : N = clipboard_len
    OBVIOUS
  <2>2. N \in Nat
    BY <1>1, <2>1
  <2> DEFINE f == CHOOSE f : IsPaste(f, term, N)
  <2>3. IsPaste(f, term, N)
    BY <2>2, PasteExists
  <2>4. term' = f[N] /\ UNCHANGED <<screen, prompt_y, clipboard_len, parado>>
    BY <1>5, <2>1 DEF Colar, IsPaste
  <2> HIDE DEF f
  <2>5. LineAt(f[N], prompt_y)
    BY <1>1, <2>2, <2>3, PasteKeepsLine
  <2>6. LineAt(term', prompt_y')
    BY <2>4, <2>5
  <2> QED
    BY <1>1, <2>4, <2>6, TInvAfter
<1>6. CASE LimparTerminal
  BY <1>1, <1>6, PromptStep DEF LimparTerminal
<1>7. CASE EnterSemComando
  <2>1. NewPrompt(0) /\ 0 \in Nat /\ UNCHANGED <<screen, clipboard_len, parado>>
    BY <1>7 DEF EnterSemComando
  <2> QED
    BY <1>1, <2>1, NewPromptStep
<1>8. CASE EnterComando
  <2>1. PICK c \in Commands : \E rows \in c.rows : NewPrompt(rows)
    BY <1>8 DEF EnterComando
  <2>2. PICK rows \in c.rows : NewPrompt(rows)
    BY <2>1
  <2>3. rows \in Nat
    BY <2>1, <2>2 DEF Commands
  <2>4. UNCHANGED <<screen, clipboard_len, parado>>
    BY <1>8 DEF EnterComando
  <2> QED
    BY <1>1, <2>2, <2>3, <2>4, NewPromptStep
<1>9. CASE EnterClear
  BY <1>1, <1>9, PromptStep DEF EnterClear, LimparTerminal
<1>10. CASE EnterExit
  BY <1>1, <1>10, TInvAfter DEF EnterExit
<1>11. CASE UNCHANGED tvars
  BY <1>1, <1>11, TInvAfter DEF tvars
<1> QED
  BY <1>2, <1>3, <1>4, <1>5, <1>6, <1>7, <1>8, <1>9, <1>10, <1>11 DEF TNext

\* The cells of the line are numbered from the prompt on, in every state: the
\* invariant the terminal's properties rest on.
THEOREM TInvAlways == TSpec => []TInv
<1> QED
  BY TInvInit, TInvStep, PTL DEF TSpec

LEMMA TInvTypes == TInv => TermTypeOK
<1> SUFFICES ASSUME TInv PROVE TermTypeOK
  OBVIOUS
<1> QED
  BY DEF TInv, LineAt, TermTypeOK

\* The line and the clipboard fit their buffers of LINHA_MAX bytes, with room
\* for the terminator, whatever is typed, copied and pasted.
THEOREM TerminalTypeCorrect == TSpec => []TermTypeOK
<1> QED
  BY TInvAlways, TInvTypes, PTL
\* Where cell q of the line is, and in which row at most.
LEMMA CellBounds ==
    ASSUME screen \in Geometries, NEW p \in Nat, NEW q \in Nat, q >= 13
    PROVE  /\ q % Columns \in Nat /\ q \div Columns \in Nat
           /\ q = Columns * (q \div Columns) + (q % Columns)
           /\ MARGEM_X <= Cell(p, q)[1]
           /\ Cell(p, q)[1] + CHAR_X < screen.width - MARGEM_X
           /\ p <= Cell(p, q)[2]
           /\ Cell(p, q)[2] = p => cursor_base_x <= Cell(p, q)[1]
<1>1. /\ Columns \in Nat /\ Columns >= 13 /\ screen.width \in Nat
      /\ 16 * Columns < screen.width - 100
  BY ScreenFacts DEF CHAR_X, MARGEM_X
<1>2. PICK d, m : d = q \div Columns /\ m = q % Columns
  OBVIOUS
<1>3. /\ d \in Int /\ m \in 0 .. Columns - 1 /\ q = (Columns * d) + m
  <2>1. Columns \in Nat \ {0}
    BY <1>1
  <2> QED
    BY <1>2, <2>1, DivMod
<1>4. d >= 0
  <2>1. Columns \in Nat \ {0} /\ 0 * Columns <= q
    BY <1>1
  <2>2. 0 <= q \div Columns <=> 0 * Columns <= q
    BY <2>1, DivFloor
  <2> QED
    BY <1>2, <2>1, <2>2
<1>5. Cell(p, q)[1] = 50 + 16 * m /\ Cell(p, q)[2] = p + 24 * d
  BY <1>2 DEF Cell, MARGEM_X, CHAR_X, CHAR_Y
<1>6. 50 <= 50 + 16 * m /\ (50 + 16 * m) + 16 < screen.width - 50
  BY <1>1, <1>3
<1>7. p <= p + 24 * d
  BY <1>3, <1>4
<1>8. p + 24 * d = p => 258 <= 50 + 16 * m
  <2> SUFFICES ASSUME p + 24 * d = p PROVE 258 <= 50 + 16 * m
    OBVIOUS
  <2>1. d = 0
    BY <1>3
  <2>2. m = q
    BY <1>1, <1>3, <2>1
  <2> QED
    BY <2>2
<1>9. d \in Nat /\ m \in Nat
  BY <1>1, <1>3, <1>4
<1>10. MARGEM_X = 50 /\ CHAR_X = 16 /\ cursor_base_x = 258
  BY DEF MARGEM_X, CHAR_X, cursor_base_x, PROMPT
<1>11. /\ q % Columns \in Nat /\ q \div Columns \in Nat
       /\ q = Columns * (q \div Columns) + (q % Columns)
  BY <1>2, <1>3, <1>9
<1> QED
  BY <1>5, <1>6, <1>7, <1>8, <1>10, <1>11

LEMMA TInvLine == TInv => LineOnScreen
<1> SUFFICES ASSUME TInv PROVE LineOnScreen
  OBVIOUS
<1>1. /\ screen \in Geometries /\ prompt_y \in Nat
      /\ prompt_y >= screen.terminal_y_inicial
      /\ LineAt(term, prompt_y)
  BY DEF TInv
<1>2. /\ term.len \in Nat /\ term.x \in Nat /\ term.y \in Nat
      /\ term.cells \in Seq(Nat \X Nat) /\ Len(term.cells) = term.len
      /\ DOMAIN term.cells = 1 .. term.len
      /\ \A k \in 1 .. term.len : term.cells[k] = Cell(prompt_y, 12 + k)
  <2>1. term.len \in 0 .. LINHA_MAX - 1 /\ LINHA_MAX \in Nat
    BY <1>1, TerminalAssumption DEF LineAt
  <2> QED
    BY <1>1, <2>1 DEF LineAt
<1>3. ASSUME NEW k \in DOMAIN term.cells, NEW l \in DOMAIN term.cells, k # l
      PROVE  term.cells[k] # term.cells[l]
  <2>0. k \in 1 .. term.len /\ l \in 1 .. term.len
    BY <1>2, <1>3
  <2>1. 12 + k \in Nat /\ 12 + k >= 13 /\ 12 + l \in Nat /\ 12 + l >= 13
    BY <2>0
  <2>2. /\ 12 + k = Columns * ((12 + k) \div Columns) + ((12 + k) % Columns)
        /\ 12 + l = Columns * ((12 + l) \div Columns) + ((12 + l) % Columns)
        /\ (12 + k) \div Columns \in Nat /\ (12 + k) % Columns \in Nat
        /\ (12 + l) \div Columns \in Nat /\ (12 + l) % Columns \in Nat
    BY <1>1, <2>1, CellBounds
  <2>3. Cell(prompt_y, 12 + k) = Cell(prompt_y, 12 + l)
          => /\ (12 + k) \div Columns = (12 + l) \div Columns
             /\ (12 + k) % Columns = (12 + l) % Columns
    <3>1. PICK dk, mk, dl, ml :
             /\ dk = (12 + k) \div Columns /\ mk = (12 + k) % Columns
             /\ dl = (12 + l) \div Columns /\ ml = (12 + l) % Columns
      OBVIOUS
    <3>2. /\ Cell(prompt_y, 12 + k) = <<50 + 16 * mk, prompt_y + 24 * dk>>
          /\ Cell(prompt_y, 12 + l) = <<50 + 16 * ml, prompt_y + 24 * dl>>
      BY <3>1 DEF Cell, MARGEM_X, CHAR_X, CHAR_Y
    <3>3. 50 + 16 * mk = 50 + 16 * ml => mk = ml
      BY <2>2, <3>1
    <3>4. prompt_y + 24 * dk = prompt_y + 24 * dl => dk = dl
      BY <1>1, <2>2, <3>1
    <3> QED
      BY <3>1, <3>2, <3>3, <3>4
  <2>4. 12 + k # 12 + l
    BY <1>3, <2>0
  <2> QED
    BY <1>2, <2>0, <2>2, <2>3, <2>4
<1>4. ASSUME NEW k \in 1 .. term.len
      PROVE  LET c == Cell(prompt_y, 12 + k)
             IN  /\ MARGEM_X <= c[1] /\ c[1] + CHAR_X < screen.width - MARGEM_X
                 /\ prompt_y <= c[2] /\ (c[2] = prompt_y => cursor_base_x <= c[1])
                 /\ prompt_y + CHAR_Y <= screen.height => c[2] + CHAR_Y <= screen.height
  <2> DEFINE q == 12 + k
  <2>1. q \in Nat /\ q >= 13 /\ q <= 12 + term.len
    BY <1>2
  <2>2. PICK r \in Nat, c \in 0 .. Columns : CursorIn(term, prompt_y, r, c)
    BY <1>1 DEF LineAt
  <2>3. /\ Columns \in Nat \ {0} /\ screen.height \in Nat
        /\ r * Columns + c = 13 + term.len /\ term.y = prompt_y + 24 * r
        /\ (r > 0 /\ prompt_y + 24 <= screen.height => term.y + 24 <= screen.height)
    BY <1>1, <2>2, ScreenFacts DEF CursorIn, CHAR_Y
  <2> HIDE DEF q
  <2>4. q \div Columns \in Nat
    BY <1>1, <2>1, CellBounds
  <2>5. q \div Columns <= r
    <3>1. (r + 1) * Columns = r * Columns + Columns /\ r * Columns \in Int
      BY <2>3
    <3>2. ~((r + 1) * Columns <= q)
      BY <1>2, <2>1, <2>3, <3>1
    <3>3. ~(r + 1 <= q \div Columns)
      <4>1. r + 1 \in Int /\ q \in Int
        BY <2>1
      <4> QED
        BY <2>3, <3>2, <4>1, DivFloor
    <3> QED
      BY <2>4, <3>3
  <2>6. Cell(prompt_y, q)[2] = prompt_y + 24 * (q \div Columns)
    BY DEF Cell, CHAR_Y
  <2>7. prompt_y + 24 <= screen.height
          => prompt_y + 24 * (q \div Columns) + 24 <= screen.height
    <3>1. PICK d \in Nat : d = q \div Columns
      BY <2>4
    <3>2. CASE d = 0
      BY <1>1, <3>1, <3>2
    <3>3. CASE d > 0
      <4>1. r > 0 /\ 24 * d <= 24 * r
        BY <2>5, <3>1, <3>3
      <4> QED
        BY <1>1, <2>3, <3>1, <4>1
    <3> QED
      BY <3>2, <3>3
  <2>8. prompt_y + CHAR_Y <= screen.height
          => Cell(prompt_y, q)[2] + CHAR_Y <= screen.height
    BY <2>6, <2>7 DEF CHAR_Y
  <2> QED
    BY <1>1, <2>1, <2>8, CellBounds DEF q
<1>5. term.len > 0 => <<Erased(term).x, Erased(term).y>> = Last(term.cells)
  <2> SUFFICES ASSUME term.len > 0
               PROVE  <<Erased(term).x, Erased(term).y>> = Last(term.cells)
    OBVIOUS
  <2>1. <<Erased(term).x, Erased(term).y>> = Cell(prompt_y, 12 + term.len)
    BY <1>1, ErasedIsLast
  <2>2. Last(term.cells) = term.cells[term.len] /\ term.len \in 1 .. term.len
    BY <1>2 DEF Last
  <2> QED
    BY <1>2, <2>1, <2>2
<1>6. \A c \in CellsOf(term) : \E k \in 1 .. term.len : c = Cell(prompt_y, 12 + k)
  BY <1>2 DEF CellsOf
<1> QED
  BY <1>3, <1>4, <1>5, <1>6 DEF LineOnScreen

\* The line in the buffer is the line on the screen, on every screen: the cell
\* backspace erases is the last character's, through wraps and prompts moved.
THEOREM LineAlwaysOnScreen == TSpec => []LineOnScreen
<1> QED
  BY TInvAlways, TInvLine, PTL
(***************************************************************************)
(* HEADER.  Everything drawn is one of fifty rectangles whose places are    *)
(* functions of the frame's width (HeaderShapes), or a character of the     *)
(* prompt.  So it is enough to compare these with one another, with the     *)
(* frame, and with the rows of the terminal, which begin below them all.    *)
(***************************************************************************)

LogoRect == Rect(start_x, logo_y, logo_width, logo_height)
RowRect(n) == Rect(art_x + (n \div lrows) * (let_w + let_gap),
                   art_y + (n % lrows) * blk_h, let_w, blk_h)
SepRect == Rect(MARGEM_X, sep_y, frame.width - 2 * MARGEM_X, 1)
PromptRect(n) == Rect(MARGEM_X + n * CHAR_X, text_y, CHAR_X, CHAR_Y)
HeaderShapes == {LogoRect, SepRect} \cup {RowRect(n) : n \in 0 .. 47}
PromptShapes == {PromptRect(n) : n \in 0 .. 12}

HeadInv ==
    /\ frame \in Frames /\ screen = ScreenOf(frame)
    /\ done \in Nat
    /\ drawing = "letters" => done < 48
    /\ drawing = "prompt" => done < 13
    /\ drawing = "background" => shapes = {}
    /\ shapes \subseteq HeaderShapes
    /\ \/ shapes = {} /\ drawn \in {Rect(0, 0, 1, 1), Rect(0, 0, frame.width, frame.height)}
       \/ drawn \in HeaderShapes \cup PromptShapes

LEMMA FrameFacts ==
    ASSUME frame \in Frames
    PROVE  /\ frame.fb \in Nat /\ frame.pitch \in Nat
           /\ frame.width \in Nat /\ frame.height \in Nat
           /\ frame.width >= 320 /\ frame.height >= 56
           /\ start_x \in Nat /\ start_x >= 20
           /\ frame.width >= 644 => start_x + 624 <= frame.width
<1>1. /\ frame.fb \in Nat /\ frame.pitch \in Nat /\ frame.width \in Nat
      /\ frame.height \in Nat /\ frame.height >= 56
  BY FramesAssumption
<1>2. ScreenOf(frame).width = frame.width
  BY DEF ScreenOf
<1>3. frame.width >= 320
  BY <1>2, ScreensAssumption, TerminalAssumption
<1>4. total_header_w = 624
  BY DEF total_header_w, logo_width, header_gap, let_w, let_gap, lcols, blk_w
<1> DEFINE w == frame.width
<1>5. start_x = IF (w - 624) \div 2 < 20 THEN 20 ELSE (w - 624) \div 2
  BY <1>4 DEF start_x
<1>6. w \in Nat
  BY <1>1
<1> HIDE DEF w
<1>7. start_x \in Nat /\ start_x >= 20 /\ (w >= 644 => start_x + 624 <= w)
  BY <1>5, <1>6
<1> QED
  BY <1>1, <1>3, <1>7 DEF w

\* The rectangles of the header in numbers.
LEMMA ShapeBounds ==
    ASSUME frame \in Frames
    PROVE  /\ LogoRect = [left |-> start_x, top |-> 20,
                          right |-> start_x + 250, bottom |-> 265]
           /\ SepRect = [left |-> 50, top |-> 280,
                         right |-> frame.width - 50, bottom |-> 281]
           /\ \A n \in 0 .. 47 :
                 RowRect(n) = [left |-> start_x + 300 + 84 * (n \div 12),
                               top |-> 94 + 8 * (n % 12),
                               right |-> start_x + 372 + 84 * (n \div 12),
                               bottom |-> 102 + 8 * (n % 12)]
           /\ \A n \in 0 .. 12 :
                 PromptRect(n) = [left |-> 50 + 16 * n, top |-> 295,
                                  right |-> 66 + 16 * n, bottom |-> 319]
<1>1. start_x \in Nat /\ frame.width \in Nat
  BY FrameFacts
<1>2. /\ let_w = 72 /\ let_h = 96 /\ art_x = start_x + 300 /\ sep_y = 280 /\ text_y = 295
      /\ art_y = 94
  <2>1. let_w = 72 /\ let_h = 96 /\ sep_y = 280 /\ text_y = 295
    BY DEF let_w, let_h, lcols, lrows, blk_w, blk_h, sep_y, text_y, logo_y, logo_height
  <2>2. (245 - 96) \div 2 = 74
    OBVIOUS
  <2>3. art_y = 94
    BY <2>1, <2>2 DEF art_y, logo_y, logo_height
  <2>4. art_x = start_x + 300
    BY <1>1 DEF art_x, logo_width, header_gap
  <2> QED
    BY <2>1, <2>3, <2>4
<1>3. LogoRect = [left |-> start_x, top |-> 20, right |-> start_x + 250, bottom |-> 265]
  BY DEF LogoRect, Rect, logo_y, logo_width, logo_height
<1>4. SepRect = [left |-> 50, top |-> 280, right |-> frame.width - 50, bottom |-> 281]
  BY <1>1, <1>2 DEF SepRect, Rect, MARGEM_X
<1>5. ASSUME NEW n \in 0 .. 47
      PROVE  RowRect(n) = [left |-> start_x + 300 + 84 * (n \div 12),
                           top |-> 94 + 8 * (n % 12),
                           right |-> start_x + 372 + 84 * (n \div 12),
                           bottom |-> 102 + 8 * (n % 12)]
  <2>1. PICK d, m : d = n \div 12 /\ m = n % 12
    OBVIOUS
  <2>2. d \in Int /\ m \in Int
    BY <2>1
  <2>3. /\ art_x + d * (72 + 12) = start_x + 300 + 84 * d
        /\ start_x + 300 + 84 * d + 72 = start_x + 372 + 84 * d
        /\ 94 + m * 8 = 94 + 8 * m /\ 94 + 8 * m + 8 = 102 + 8 * m
    BY <1>1, <1>2, <2>2
  <2> QED
    BY <1>2, <2>1, <2>3 DEF RowRect, Rect, lrows, let_gap, blk_h
<1>6. ASSUME NEW n \in 0 .. 12
      PROVE  PromptRect(n) = [left |-> 50 + 16 * n, top |-> 295,
                              right |-> 66 + 16 * n, bottom |-> 319]
  BY <1>2 DEF PromptRect, Rect, MARGEM_X, CHAR_X, CHAR_Y
<1> QED
  BY <1>3, <1>4, <1>5, <1>6

\* A row of a letter lies beside the logo, above the separator.
LEMMA RowPlace ==
    ASSUME NEW n \in 0 .. 47
    PROVE  /\ n \div 12 \in 0 .. 3 /\ n % 12 \in 0 .. 11
           /\ n = 12 * (n \div 12) + (n % 12)
  OBVIOUS

\* No two shapes of the header cover each other, and the prompt lies below all.
LEMMA ShapesApart ==
    ASSUME frame \in Frames, NEW s \in HeaderShapes
    PROVE  /\ s.left \in Nat /\ s.right \in Nat /\ s.top \in Nat
           /\ s.bottom \in 1 .. 281 /\ s.right >= 1
           /\ frame.width >= 644 => s.right <= frame.width
           /\ \A t \in HeaderShapes : s = t \/ Apart(s, t)
<1>1. start_x \in Nat /\ frame.width \in Nat /\ frame.width >= 320
      /\ (frame.width >= 644 => start_x + 624 <= frame.width)
  BY FrameFacts
<1> DEFINE Row(n) == [left |-> start_x + 300 + 84 * (n \div 12),
                      top |-> 94 + 8 * (n % 12),
                      right |-> start_x + 372 + 84 * (n \div 12),
                      bottom |-> 102 + 8 * (n % 12)]
           Logo == [left |-> start_x, top |-> 20, right |-> start_x + 250, bottom |-> 265]
           Sep == [left |-> 50, top |-> 280, right |-> frame.width - 50, bottom |-> 281]
<1>2. LogoRect = Logo /\ SepRect = Sep /\ \A n \in 0 .. 47 : RowRect(n) = Row(n)
  BY ShapeBounds
<1>3. \A t \in HeaderShapes : t = Logo \/ t = Sep \/ \E n \in 0 .. 47 : t = Row(n)
  BY <1>2 DEF HeaderShapes
<1>4. ASSUME NEW n \in 0 .. 47
      PROVE  /\ Row(n).left \in Nat /\ Row(n).right \in Nat
             /\ Row(n).top \in Nat /\ Row(n).bottom \in 1 .. 190
             /\ Row(n).left >= start_x + 300 /\ Row(n).right <= start_x + 624
             /\ Row(n).right >= 1
  BY <1>1, RowPlace
<1>5. ASSUME NEW n \in 0 .. 47, NEW k \in 0 .. 47
      PROVE  Row(n) = Row(k) \/ Apart(Row(n), Row(k))
  <2>1. PICK d, m, e, p : d = n \div 12 /\ m = n % 12 /\ e = k \div 12 /\ p = k % 12
    OBVIOUS
  <2>2. d \in 0 .. 3 /\ m \in 0 .. 11 /\ e \in 0 .. 3 /\ p \in 0 .. 11
    BY <2>1, RowPlace
  <2>3. CASE d = e /\ m = p
    BY <2>1, <2>3
  <2>4. CASE d # e
    <3>1. d + 1 <= e \/ e + 1 <= d
      BY <2>2, <2>4
    <3>2. \/ start_x + 372 + 84 * d <= start_x + 300 + 84 * e
          \/ start_x + 372 + 84 * e <= start_x + 300 + 84 * d
      BY <1>1, <2>2, <3>1
    <3> QED
      BY <2>1, <3>2 DEF Apart
  <2>5. CASE m # p
    <3>1. m + 1 <= p \/ p + 1 <= m
      BY <2>2, <2>5
    <3>2. 102 + 8 * m <= 94 + 8 * p \/ 102 + 8 * p <= 94 + 8 * m
      BY <2>2, <3>1
    <3> QED
      BY <2>1, <3>2 DEF Apart
  <2> QED
    BY <2>3, <2>4, <2>5
<1>6. ASSUME NEW n \in 0 .. 47
      PROVE  /\ Apart(Row(n), Logo) /\ Apart(Logo, Row(n))
             /\ Apart(Row(n), Sep) /\ Apart(Sep, Row(n))
  <2>1. Row(n).left >= Logo.right /\ Row(n).bottom <= Sep.top
    BY <1>1, <1>4
  <2> QED
    BY <2>1 DEF Apart
<1>7. Apart(Logo, Sep) /\ Apart(Sep, Logo)
  BY DEF Apart
<1>8. /\ Logo.left \in Nat /\ Logo.right \in Nat /\ Logo.top \in Nat
      /\ Logo.bottom \in 1 .. 281 /\ Logo.right >= 1
      /\ frame.width >= 644 => Logo.right <= frame.width
  BY <1>1
<1>9. /\ Sep.left \in Nat /\ Sep.right \in Nat /\ Sep.top \in Nat
      /\ Sep.bottom \in 1 .. 281 /\ Sep.right >= 1 /\ Sep.right <= frame.width
  BY <1>1
<1>10. \A n \in 0 .. 47 : /\ Row(n).bottom \in 1 .. 281
                          /\ frame.width >= 644 => Row(n).right <= frame.width
  BY <1>1, <1>4
<1> HIDE DEF Row, Logo, Sep
<1>11. \A t \in HeaderShapes : s = t \/ Apart(s, t)
  BY <1>3, <1>5, <1>6, <1>7
<1> QED
  BY <1>3, <1>4, <1>8, <1>9, <1>10, <1>11

LEMMA HeadInvInit == HInit => HeadInv
  BY DEF HInit, HeadInv

LEMMA ShapeKeeps ==
    ASSUME HeadInv, NEW r \in HeaderShapes, NEW next, NEW n \in Nat,
           Shape(r, next, n), next # "background",
           next = "letters" => n < 48, next = "prompt" => n < 13
    PROVE  HeadInv'
<1>1. UNCHANGED frame /\ UNCHANGED screen
  BY DEF Shape, tvars
<1>2. HeaderShapes' = HeaderShapes
  BY <1>1 DEF HeaderShapes, LogoRect, SepRect, RowRect, Rect, art_x, start_x
<1>3. ScreenOf(frame)' = ScreenOf(frame)
  BY <1>1 DEF ScreenOf
<1>4. /\ frame' \in Frames /\ screen' = ScreenOf(frame)' /\ done' \in Nat
      /\ drawing' = "letters" => done' < 48
      /\ drawing' = "prompt" => done' < 13
      /\ drawing' # "background"
  BY <1>1, <1>3 DEF HeadInv, Shape
<1>5. shapes' \subseteq HeaderShapes' /\ drawn' \in HeaderShapes'
  BY <1>2 DEF HeadInv, Shape
<1> QED
  BY <1>4, <1>5 DEF HeadInv

LEMMA HeadInvStep == HeadInv /\ [HNext]_<<hvars, tvars>> => HeadInv'
<1> SUFFICES ASSUME HeadInv, [HNext]_<<hvars, tvars>> PROVE HeadInv'
  OBVIOUS
<1>0. ASSUME UNCHANGED <<frame, screen>>
      PROVE  /\ HeaderShapes' = HeaderShapes /\ PromptShapes' = PromptShapes
             /\ ScreenOf(frame)' = ScreenOf(frame)
  BY <1>0 DEF HeaderShapes, LogoRect, SepRect, RowRect, Rect, art_x, start_x,
              PromptShapes, PromptRect, ScreenOf
<1>1. CASE FundoPreto
  <2>1. UNCHANGED <<frame, screen, done, shapes>> /\ drawing' = "logo"
        /\ drawn' = Rect(0, 0, frame.width, frame.height) /\ drawing = "background"
    BY <1>1 DEF FundoPreto, tvars
  <2>2. shapes = {} /\ shapes' = {}
    BY <2>1 DEF HeadInv
  <2>3. frame' \in Frames /\ screen' = ScreenOf(frame)' /\ done' \in Nat
    BY <1>0, <2>1 DEF HeadInv
  <2>4. drawn' = Rect(0, 0, frame.width, frame.height)'
    BY <2>1 DEF Rect
  <2> QED
    BY <2>1, <2>2, <2>3, <2>4 DEF HeadInv
<1>2. CASE DesenharLogo
  <2>1. LogoRect \in HeaderShapes /\ Shape(LogoRect, "letters", 0)
    BY <1>2 DEF DesenharLogo, HeaderShapes, LogoRect
  <2> QED
    BY <2>1, ShapeKeeps
<1>3. CASE LetterRow
  <2>1. done \in 0 .. 47
    BY <1>3 DEF HeadInv, LetterRow
  <2>2. RowRect(done) \in HeaderShapes
    BY <2>1 DEF HeaderShapes
  <2>3. letters * lrows = 48
    BY DEF letters, lrows
  <2>4. \/ done + 1 < 48 /\ Shape(RowRect(done), "letters", done + 1)
        \/ Shape(RowRect(done), "separator", 0)
    BY <1>3, <2>3 DEF LetterRow, RowRect
  <2>5. done + 1 \in Nat /\ 0 \in Nat
    BY <2>1
  <2> QED
    BY <2>2, <2>4, <2>5, ShapeKeeps
<1>4. CASE Separator
  <2>1. SepRect \in HeaderShapes /\ Shape(SepRect, "prompt", 0)
    BY <1>4 DEF Separator, HeaderShapes, SepRect
  <2> QED
    BY <2>1, ShapeKeeps
<1>5. CASE PromptChar
  <2>1. done \in 0 .. 12 /\ UNCHANGED <<frame, screen, shapes>>
    BY <1>5 DEF HeadInv, PromptChar, tvars
  <2>2. drawn' \in PromptShapes
    BY <1>5, <2>1 DEF PromptChar, PromptShapes, PromptRect
  <2>3. done' \in Nat /\ drawing' # "letters" /\ (drawing' = "prompt" => done' < 13)
        /\ drawing' # "background"
    BY <1>5, <2>1 DEF PromptChar, PROMPT_LEN
  <2> QED
    BY <1>0, <2>1, <2>2, <2>3 DEF HeadInv
<1>6. CASE TNext /\ UNCHANGED hvars
  <2>1. UNCHANGED screen
    BY <1>6 DEF TNext, Digitar, Backspace, Copiar, Colar, LimparTerminal,
                EnterSemComando, EnterComando, EnterClear, EnterExit
  <2>2. UNCHANGED <<frame, drawing, done, drawn, shapes>>
    BY <1>6 DEF hvars
  <2> QED
    BY <1>0, <2>1, <2>2 DEF HeadInv, Rect
<1>7. CASE UNCHANGED <<hvars, tvars>>
  <2>1. UNCHANGED <<frame, drawing, done, drawn, shapes, screen>>
    BY <1>7 DEF hvars, tvars
  <2> QED
    BY <1>0, <2>1 DEF HeadInv, Rect
<1> QED
  BY <1>1, <1>2, <1>3, <1>4, <1>5, <1>6, <1>7 DEF HNext

LEMMA HeaderRefinesTerminal == HSpec => TSpec
<1>1. HInit => TInit
  BY DEF HInit
<1>2. [HNext]_<<hvars, tvars>> => [TNext]_tvars
  BY DEF HNext, FundoPreto, DesenharLogo, LetterRow, Separator, PromptChar, Shape
<1> QED
  BY <1>1, <1>2, PTL DEF HSpec, TSpec

THEOREM HeadInvAlways == HSpec => []HeadInv
<1> QED
  BY HeadInvInit, HeadInvStep, PTL DEF HSpec

\* A rectangle inside the screen is inside the memory of its frame.
LEMMA EndInMemory ==
    ASSUME frame \in Frames, NEW r, r.right \in Nat, r.bottom \in Nat,
           r.right <= frame.width, r.bottom <= frame.height
    PROVE  EndOf(r) <= frame.fb + frame.pitch * frame.height
<1>1. /\ frame.fb \in Nat /\ frame.pitch \in Nat /\ frame.width \in Nat
      /\ frame.height \in Nat /\ frame.pitch % 4 = 0
      /\ frame.width <= frame.pitch \div 4
  BY FramesAssumption DEF PIXEL
<1> PICK p, c, b, h : /\ p = frame.pitch \div 4 /\ c = r.right
                      /\ b = r.bottom /\ h = frame.height
  OBVIOUS
<1>2. /\ p \in Nat /\ frame.pitch = 4 * p
      /\ c \in Nat /\ b \in Nat /\ h \in Nat /\ c <= p /\ b <= h
  BY <1>1
<1>3. (b - 1) * p + c <= h * p
  <2>1. \A u, v \in Nat : u <= v => u * p <= v * p
    BY <1>2
  <2>2. b * p <= h * p
    BY <1>2, <2>1
  <2>3. (b - 1) * p = b * p - p /\ b * p \in Int
    BY <1>2
  <2> QED
    BY <1>2, <2>2, <2>3
<1>4. 4 * (h * p) = frame.pitch * h
  BY <1>2
<1>5. (b - 1) * p \in Int /\ h * p \in Int
  BY <1>2
<1>6. EndOf(r) = frame.fb + 4 * ((b - 1) * p + c)
  BY DEF EndOf, PIXEL
<1>7. PICK below, all \in Int : below = (b - 1) * p /\ all = h * p
  BY <1>5
<1>8. 4 * (below + c) <= 4 * all
  <2>1. below + c <= all
    BY <1>3, <1>7
  <2> QED
    BY <1>2, <1>7, <2>1
<1>9. EndOf(r) = frame.fb + 4 * (below + c) /\ 4 * all = frame.pitch * frame.height
  BY <1>4, <1>6, <1>7
<1> QED
  BY <1>1, <1>2, <1>7, <1>8, <1>9

LEMMA HeadInFrame == HeadInv => HeaderInFrame
<1> SUFFICES ASSUME HeadInv, HoldsHeader
             PROVE  /\ drawn.right <= frame.width /\ drawn.bottom <= frame.height
                    /\ EndOf(drawn) <= frame.fb + frame.pitch * frame.height
                    /\ frame.fb + frame.pitch * frame.height < SCREEN_SPACE
  BY DEF HeaderInFrame
<1>1. frame \in Frames /\ frame.width >= 644 /\ frame.height >= 319
      /\ frame.width \in Nat /\ frame.height \in Nat
  BY FrameFacts DEF HeadInv, HoldsHeader
<1>2. /\ drawn.right \in Nat /\ drawn.bottom \in Nat
      /\ drawn.right <= frame.width /\ drawn.bottom <= frame.height
  <2>1. CASE drawn \in {Rect(0, 0, 1, 1), Rect(0, 0, frame.width, frame.height)}
    BY <1>1, <2>1 DEF Rect
  <2>2. CASE drawn \in HeaderShapes
    BY <1>1, <2>2, ShapesApart
  <2>3. CASE drawn \in PromptShapes
    <3>1. PICK n \in 0 .. 12 : drawn = PromptRect(n)
      BY <2>3 DEF PromptShapes
    <3>2. drawn = [left |-> 50 + 16 * n, top |-> 295, right |-> 66 + 16 * n, bottom |-> 319]
      BY <1>1, <3>1, ShapeBounds
    <3> QED
      BY <1>1, <3>2
  <2> QED
    BY <2>1, <2>2, <2>3 DEF HeadInv
<1>3. EndOf(drawn) <= frame.fb + frame.pitch * frame.height
  BY <1>1, <1>2, EndInMemory
<1>4. frame.fb + frame.pitch * frame.height < SCREEN_SPACE
  BY <1>1, FramesAssumption
<1> QED
  BY <1>2, <1>3, <1>4

\* In every frame wide and high enough for it, the header lies in the frame and
\* no store of it leaves the frame's memory or the address space.
THEOREM HeaderAlwaysInFrame == HSpec => []HeaderInFrame
<1> QED
  BY HeadInvAlways, HeadInFrame, PTL

LEMMA HeadKept == HeadInv /\ TInv /\ LineOnScreen => HeaderKept
<1> SUFFICES ASSUME HeadInv, TInv, LineOnScreen, NEW s \in shapes
             PROVE  /\ s = drawn \/ Apart(s, drawn)
                    /\ s.bottom <= screen.terminal_y_inicial /\ s.bottom <= prompt_y
                    /\ \A c \in CellsOf(term) \cup {<<term.x, term.y>>} :
                          Apart(s, CellRect(c))
  BY DEF HeaderKept
<1>1. frame \in Frames /\ s \in HeaderShapes
  BY DEF HeadInv
<1>2. /\ s.bottom \in 1 .. 281
      /\ \A t \in HeaderShapes : s = t \/ Apart(s, t)
  BY <1>1, ShapesApart
<1>3. s = drawn \/ Apart(s, drawn)
  <2>1. CASE drawn \in HeaderShapes
    BY <1>2, <2>1
  <2>2. CASE drawn \in PromptShapes
    <3>1. PICK n \in 0 .. 12 : drawn = PromptRect(n)
      BY <2>2 DEF PromptShapes
    <3>2. drawn.top = 295
      BY <1>1, <3>1, ShapeBounds
    <3> QED
      BY <1>2, <3>2 DEF Apart
  <2> QED
    BY <2>1, <2>2 DEF HeadInv
<1>4. screen.terminal_y_inicial = 295
  BY DEF HeadInv, ScreenOf, text_y, sep_y, logo_y, logo_height
<1>5. prompt_y \in Nat /\ prompt_y >= 295
  BY <1>4 DEF TInv
<1>6. ASSUME NEW c \in CellsOf(term) \cup {<<term.x, term.y>>}
      PROVE  Apart(s, CellRect(c))
  <2>1. CASE c \in CellsOf(term)
    <3>1. prompt_y <= c[2] /\ c[2] \in Nat
      <4>1. prompt_y <= c[2]
        BY <2>1 DEF LineOnScreen
      <4>2. term.cells \in Seq(Nat \X Nat)
        BY DEF TInv, LineAt
      <4>3. c \in Nat \X Nat
        BY <2>1, <4>2 DEF CellsOf
      <4> QED
        BY <4>1, <4>3
    <3>2. s.bottom <= c[2]
      BY <1>2, <1>5, <3>1
    <3> QED
      BY <3>2 DEF Apart, CellRect, Rect
  <2>2. CASE c = <<term.x, term.y>>
    <3>1. PICK k \in Nat, col \in 0 .. Columns : CursorIn(term, prompt_y, k, col)
      BY DEF TInv, LineAt
    <3>2. term.y = prompt_y + 24 * k
      BY <3>1 DEF CursorIn, CHAR_Y
    <3>3. s.bottom <= c[2]
      BY <1>2, <1>5, <2>2, <3>2
    <3> QED
      BY <3>3 DEF Apart, CellRect, Rect
  <2> QED
    BY <2>1, <2>2
<1> QED
  BY <1>2, <1>3, <1>4, <1>5, <1>6

\* The shapes of the header do not cover one another, and the terminal never
\* writes over them: whatever is typed, pasted, cleared or run, the header stays.
THEOREM HeaderAlwaysKept == HSpec => []HeaderKept
<1>1. HSpec => []TInv
  BY HeaderRefinesTerminal, TInvAlways, PTL
<1> QED
  BY <1>1, HeadInvAlways, HeadKept, TInvLine, PTL

(***************************************************************************)
(* KEYBOARD.  The driver is a decoder: a byte takes it from one state of    *)
(* its flags to the next and may give a character.  What matters is not the *)
(* flags of now but those the bytes still waiting will leave behind: they   *)
(* must be the ones of the keys held, and the characters the bytes will     *)
(* give, in order, must be the ones expected.                               *)
(***************************************************************************)

Accents == {NENHUM, "acute", "grave", "tilde", "circumflex"}
Decoder == [shift : BOOLEAN, caps : BOOLEAN, capsDown : BOOLEAN,
            ctrl : BOOLEAN, e0 : BOOLEAN, accent : Accents]
Codes == {"E0", "SHIFT_L", "SHIFT_R", "CTRL", "CAPSLOCK", "AGUDO_CRASE",
          "TIL_CIRCUNFLEXO", "SPACE", "BACKSPACE", "ENTER", "SEMICOLON", "KP8",
          "A", "L"}
ScanBytes == [code : Codes, up : BOOLEAN]

\* The decoder after a byte, and what it gives for it.
After(s, b) ==
    LET plain == b # E0 /\ ~s.e0
    IN  [shift |-> IF plain /\ b.code \in {"SHIFT_L", "SHIFT_R"} THEN ~b.up ELSE s.shift,
         caps |-> IF plain /\ b.code = "CAPSLOCK" /\ ~b.up /\ ~s.capsDown
                  THEN ~s.caps ELSE s.caps,
         capsDown |-> IF plain /\ b.code = "CAPSLOCK" THEN ~b.up ELSE s.capsDown,
         ctrl |-> IF b # E0 /\ b.code = "CTRL" THEN ~b.up ELSE s.ctrl,
         e0 |-> b = E0,
         accent |-> IF plain /\ b.code \notin Modifiers /\ ~b.up /\ ~s.ctrl
                    THEN KeyAccent(b.code, s.shift, s.accent) ELSE s.accent]

Value(s, b) ==
    CASE b = E0 \/ b.up -> TECLA_NENHUMA
      [] b # E0 /\ ~b.up /\ s.e0 -> ExtendedKey(b.code)
      [] b # E0 /\ ~b.up /\ ~s.e0 /\ b.code \in Modifiers -> TECLA_NENHUMA
      [] b # E0 /\ ~b.up /\ ~s.e0 /\ b.code \notin Modifiers /\ s.ctrl ->
            CtrlKey(b.code)
      [] OTHER -> KeyChar(b.code, s.shift, s.caps, s.accent)

Given(v) == IF v = TECLA_NENHUMA THEN <<>> ELSE <<v>>
Chars == {Value(s, b) : s \in Decoder, b \in ScanBytes}

\* D is the decoder before and after each byte of q, and E what q has left to
\* give there.
Reads(D, E, q) ==
    /\ D \in [0 .. Len(q) -> Decoder] /\ E \in [0 .. Len(q) -> Seq(Chars)]
    /\ \A j \in 1 .. Len(q) :
          /\ D[j] = After(D[j - 1], q[j])
          /\ E[j - 1] = Given(Value(D[j - 1], q[j])) \o E[j]

\* Reading q takes the decoder from s to t and gives the characters of out.
Yields(s, q, t, out) ==
    \E D, E : /\ Reads(D, E, q)
              /\ D[0] = s /\ D[Len(q)] = t
              /\ E[0] = out /\ E[Len(q)] = <<>>

LEMMA AccentType ==
    ASSUME NEW code, NEW shift \in BOOLEAN, NEW pending
    PROVE  KeyAccent(code, shift, pending) \in Accents
  BY DEF KeyAccent, Accent, Accents, NENHUM

LEMMA AfterType ==
    ASSUME NEW s \in Decoder, NEW b \in ScanBytes
    PROVE  After(s, b) \in Decoder
<1>1. /\ s.shift \in BOOLEAN /\ s.caps \in BOOLEAN /\ s.capsDown \in BOOLEAN
      /\ s.ctrl \in BOOLEAN /\ s.e0 \in BOOLEAN /\ s.accent \in Accents
      /\ b.up \in BOOLEAN
  BY DEF Decoder, ScanBytes
<1>2. KeyAccent(b.code, s.shift, s.accent) \in Accents
  BY <1>1, AccentType
<1> QED
  BY <1>1, <1>2 DEF After, Decoder

LEMMA GivenType ==
    ASSUME NEW s \in Decoder, NEW b \in ScanBytes
    PROVE  Given(Value(s, b)) \in Seq(Chars)
<1>1. Value(s, b) \in Chars
  BY DEF Chars
<1> HIDE DEF Chars
<1> QED
  BY <1>1 DEF Given

\* No bytes leave the decoder as it is.
LEMMA YieldsNothing ==
    ASSUME NEW s \in Decoder
    PROVE  Yields(s, <<>>, s, <<>>)
<1> DEFINE D == [j \in 0 .. 0 |-> s]
           E == [j \in 0 .. 0 |-> <<>>]
<1>1. D \in [0 .. 0 -> Decoder] /\ E \in [0 .. 0 -> Seq(Chars)]
  OBVIOUS
<1>2. D[0] = s /\ E[0] = <<>> /\ Len(<<>>) = 0
  OBVIOUS
<1> HIDE DEF D, E
<1>3. Reads(D, E, <<>>)
  BY <1>1, <1>2 DEF Reads
<1> QED
  BY <1>2, <1>3 DEF Yields

LEMMA NothingYielded ==
    ASSUME NEW s, NEW t, NEW out, Yields(s, <<>>, t, out)
    PROVE  t = s /\ out = <<>>
  BY DEF Yields

LEMMA YieldsTypes ==
    ASSUME NEW s, NEW q \in Seq(ScanBytes), NEW t, NEW out, Yields(s, q, t, out)
    PROVE  s \in Decoder /\ t \in Decoder /\ out \in Seq(Chars)
<1>1. PICK D, E : Reads(D, E, q) /\ D[0] = s /\ D[Len(q)] = t /\ E[0] = out
  BY DEF Yields
<1>2. Len(q) \in Nat
  OBVIOUS
<1>3. 0 \in 0 .. Len(q) /\ Len(q) \in 0 .. Len(q)
  BY <1>2
<1> QED
  BY <1>1, <1>3 DEF Reads

LEMMA ConcatChars ==
    \A a, b, c \in Seq(Chars) : (a \o b) \o c = a \o (b \o c)
<1> SUFFICES ASSUME NEW S, S = Chars
             PROVE  \A a, b, c \in Seq(S) : (a \o b) \o c = a \o (b \o c)
  OBVIOUS
<1> QED
  BY ConcatAssociative

LEMMA ConcatBytes ==
    \A a, b, c \in Seq(ScanBytes) : (a \o b) \o c = a \o (b \o c)
<1> SUFFICES ASSUME NEW S, S = ScanBytes
             PROVE  \A a, b, c \in Seq(S) : (a \o b) \o c = a \o (b \o c)
  OBVIOUS
<1> QED
  BY ConcatAssociative

\* One byte more at the end.
LEMMA YieldsAppend ==
    ASSUME NEW s, NEW q \in Seq(ScanBytes), NEW t, NEW out, Yields(s, q, t, out),
           NEW b \in ScanBytes
    PROVE  Yields(s, Append(q, b), After(t, b), out \o Given(Value(t, b)))
<1>1. PICK D, E : /\ Reads(D, E, q) /\ D[0] = s /\ D[Len(q)] = t
                  /\ E[0] = out /\ E[Len(q)] = <<>>
  BY DEF Yields
<1>2. PICK n, x, q2 : n = Len(q) /\ x = Given(Value(t, b)) /\ q2 = Append(q, b)
  OBVIOUS
<1>3. /\ n \in Nat /\ t \in Decoder /\ x \in Seq(Chars) /\ Len(q2) = n + 1
      /\ \A j \in 1 .. n : q2[j] = q[j]
      /\ q2[n + 1] = b
  <2>0. t \in Decoder
    BY YieldsTypes
  <2>1. n \in Nat /\ t \in Decoder
    BY <1>2, <2>0
  <2>2. x \in Seq(Chars)
    BY <1>2, <2>1, GivenType
  <2> QED
    BY <1>2, <2>1, <2>2, AppendProperties
<1>4. /\ D \in [0 .. n -> Decoder] /\ E \in [0 .. n -> Seq(Chars)]
      /\ \A j \in 1 .. n : /\ D[j] = After(D[j - 1], q[j])
                           /\ E[j - 1] = Given(Value(D[j - 1], q[j])) \o E[j]
      /\ D[n] = t /\ E[n] = <<>>
  BY <1>1, <1>2 DEF Reads
<1> DEFINE D2 == [j \in 0 .. n + 1 |-> IF j = n + 1 THEN After(t, b) ELSE D[j]]
           E2 == [j \in 0 .. n + 1 |-> IF j = n + 1 THEN <<>> ELSE E[j] \o x]
<1>5. /\ \A j \in 0 .. n : D2[j] = D[j] /\ E2[j] = E[j] \o x
      /\ D2[n + 1] = After(t, b) /\ E2[n + 1] = <<>>
  BY <1>3
<1>6. D2 \in [0 .. n + 1 -> Decoder]
  <2>1. ASSUME NEW j \in 0 .. n + 1
        PROVE  (IF j = n + 1 THEN After(t, b) ELSE D[j]) \in Decoder
    BY <1>3, <1>4, AfterType
  <2> QED
    BY <2>1
<1>7. E2 \in [0 .. n + 1 -> Seq(Chars)]
  <2>1. ASSUME NEW j \in 0 .. n + 1
        PROVE  (IF j = n + 1 THEN <<>> ELSE E[j] \o x) \in Seq(Chars)
    <3>1. CASE j = n + 1
      BY <3>1
    <3>2. CASE j # n + 1
      <4>1. E[j] \in Seq(Chars)
        BY <1>3, <1>4, <3>2
      <4> QED
        BY <1>3, <3>2, <4>1, ConcatProperties
    <3> QED
      BY <3>1, <3>2
  <2> QED
    BY <2>1
<1> HIDE DEF D2, E2
<1>8. ASSUME NEW j \in 1 .. n + 1
      PROVE  /\ D2[j] = After(D2[j - 1], q2[j])
             /\ E2[j - 1] = Given(Value(D2[j - 1], q2[j])) \o E2[j]
  <2>1. CASE j \in 1 .. n
    <3>1. j - 1 \in 0 .. n /\ j \in 0 .. n /\ q2[j] = q[j]
      BY <1>3, <2>1
    <3>2. D2[j] = After(D2[j - 1], q2[j])
      BY <1>4, <1>5, <2>1, <3>1
    <3>3. PICK g : g = Given(Value(D[j - 1], q[j]))
      OBVIOUS
    <3>4. D[j - 1] \in Decoder /\ q[j] \in ScanBytes /\ E[j] \in Seq(Chars)
      BY <1>2, <1>4, <2>1, <3>1, ElementOfSeq
    <3>5. g \in Seq(Chars)
      BY <3>3, <3>4, GivenType
    <3>6. (g \o E[j]) \o x = g \o (E[j] \o x)
      <4>1. x \in Seq(Chars) /\ E[j] \in Seq(Chars)
        BY <1>3, <3>4
      <4> QED
        BY <3>5, <4>1, ConcatChars
    <3>7. E2[j - 1] = (g \o E[j]) \o x /\ E2[j] = E[j] \o x /\ D2[j - 1] = D[j - 1]
      BY <1>4, <1>5, <2>1, <3>1, <3>3
    <3> QED
      BY <3>1, <3>2, <3>3, <3>6, <3>7
  <2>2. CASE j = n + 1
    <3>1. j - 1 = n /\ n \in 0 .. n
      BY <1>3, <2>2
    <3>2. D2[n] = t /\ E2[n] = <<>> \o x /\ q2[j] = b
      BY <1>3, <1>4, <1>5, <2>2, <3>1
    <3>3. <<>> \o x = x /\ x \o <<>> = x
      BY <1>3, ConcatEmptySeq
    <3> QED
      BY <1>2, <1>5, <2>2, <3>1, <3>2, <3>3
  <2>3. j \in 1 .. n \/ j = n + 1
    BY <1>3
  <2> QED
    BY <2>1, <2>2, <2>3
<1>9. Reads(D2, E2, q2)
  BY <1>3, <1>6, <1>7, <1>8 DEF Reads
<1>10. D2[0] = s /\ E2[0] = out \o x
  <2>1. 0 \in 0 .. n
    BY <1>3
  <2> QED
    BY <1>1, <1>5, <2>1
<1> QED
  BY <1>2, <1>3, <1>5, <1>9, <1>10 DEF Yields

\* The first byte is read.
LEMMA YieldsTail ==
    ASSUME NEW s, NEW q \in Seq(ScanBytes), NEW t, NEW out, Yields(s, q, t, out),
           q # <<>>
    PROVE  \E rest \in Seq(Chars) :
              /\ out = Given(Value(s, Head(q))) \o rest
              /\ Yields(After(s, Head(q)), Tail(q), t, rest)
<1>1. PICK D, E : /\ Reads(D, E, q) /\ D[0] = s /\ D[Len(q)] = t
                  /\ E[0] = out /\ E[Len(q)] = <<>>
  BY DEF Yields
<1>2. PICK n, r : n = Len(q) - 1 /\ r = Tail(q)
  OBVIOUS
<1>3. /\ n \in Nat /\ Len(q) = n + 1 /\ Len(r) = n /\ q[1] = Head(q)
      /\ \A j \in 1 .. n : r[j] = q[j + 1]
  BY <1>2, HeadTailProperties, EmptySeq
<1>4. /\ D \in [0 .. n + 1 -> Decoder] /\ E \in [0 .. n + 1 -> Seq(Chars)]
      /\ \A j \in 1 .. n + 1 : /\ D[j] = After(D[j - 1], q[j])
                               /\ E[j - 1] = Given(Value(D[j - 1], q[j])) \o E[j]
  BY <1>1, <1>3 DEF Reads
<1> DEFINE D2 == [j \in 0 .. n |-> D[j + 1]]
           E2 == [j \in 0 .. n |-> E[j + 1]]
<1>5. \A j \in 0 .. n : D2[j] = D[j + 1] /\ E2[j] = E[j + 1]
  OBVIOUS
<1>6. D2 \in [0 .. n -> Decoder] /\ E2 \in [0 .. n -> Seq(Chars)]
  BY <1>3, <1>4
<1> HIDE DEF D2, E2
<1>7. ASSUME NEW j \in 1 .. n
      PROVE  /\ D2[j] = After(D2[j - 1], r[j])
             /\ E2[j - 1] = Given(Value(D2[j - 1], r[j])) \o E2[j]
  <2>1. /\ j + 1 \in 1 .. n + 1 /\ j - 1 \in 0 .. n /\ j \in 0 .. n
        /\ (j + 1) - 1 = j /\ (j - 1) + 1 = j
    BY <1>3
  <2>2. D2[j] = D[j + 1] /\ E2[j] = E[j + 1] /\ D2[j - 1] = D[j] /\ E2[j - 1] = E[j]
    BY <1>5, <2>1
  <2>3. /\ D[j + 1] = After(D[j], q[j + 1])
        /\ E[j] = Given(Value(D[j], q[j + 1])) \o E[j + 1]
    BY <1>4, <2>1
  <2> QED
    BY <1>3, <2>2, <2>3
<1>8. Reads(D2, E2, r)
  BY <1>3, <1>6, <1>7 DEF Reads
<1>9. /\ D2[0] = After(s, Head(q)) /\ D2[n] = t /\ E2[n] = <<>>
      /\ out = Given(Value(s, Head(q))) \o E2[0] /\ E2[0] \in Seq(Chars)
  <2>1. 1 \in 1 .. n + 1 /\ 0 \in 0 .. n /\ n \in 0 .. n
    BY <1>3
  <2>2. D2[0] = D[1] /\ E2[0] = E[1] /\ D2[n] = D[n + 1] /\ E2[n] = E[n + 1]
    BY <1>5, <2>1
  <2>3. D[1] = After(D[0], q[1]) /\ E[0] = Given(Value(D[0], q[1])) \o E[1]
    <3>1. PICK j : j = 1
      OBVIOUS
    <3>2. j \in 1 .. n + 1 /\ j - 1 = 0
      BY <2>1, <3>1
    <3>3. D[j] = After(D[j - 1], q[j]) /\ E[j - 1] = Given(Value(D[j - 1], q[j])) \o E[j]
      BY <1>4, <3>2
    <3> QED
      BY <3>1, <3>2, <3>3
  <2>4. E[1] \in Seq(Chars)
    BY <1>3, <1>4
  <2> QED
    BY <1>1, <1>3, <2>2, <2>3, <2>4
<1> QED
  BY <1>2, <1>3, <1>8, <1>9 DEF Yields
\* Bytes added one by one and together.
LEMMA AppendBytes ==
    ASSUME NEW q \in Seq(ScanBytes), NEW a \in ScanBytes, NEW b \in ScanBytes
    PROVE  /\ q \o <<a>> = Append(q, a) /\ q \o <<a, b>> = Append(Append(q, a), b)
           /\ Append(q, a) \in Seq(ScanBytes)
           /\ Append(Append(q, a), b) \in Seq(ScanBytes)
           /\ <<a>> \in Seq(ScanBytes) /\ <<a, b>> \in Seq(ScanBytes)
<1> PICK S : S = ScanBytes
  OBVIOUS
<1>1. q \in Seq(S) /\ a \in S /\ b \in S
  OBVIOUS
<1>2. <<a>> \in Seq(S) /\ <<b>> \in Seq(S) /\ <<a, b>> \in Seq(S)
  BY <1>1
<1>3. Append(q, a) = q \o <<a>> /\ Append(q, a) \in Seq(S)
  BY <1>1, AppendIsConcat, AppendProperties
<1>4. /\ Append(Append(q, a), b) = Append(q, a) \o <<b>>
      /\ Append(Append(q, a), b) \in Seq(S)
  BY <1>1, <1>3, AppendIsConcat, AppendProperties
<1>5. <<a>> \o <<b>> = <<a, b>>
  <2>1. /\ <<a>> \o <<b>> \in Seq(S) /\ Len(<<a>> \o <<b>>) = 2
        /\ \A i \in 1 .. 2 : (<<a>> \o <<b>>)[i] = IF i <= 1 THEN a ELSE <<b>>[i - 1]
    BY <1>2, ConcatProperties
  <2>2. Len(<<a, b>>) = 2 /\ <<a, b>>[1] = a /\ <<a, b>>[2] = b /\ <<b>>[1] = b
    OBVIOUS
  <2>3. \A i \in 1 .. 2 : (<<a>> \o <<b>>)[i] = <<a, b>>[i]
    BY <2>1, <2>2
  <2> QED
    BY <1>2, <2>1, <2>2, <2>3, SeqEqual
<1>6. \A x, y, z \in Seq(S) : (x \o y) \o z = x \o (y \o z)
  BY ConcatAssociative
<1>7. (q \o <<a>>) \o <<b>> = q \o (<<a>> \o <<b>>)
  BY <1>1, <1>2, <1>6
<1> QED
  BY <1>2, <1>3, <1>4, <1>5, <1>7

\* A byte with the prefix: of the keys that have one, right CTRL changes a flag.
Prefixed(s, code, up) ==
    [shift |-> s.shift, caps |-> s.caps, capsDown |-> s.capsDown,
     ctrl |-> IF code = "CTRL" THEN ~up ELSE s.ctrl, e0 |-> FALSE,
     accent |-> s.accent]
PrefixedValue(code, up) == IF up THEN TECLA_NENHUMA ELSE ExtendedKey(code)

LEMMA YieldsPrefixed ==
    ASSUME NEW s0, NEW q \in Seq(ScanBytes), NEW s, NEW out, Yields(s0, q, s, out),
           NEW code \in Codes, code # "E0", NEW up \in BOOLEAN
    PROVE  LET b == [code |-> code, up |-> up]
           IN  Yields(s0, q \o <<E0, b>>, Prefixed(s, code, up),
                      out \o Given(PrefixedValue(code, up)))
<1> PICK b : b = [code |-> code, up |-> up]
  OBVIOUS
<1>1. /\ E0 \in ScanBytes /\ b \in ScanBytes /\ b # E0
      /\ b.code = code /\ b.up = up
  <2>1. E0 \in ScanBytes /\ E0.code = "E0"
    BY DEF E0, ScanBytes, Codes
  <2>2. b \in ScanBytes /\ b.code = code /\ b.up = up
    BY DEF ScanBytes
  <2> QED
    BY <2>1, <2>2
<1>2. s \in Decoder /\ out \in Seq(Chars)
  BY YieldsTypes
<1>3. PICK s1 : s1 = After(s, E0)
  OBVIOUS
<1>4. /\ s1 \in Decoder /\ s1.shift = s.shift /\ s1.caps = s.caps
      /\ s1.capsDown = s.capsDown /\ s1.ctrl = s.ctrl /\ s1.e0 = TRUE
      /\ s1.accent = s.accent
  <2>1. s1 \in Decoder
    BY <1>1, <1>2, <1>3, AfterType
  <2> QED
    BY <1>3, <2>1 DEF After
<1>5. Given(Value(s, E0)) = <<>>
  BY DEF Given, Value
<1>6. out \o <<>> = out
  BY <1>2, ConcatEmptySeq
<1>7. Yields(s0, Append(q, E0), s1, out)
  <2>1. Yields(s0, Append(q, E0), After(s, E0), out \o Given(Value(s, E0)))
    BY <1>1, YieldsAppend
  <2> QED
    BY <1>3, <1>5, <1>6, <2>1
<1>8. Append(q, E0) \in Seq(ScanBytes) /\ q \o <<E0, b>> = Append(Append(q, E0), b)
  BY <1>1, AppendBytes
<1>9. Yields(s0, Append(Append(q, E0), b), After(s1, b), out \o Given(Value(s1, b)))
  BY <1>1, <1>7, <1>8, YieldsAppend
<1>10. After(s1, b) = Prefixed(s, code, up)
  BY <1>1, <1>4 DEF After, Prefixed
<1>11. Value(s1, b) = PrefixedValue(code, up)
  BY <1>1, <1>4 DEF Value, PrefixedValue
<1> QED
  BY <1>8, <1>9, <1>10, <1>11

\* The flags and the character of a key going down or up.
Touched(s, key, up) ==
    IF key.e0 THEN Prefixed(s, key.code, up)
    ELSE After(s, [code |-> key.code, up |-> up])
TouchedValue(s, key, up) ==
    IF key.e0 THEN PrefixedValue(key.code, up)
    ELSE Value(s, [code |-> key.code, up |-> up])

\* What each key of the layout is.
LEMMA LayoutFacts ==
    ASSUME NEW k \in DOMAIN Layout
    PROVE  /\ Layout[k].e0 \in BOOLEAN /\ Layout[k].code \in Codes
           /\ Layout[k].code # "E0"
           /\ Layout[k].code \in {"SHIFT_L", "SHIFT_R"} <=> k \in Shifts
           /\ Layout[k].code = "CTRL" <=> k \in Ctrls
           /\ Layout[k].code = "CAPSLOCK" <=> k = "CapsLock"
           /\ Layout[k].e0 => k \notin Shifts /\ k # "CapsLock" /\ k # "CtrlL"
           /\ k = "CtrlR" => Layout[k].e0
<1>1. k \in {"ShiftL", "ShiftR", "CtrlL", "CtrlR", "CapsLock", "Acute", "Tilde",
             "Space", "Backspace", "Enter", "KpEnter", "Semicolon", "KpSlash",
             "Kp8", "Up", "A", "L"}
  BY DEF Layout
<1>2. k \in {"ShiftL", "ShiftR"} => ~Layout[k].e0 /\ Layout[k].code \in {"SHIFT_L", "SHIFT_R"}
  BY DEF Layout, Plain
<1>3. k = "CtrlL" => ~Layout[k].e0 /\ Layout[k].code = "CTRL"
  BY DEF Layout, Plain
<1>4. k = "CtrlR" => Layout[k].e0 /\ Layout[k].code = "CTRL"
  BY DEF Layout, Extended
<1>5. k = "CapsLock" => ~Layout[k].e0 /\ Layout[k].code = "CAPSLOCK"
  BY DEF Layout, Plain
<1>6. k \in {"Acute", "Tilde", "Space", "Backspace", "Enter", "KpEnter", "Semicolon",
             "KpSlash", "Kp8", "Up", "A", "L"}
        => Layout[k].code \in {"AGUDO_CRASE", "TIL_CIRCUNFLEXO", "SPACE", "BACKSPACE",
                               "ENTER", "SEMICOLON", "KP8", "A", "L"}
  BY DEF Layout, Plain, Extended
<1>7. Layout[k].e0 \in BOOLEAN
  <2>1. k \in {"CtrlR", "KpEnter", "KpSlash", "Up"} => Layout[k].e0 = TRUE
    BY DEF Layout, Extended
  <2>2. k \in {"ShiftL", "ShiftR", "CtrlL", "CapsLock", "Acute", "Tilde", "Space",
               "Backspace"} => Layout[k].e0 = FALSE
    BY DEF Layout, Plain
  <2>3. k \in {"Enter", "Semicolon", "Kp8", "A", "L"} => Layout[k].e0 = FALSE
    BY DEF Layout, Plain
  <2> QED
    BY <1>1, <2>1, <2>2, <2>3
<1>8. CASE k \in {"ShiftL", "ShiftR", "CtrlL", "CtrlR", "CapsLock"}
  BY <1>2, <1>3, <1>4, <1>5, <1>7, <1>8 DEF Shifts, Ctrls, Codes
<1>9. CASE k \notin {"ShiftL", "ShiftR", "CtrlL", "CtrlR", "CapsLock"}
  BY <1>1, <1>6, <1>7, <1>9 DEF Shifts, Ctrls, Codes
<1> QED
  BY <1>8, <1>9

\* Reading the bytes of a key, the false shifts among them, is touching it.
LEMMA YieldsTouched ==
    ASSUME NEW s0, NEW q \in Seq(ScanBytes), NEW s, NEW out, Yields(s0, q, s, out),
           ~s.e0, NEW k \in DOMAIN Layout, NEW up \in BOOLEAN
    PROVE  /\ q \o Bytes(k, up) \in Seq(ScanBytes)
           /\ Yields(s0, q \o Bytes(k, up), Touched(s, Layout[k], up),
                     out \o Given(TouchedValue(s, Layout[k], up)))
<1> PICK code, b, key : /\ key = Layout[k] /\ code = key.code
                        /\ b = [code |-> code, up |-> up]
  OBVIOUS
<1>1. /\ key.e0 \in BOOLEAN /\ code \in Codes /\ code # "E0"
      /\ E0 \in ScanBytes /\ b \in ScanBytes
  <2>1. key.e0 \in BOOLEAN /\ code \in Codes /\ code # "E0"
    BY LayoutFacts
  <2>2. E0 \in ScanBytes
    BY DEF E0, ScanBytes, Codes
  <2>3. b \in ScanBytes
    BY <2>1 DEF ScanBytes
  <2> QED
    BY <2>1, <2>2, <2>3
<1>2. CASE ~key.e0
  <2>1. Bytes(k, up) = <<b>>
    BY <1>2 DEF Bytes
  <2>2. q \o <<b>> = Append(q, b) /\ q \o <<b>> \in Seq(ScanBytes)
    BY <1>1, AppendBytes
  <2>3. Yields(s0, Append(q, b), After(s, b), out \o Given(Value(s, b)))
    BY <1>1, YieldsAppend
  <2> QED
    BY <1>2, <2>1, <2>2, <2>3 DEF Touched, TouchedValue
<1>3. ASSUME NEW q1 \in Seq(ScanBytes), NEW s1, NEW o1, Yields(s0, q1, s1, o1)
      PROVE  /\ q1 \o <<E0, b>> \in Seq(ScanBytes)
             /\ Yields(s0, q1 \o <<E0, b>>, Prefixed(s1, code, up),
                       o1 \o Given(PrefixedValue(code, up)))
  <2>1. q1 \o <<E0, b>> \in Seq(ScanBytes)
    BY <1>1, AppendBytes
  <2> QED
    BY <1>1, <1>3, <2>1, YieldsPrefixed
<1>4. CASE key.e0 /\ ~(code = "KP8" /\ Held(Shifts))
  <2>1. Bytes(k, up) = <<E0, b>>
    BY <1>4 DEF Bytes
  <2> QED
    BY <1>3, <1>4, <2>1 DEF Touched, TouchedValue
<1>5. CASE key.e0 /\ code = "KP8" /\ Held(Shifts)
  <2> PICK no \in BOOLEAN : no = ~up
    <3>1. (~up) \in BOOLEAN
      OBVIOUS
    <3> QED
      BY <3>1
  <2> PICK f : f = [code |-> "SHIFT_L", up |-> no]
    OBVIOUS
  <2>1. f \in ScanBytes
    BY DEF ScanBytes, Codes
  <2>2. ASSUME NEW q1 \in Seq(ScanBytes), NEW s1, NEW o1, Yields(s0, q1, s1, o1),
               s1 = s \/ s1 = Prefixed(s, code, up)
        PROVE  /\ q1 \o <<E0, f>> \in Seq(ScanBytes)
               /\ Yields(s0, q1 \o <<E0, f>>, s1, o1)
    <3>1. q1 \o <<E0, f>> \in Seq(ScanBytes)
      BY <1>1, <2>1, AppendBytes
    <3>2. "SHIFT_L" \in Codes /\ "SHIFT_L" # "E0"
      BY DEF Codes
    <3>3. Yields(s0, q1 \o <<E0, f>>, Prefixed(s1, "SHIFT_L", no),
                 o1 \o Given(PrefixedValue("SHIFT_L", no)))
      BY <2>2, <3>2, YieldsPrefixed
    <3>4. s1 \in Decoder /\ o1 \in Seq(Chars) /\ s1.e0 = FALSE
      <4>1. s1 \in Decoder /\ o1 \in Seq(Chars)
        BY <2>2, YieldsTypes
      <4> QED
        BY <2>2, <4>1 DEF Prefixed, Decoder
    <3>5. Prefixed(s1, "SHIFT_L", no) = s1
      BY <3>4 DEF Prefixed, Decoder
    <3>6. Given(PrefixedValue("SHIFT_L", no)) = <<>>
      BY DEF Given, PrefixedValue, ExtendedKey
    <3>7. o1 \o <<>> = o1
      BY <3>4, ConcatEmptySeq
    <3> QED
      BY <3>1, <3>3, <3>5, <3>6, <3>7
  <2>3. /\ <<E0, b>> \in Seq(ScanBytes) /\ <<E0, f>> \in Seq(ScanBytes)
    BY <1>1, <2>1, AppendBytes
  <2>4. \A x, y, z \in Seq(ScanBytes) : (x \o y) \o z = x \o (y \o z)
    BY ConcatBytes, Zenon
  <2>5. CASE up
    <3>1. Bytes(k, up) = <<E0, b>> \o <<E0, f>>
      BY <1>5, <2>5 DEF Bytes
    <3>2. q \o Bytes(k, up) = (q \o <<E0, b>>) \o <<E0, f>>
      BY <2>3, <2>4, <3>1
    <3> QED
      BY <1>3, <1>5, <2>2, <3>2 DEF Touched, TouchedValue
  <2>6. CASE ~up
    <3>1. Bytes(k, up) = <<E0, f>> \o <<E0, b>>
      BY <1>5, <2>6 DEF Bytes
    <3>2. q \o Bytes(k, up) = (q \o <<E0, f>>) \o <<E0, b>>
      BY <2>3, <2>4, <3>1
    <3> QED
      BY <1>3, <1>5, <2>2, <3>2 DEF Touched, TouchedValue
  <2> QED
    BY <2>5, <2>6
<1> QED
  BY <1>1, <1>2, <1>4, <1>5
\* Keys in a sequence of keys.
InSeq(q, S) == \E i \in 1 .. Len(q) : q[i] \in S
Distinct(q) == \A i, j \in 1 .. Len(q) : i # j => q[i] # q[j]
Pushed(q2, q, k) == \A S : InSeq(q2, S) <=> k \in S \/ InSeq(q, S)
Dropped(q2, q, k) == \A S : InSeq(q2, S) <=> InSeq(q, S \ {k})

LEMMA PushKey ==
    ASSUME NEW T, NEW q \in Seq(T), NEW k \in T
    PROVE  /\ <<k>> \o q \in Seq(T)
           /\ Pushed(<<k>> \o q, q, k)
           /\ Distinct(q) /\ ~InSeq(q, {k}) => Distinct(<<k>> \o q)
<1> PICK r, n : r = <<k>> \o q /\ n = Len(q)
  OBVIOUS
<1>1. /\ r \in Seq(T) /\ Len(r) = n + 1 /\ n \in Nat /\ r[1] = k
      /\ \A i \in 2 .. n + 1 : r[i] = q[i - 1]
  <2>1. <<k>> \in Seq(T) /\ Len(<<k>>) = 1 /\ <<k>>[1] = k /\ n \in Nat
    OBVIOUS
  <2>2. /\ r \in Seq(T) /\ Len(r) = 1 + n
        /\ \A i \in 1 .. 1 + n : r[i] = IF i <= 1 THEN <<k>>[i] ELSE q[i - 1]
    BY <2>1, ConcatProperties
  <2> QED
    BY <2>1, <2>2
<1>2. ASSUME NEW S
      PROVE  InSeq(r, S) <=> k \in S \/ InSeq(q, S)
  <2>1. ASSUME InSeq(r, S) PROVE k \in S \/ InSeq(q, S)
    <3>1. PICK i \in 1 .. n + 1 : r[i] \in S
      BY <1>1, <2>1 DEF InSeq
    <3>2. CASE i = 1
      BY <1>1, <3>1, <3>2
    <3>3. CASE i # 1
      <4>1. i \in 2 .. n + 1 /\ i - 1 \in 1 .. n
        BY <1>1, <3>3
      <4> QED
        BY <1>1, <3>1, <4>1 DEF InSeq
    <3> QED
      BY <3>2, <3>3
  <2>2. ASSUME k \in S PROVE InSeq(r, S)
    <3>1. 1 \in 1 .. n + 1
      BY <1>1
    <3> QED
      BY <1>1, <2>2, <3>1 DEF InSeq
  <2>3. ASSUME InSeq(q, S) PROVE InSeq(r, S)
    <3>1. PICK i \in 1 .. n : q[i] \in S
      BY <2>3 DEF InSeq
    <3>2. i + 1 \in 2 .. n + 1 /\ i + 1 \in 1 .. n + 1 /\ (i + 1) - 1 = i
      BY <1>1
    <3>3. r[i + 1] = q[i]
      BY <1>1, <3>2
    <3> QED
      BY <1>1, <3>1, <3>2, <3>3 DEF InSeq
  <2> QED
    BY <2>1, <2>2, <2>3
<1>3. ASSUME Distinct(q), ~InSeq(q, {k}), NEW i \in 1 .. n + 1, NEW j \in 1 .. n + 1,
             i < j
      PROVE  r[i] # r[j]
  <2>1. j \in 2 .. n + 1 /\ j - 1 \in 1 .. n /\ r[j] = q[j - 1]
    BY <1>1, <1>3
  <2>2. CASE i = 1
    BY <1>1, <1>3, <2>1, <2>2 DEF InSeq
  <2>3. CASE i # 1
    <3>1. i \in 2 .. n + 1 /\ i - 1 \in 1 .. n /\ i - 1 # j - 1
      BY <1>1, <1>3, <2>3
    <3>2. r[i] = q[i - 1]
      BY <1>1, <3>1
    <3> QED
      BY <1>3, <2>1, <3>1, <3>2 DEF Distinct
  <2> QED
    BY <2>2, <2>3
<1>4. ASSUME Distinct(q), ~InSeq(q, {k}) PROVE Distinct(r)
  <2> SUFFICES ASSUME NEW i \in 1 .. n + 1, NEW j \in 1 .. n + 1, i # j
               PROVE  r[i] # r[j]
    BY <1>1 DEF Distinct
  <2>1. i < j \/ j < i
    OBVIOUS
  <2> QED
    BY <1>3, <1>4, <2>1
<1> QED
  BY <1>1, <1>2, <1>4 DEF Pushed

LEMMA DropKey ==
    ASSUME NEW T, NEW q \in Seq(T), NEW i \in 1 .. Len(q), Distinct(q)
    PROVE  /\ RemoveAt(q, i) \in Seq(T) /\ Distinct(RemoveAt(q, i))
           /\ Dropped(RemoveAt(q, i), q, q[i])
<1> PICK r, n : r = RemoveAt(q, i) /\ n = Len(q)
  OBVIOUS
<1>0. n \in Nat /\ i \in 1 .. n
  OBVIOUS
<1>1. /\ r \in Seq(T) /\ Len(r) = n - 1
      /\ \A j \in 1 .. n - 1 : r[j] = IF j < i THEN q[j] ELSE q[j + 1]
  <2> PICK a, b : a = SubSeq(q, 1, i - 1) /\ b = SubSeq(q, i + 1, n)
    OBVIOUS
  <2>1. /\ a \in Seq(T) /\ Len(a) = i - 1
        /\ \A j \in 1 .. i - 1 : a[j] = q[j]
    <3>1. \A j \in 1 .. i - 1 : q[j] \in T
      BY <1>0, ElementOfSeq
    <3> QED
      BY <1>0, <3>1, SubSeqProperties
  <2>2. /\ b \in Seq(T) /\ Len(b) = n - i
        /\ \A j \in 1 .. n - i : b[j] = q[i + j]
    <3>1. \A j \in i + 1 .. n : q[j] \in T
      BY <1>0, ElementOfSeq
    <3>2. /\ b \in Seq(T) /\ Len(b) = IF i + 1 <= n THEN n - (i + 1) + 1 ELSE 0
          /\ \A j \in 1 .. n - (i + 1) + 1 : b[j] = q[(i + 1) + j - 1]
      BY <1>0, <3>1, SubSeqProperties
    <3> QED
      BY <1>0, <3>2
  <2>3. r = a \o b
    BY DEF RemoveAt
  <2>4. /\ r \in Seq(T) /\ Len(r) = (i - 1) + (n - i)
        /\ \A j \in 1 .. (i - 1) + (n - i) :
              r[j] = IF j <= i - 1 THEN a[j] ELSE b[j - (i - 1)]
    <3>1. /\ a \o b \in Seq(T) /\ Len(a \o b) = Len(a) + Len(b)
          /\ \A j \in 1 .. Len(a) + Len(b) :
                (a \o b)[j] = IF j <= Len(a) THEN a[j] ELSE b[j - Len(a)]
      <4>1. a \in Seq(T) /\ b \in Seq(T)
        BY <2>1, <2>2
      <4>2. a \o b \in Seq(T) /\ Len(a \o b) = Len(a) + Len(b)
        BY <4>1, ConcatProperties
      <4>3. ASSUME NEW j \in 1 .. Len(a) + Len(b)
            PROVE  (a \o b)[j] = IF j <= Len(a) THEN a[j] ELSE b[j - Len(a)]
        BY <4>1, ConcatProperties
      <4> QED
        BY <4>2, <4>3
    <3>2. Len(a) = i - 1 /\ Len(b) = n - i
      BY <2>1, <2>2
    <3> QED
      BY <2>3, <3>1, <3>2
  <2>5. ASSUME NEW j \in 1 .. n - 1
        PROVE  r[j] = IF j < i THEN q[j] ELSE q[j + 1]
    <3>1. CASE j < i
      BY <1>0, <2>1, <2>4, <3>1
    <3>2. CASE ~(j < i)
      <4>1. j - (i - 1) \in 1 .. n - i /\ i + (j - (i - 1)) = j + 1
        BY <1>0, <3>2
      <4>2. b[j - (i - 1)] = q[j + 1]
        BY <2>2, <4>1
      <4> QED
        BY <1>0, <2>4, <3>2, <4>2
    <3> QED
      BY <3>1, <3>2
  <2>6. (i - 1) + (n - i) = n - 1
    BY <1>0
  <2>7. r \in Seq(T) /\ Len(r) = n - 1
    BY <2>4, <2>6, Zenon
  <2>8. \A j \in 1 .. n - 1 : r[j] = IF j < i THEN q[j] ELSE q[j + 1]
    BY <2>5, Zenon
  <2> QED
    BY <2>7, <2>8, Zenon
<1> DEFINE at(j) == IF j < i THEN j ELSE j + 1
<1>2. \A j \in 1 .. n - 1 : at(j) \in 1 .. n /\ at(j) # i /\ r[j] = q[at(j)]
  BY <1>0, <1>1
<1>3. \A j, l \in 1 .. n - 1 : j # l => at(j) # at(l)
  BY <1>0
<1>4. \A m \in 1 .. n : m # i => \E j \in 1 .. n - 1 : at(j) = m
  <2> TAKE m \in 1 .. n
  <2> HAVE m # i
  <2>1. CASE m < i
    <3>1. m \in 1 .. n - 1 /\ at(m) = m
      BY <1>0, <2>1
    <3> QED
      BY <3>1
  <2>2. CASE ~(m < i)
    <3>1. m - 1 \in 1 .. n - 1 /\ at(m - 1) = m
      BY <1>0, <2>2
    <3> QED
      BY <3>1
  <2> QED
    BY <2>1, <2>2
<1> HIDE DEF at
<1>5. Distinct(r)
  <2> SUFFICES ASSUME NEW j \in 1 .. n - 1, NEW l \in 1 .. n - 1, j # l
               PROVE  r[j] # r[l]
    BY <1>1 DEF Distinct
  <2> QED
    BY <1>2, <1>3 DEF Distinct
<1>6. ASSUME NEW S PROVE InSeq(r, S) <=> InSeq(q, S \ {q[i]})
  <2>1. ASSUME InSeq(r, S) PROVE InSeq(q, S \ {q[i]})
    <3>1. PICK j \in 1 .. n - 1 : r[j] \in S
      BY <1>1, <2>1 DEF InSeq
    <3>2. at(j) \in 1 .. n /\ at(j) # i /\ r[j] = q[at(j)]
      BY <1>2
    <3>3. q[at(j)] # q[i]
      BY <1>0, <3>2 DEF Distinct
    <3> QED
      BY <3>1, <3>2, <3>3 DEF InSeq
  <2>2. ASSUME InSeq(q, S \ {q[i]}) PROVE InSeq(r, S)
    <3>1. PICK m \in 1 .. n : q[m] \in S \ {q[i]}
      BY <2>2 DEF InSeq
    <3>2. PICK j \in 1 .. n - 1 : at(j) = m
      BY <1>4, <3>1
    <3> QED
      BY <1>1, <1>2, <3>1, <3>2 DEF InSeq
  <2> QED
    BY <2>1, <2>2
<1> QED
  BY <1>1, <1>5, <1>6 DEF Dropped
Flags == [shift |-> shift_pressionado, caps |-> capslock_ativo,
          capsDown |-> capslock_pressionado, ctrl |-> ctrl_pressionado,
          e0 |-> e0_prefix, accent |-> acento_pendente]

\* The decoder t agrees with the keys held, and with what the user sees.
Settled(t, keys, ty, lapped) ==
    /\ ~t.e0
    /\ t.caps = ty.caps
    /\ t.capsDown <=> InSeq(keys, {"CapsLock"})
    /\ t.shift => InSeq(keys, Shifts)
    /\ t.ctrl => InSeq(keys, Ctrls)
    /\ ~lapped =>
          /\ t.shift <=> InSeq(keys, Shifts)
          /\ t.ctrl <=> InSeq(keys, Ctrls)
          /\ t.accent = ty.accent
          /\ ~(InSeq(keys, {"ShiftL"}) /\ InSeq(keys, {"ShiftR"}))
          /\ ~(InSeq(keys, {"CtrlL"}) /\ InSeq(keys, {"CtrlR"}))

\* Reading what waits gives what is expected and settles the decoder.
Decodes(s, q, keys, ty, ex, lapped) ==
    \E t, out : /\ Yields(s, q, t, out)
                /\ Settled(t, keys, ty, lapped)
                /\ ~lapped => out = ex

KInv ==
    /\ down \in Seq(Keys) /\ Distinct(down)
    /\ queue \in Seq(ScanBytes) /\ overlapped \in BOOLEAN
    /\ typing = [caps |-> typing.caps, accent |-> typing.accent]
    /\ Decodes(Flags, queue, down, typing, expected, overlapped)

\* What touching a key does to a decoder between two keys.
TouchedAs(t, s, k, up) ==
    /\ t \in Decoder /\ ~t.e0
    /\ t.shift <=> IF k \in Shifts THEN ~up ELSE s.shift
    /\ t.ctrl <=> IF k \in Ctrls THEN ~up ELSE s.ctrl
    /\ t.capsDown <=> IF k = "CapsLock" THEN ~up ELSE s.capsDown
    /\ t.caps = IF k = "CapsLock" /\ ~up /\ ~s.capsDown THEN ~s.caps ELSE s.caps
    /\ t.accent = IF \/ Layout[k].e0 \/ k \in Shifts \cup Ctrls \cup {"CapsLock"}
                     \/ up \/ s.ctrl
                  THEN s.accent ELSE KeyAccent(Layout[k].code, s.shift, s.accent)

LEMMA TouchedFlags ==
    ASSUME NEW s \in Decoder, ~s.e0, NEW k \in DOMAIN Layout, NEW up \in BOOLEAN,
           NEW t, t = Touched(s, Layout[k], up)
    PROVE  TouchedAs(t, s, k, up)
<1> PICK code, e0 : code = Layout[k].code /\ e0 = Layout[k].e0
  OBVIOUS
<1>1. /\ e0 \in BOOLEAN /\ code \in Codes /\ code # "E0"
      /\ code \in {"SHIFT_L", "SHIFT_R"} <=> k \in Shifts
      /\ code = "CTRL" <=> k \in Ctrls
      /\ code = "CAPSLOCK" <=> k = "CapsLock"
      /\ e0 => k \notin Shifts /\ k # "CapsLock"
  BY LayoutFacts
<1>2. /\ s.shift \in BOOLEAN /\ s.caps \in BOOLEAN /\ s.capsDown \in BOOLEAN
      /\ s.ctrl \in BOOLEAN /\ s.accent \in Accents
  BY DEF Decoder
<1>3. CASE e0
  <2>1. t = Prefixed(s, code, up)
    BY <1>3 DEF Touched
  <2>2. /\ t.shift = s.shift /\ t.caps = s.caps /\ t.capsDown = s.capsDown
        /\ t.ctrl = (IF code = "CTRL" THEN ~up ELSE s.ctrl)
        /\ t.e0 = FALSE /\ t.accent = s.accent
    BY <2>1 DEF Prefixed
  <2>3. t \in Decoder
    <3>1. (IF code = "CTRL" THEN ~up ELSE s.ctrl) \in BOOLEAN
      BY <1>2
    <3>2. t = [shift |-> t.shift, caps |-> t.caps, capsDown |-> t.capsDown,
               ctrl |-> t.ctrl, e0 |-> t.e0, accent |-> t.accent]
      BY <2>1 DEF Prefixed
    <3> QED
      BY <1>2, <2>2, <3>1, <3>2 DEF Decoder
  <2> QED
    BY <1>1, <1>3, <2>2, <2>3 DEF TouchedAs
<1>4. CASE ~e0
  <2> PICK b : b = [code |-> code, up |-> up]
    OBVIOUS
  <2>1. b.code = code /\ b.up = up /\ b # E0 /\ b \in ScanBytes
    <3>1. b.code = code /\ b.up = up /\ E0.code = "E0"
      BY DEF E0
    <3> QED
      BY <1>1, <3>1 DEF ScanBytes
  <2>2. t = After(s, b)
    BY <1>4 DEF Touched
  <2>3. t \in Decoder
    BY <2>1, <2>2, AfterType
  <2>4. /\ t.shift = (IF code \in {"SHIFT_L", "SHIFT_R"} THEN ~up ELSE s.shift)
        /\ t.ctrl = (IF code = "CTRL" THEN ~up ELSE s.ctrl)
        /\ t.capsDown = (IF code = "CAPSLOCK" THEN ~up ELSE s.capsDown)
        /\ t.caps = (IF code = "CAPSLOCK" /\ ~up /\ ~s.capsDown
                     THEN ~s.caps ELSE s.caps)
        /\ t.e0 = FALSE
        /\ t.accent = IF code \notin Modifiers /\ ~up /\ ~s.ctrl
                      THEN KeyAccent(code, s.shift, s.accent) ELSE s.accent
    <3>1. t.shift = (IF code \in {"SHIFT_L", "SHIFT_R"} THEN ~up ELSE s.shift)
      BY <2>1, <2>2 DEF After
    <3>2. t.ctrl = (IF code = "CTRL" THEN ~up ELSE s.ctrl)
      BY <2>1, <2>2 DEF After
    <3>3. t.capsDown = (IF code = "CAPSLOCK" THEN ~up ELSE s.capsDown)
      BY <2>1, <2>2 DEF After
    <3>4. t.caps = (IF code = "CAPSLOCK" /\ ~up /\ ~s.capsDown THEN ~s.caps ELSE s.caps)
      BY <2>1, <2>2 DEF After
    <3>5. t.e0 = FALSE
      <4>1. t.e0 = (b = E0)
        BY <2>2 DEF After
      <4> QED
        BY <2>1, <4>1
    <3>6. t.accent = IF code \notin Modifiers /\ ~up /\ ~s.ctrl
                     THEN KeyAccent(code, s.shift, s.accent) ELSE s.accent
      BY <2>1, <2>2 DEF After
    <3> QED
      BY <3>1, <3>2, <3>3, <3>4, <3>5, <3>6
  <2>5. code \in Modifiers <=> k \in Shifts \cup Ctrls \cup {"CapsLock"}
    BY <1>1 DEF Modifiers
  <2> QED
    BY <1>1, <1>4, <2>3, <2>4, <2>5 DEF TouchedAs
<1> QED
  BY <1>1, <1>3, <1>4
\* The character a key gives.
LEMMA TouchedGives ==
    ASSUME NEW s \in Decoder, ~s.e0, NEW k \in DOMAIN Layout, NEW up \in BOOLEAN,
           NEW v, v = TouchedValue(s, Layout[k], up),
           NEW code, code = Layout[k].code
    PROVE  /\ up => v = TECLA_NENHUMA
           /\ ~up /\ Layout[k].e0 => v = ExtendedKey(code)
           /\ ~up /\ ~Layout[k].e0 =>
                 /\ k \in Shifts \cup Ctrls \cup {"CapsLock"} => v = TECLA_NENHUMA
                 /\ k \notin Shifts \cup Ctrls \cup {"CapsLock"} =>
                       v = IF s.ctrl THEN CtrlKey(code)
                           ELSE KeyChar(code, s.shift, s.caps, s.accent)
<1> PICK e0 : e0 = Layout[k].e0
  OBVIOUS
<1>1. /\ e0 \in BOOLEAN /\ code # "E0"
      /\ code \in Modifiers <=> k \in Shifts \cup Ctrls \cup {"CapsLock"}
  <2>1. /\ e0 \in BOOLEAN /\ code \in Codes /\ code # "E0"
        /\ code \in {"SHIFT_L", "SHIFT_R"} <=> k \in Shifts
        /\ code = "CTRL" <=> k \in Ctrls
        /\ code = "CAPSLOCK" <=> k = "CapsLock"
    BY LayoutFacts
  <2> QED
    BY <2>1 DEF Modifiers
<1>2. CASE e0
  <2>1. v = PrefixedValue(code, up)
    BY <1>2 DEF TouchedValue
  <2> QED
    BY <1>2, <2>1 DEF PrefixedValue
<1>3. CASE ~e0
  <2> PICK b : b = [code |-> code, up |-> up]
    OBVIOUS
  <2>1. b.code = code /\ b.up = up /\ b # E0
    <3>1. b.code = code /\ b.up = up /\ E0.code = "E0"
      BY DEF E0
    <3> QED
      BY <1>1, <3>1
  <2>2. v = Value(s, b)
    BY <1>3 DEF TouchedValue
  <2>3. up => v = TECLA_NENHUMA
    BY <2>1, <2>2 DEF Value
  <2>4. ~up /\ code \in Modifiers => v = TECLA_NENHUMA
    BY <2>1, <2>2 DEF Value
  <2>5. ~up /\ code \notin Modifiers
          => v = IF s.ctrl THEN CtrlKey(code)
                 ELSE KeyChar(code, s.shift, s.caps, s.accent)
    BY <2>1, <2>2 DEF Value
  <2> QED
    BY <1>1, <1>3, <2>3, <2>4, <2>5
<1> QED
  BY <1>1, <1>2, <1>3

\* Bytes of a key added to the queue, when the key settles the decoder.
LEMMA TouchDecodes ==
    ASSUME NEW fl, queue \in Seq(ScanBytes), NEW s, NEW out,
           Yields(fl, queue, s, out), ~s.e0, ~overlapped => out = expected,
           NEW k \in DOMAIN Layout, NEW up \in BOOLEAN,
           NEW q2, q2 = queue \o Bytes(k, up), NEW keys, NEW ty, NEW ex, NEW lapped,
           Settled(Touched(s, Layout[k], up), keys, ty, lapped),
           ~lapped => /\ ~overlapped
                      /\ ex = expected \o Given(TouchedValue(s, Layout[k], up))
    PROVE  Decodes(fl, q2, keys, ty, ex, lapped) /\ q2 \in Seq(ScanBytes)
<1>1. /\ q2 \in Seq(ScanBytes)
      /\ Yields(fl, q2, Touched(s, Layout[k], up),
                out \o Given(TouchedValue(s, Layout[k], up)))
  BY YieldsTouched
<1> QED
  BY <1>1 DEF Decodes

\* A key that was up goes down.
LEMMA PressSettles ==
    ASSUME NEW s \in Decoder, NEW keys, NEW ty, NEW lapped, Settled(s, keys, ty, lapped),
           NEW k \in DOMAIN Layout, NEW t, t = Touched(s, Layout[k], FALSE),
           ~InSeq(keys, {k}),
           NEW keys2, Pushed(keys2, keys, k),
           NEW ty2, ty2.caps = IF k = "CapsLock" THEN ~ty.caps ELSE ty.caps,
           NEW lapped2,
           ~lapped2 => /\ ~lapped /\ ty2.accent = t.accent
                       /\ k \in Shifts => ~InSeq(keys, Shifts \ {k})
                       /\ k \in Ctrls => ~InSeq(keys, Ctrls \ {k})
    PROVE  Settled(t, keys2, ty2, lapped2)
<1> USE DEF Pushed
<1>1. ~s.e0
  BY DEF Settled
<1>3. /\ t \in Decoder /\ ~t.e0
      /\ t.shift <=> IF k \in Shifts THEN TRUE ELSE s.shift
      /\ t.ctrl <=> IF k \in Ctrls THEN TRUE ELSE s.ctrl
      /\ t.capsDown <=> IF k = "CapsLock" THEN TRUE ELSE s.capsDown
      /\ t.caps = IF k = "CapsLock" /\ ~s.capsDown THEN ~s.caps ELSE s.caps
  <2> PICK up \in BOOLEAN : up = FALSE
    OBVIOUS
  <2>1. TouchedAs(t, s, k, up)
    BY <1>1, TouchedFlags
  <2> QED
    BY <2>1 DEF TouchedAs
<1>4. /\ s.caps = ty.caps /\ (s.capsDown <=> InSeq(keys, {"CapsLock"}))
      /\ (s.shift => InSeq(keys, Shifts)) /\ (s.ctrl => InSeq(keys, Ctrls))
  BY DEF Settled
<1>5. t.caps = ty2.caps
  BY <1>3, <1>4
<1>6. t.capsDown <=> InSeq(keys2, {"CapsLock"})
  BY <1>3, <1>4
<1>7. (t.shift => InSeq(keys2, Shifts)) /\ (t.ctrl => InSeq(keys2, Ctrls))
  BY <1>3, <1>4
<1>8. ASSUME ~lapped2
      PROVE  /\ t.shift <=> InSeq(keys2, Shifts)
             /\ t.ctrl <=> InSeq(keys2, Ctrls)
             /\ t.accent = ty2.accent
             /\ ~(InSeq(keys2, {"ShiftL"}) /\ InSeq(keys2, {"ShiftR"}))
             /\ ~(InSeq(keys2, {"CtrlL"}) /\ InSeq(keys2, {"CtrlR"}))
  <2>1. /\ s.shift <=> InSeq(keys, Shifts)
        /\ s.ctrl <=> InSeq(keys, Ctrls)
        /\ ~(InSeq(keys, {"ShiftL"}) /\ InSeq(keys, {"ShiftR"}))
        /\ ~(InSeq(keys, {"CtrlL"}) /\ InSeq(keys, {"CtrlR"}))
    BY <1>8 DEF Settled
  <2>2. ~(InSeq(keys2, {"ShiftL"}) /\ InSeq(keys2, {"ShiftR"}))
    <3>1. k = "ShiftL" => ~InSeq(keys, {"ShiftR"})
      BY <1>8 DEF InSeq, Shifts
    <3>2. k = "ShiftR" => ~InSeq(keys, {"ShiftL"})
      BY <1>8 DEF InSeq, Shifts
    <3> QED
      BY <2>1, <3>1, <3>2
  <2>3. ~(InSeq(keys2, {"CtrlL"}) /\ InSeq(keys2, {"CtrlR"}))
    <3>1. k = "CtrlL" => ~InSeq(keys, {"CtrlR"})
      BY <1>8 DEF InSeq, Ctrls
    <3>2. k = "CtrlR" => ~InSeq(keys, {"CtrlL"})
      BY <1>8 DEF InSeq, Ctrls
    <3> QED
      BY <2>1, <3>1, <3>2
  <2> QED
    BY <1>3, <1>8, <2>1, <2>2, <2>3
<1> QED
  BY <1>3, <1>5, <1>6, <1>7, <1>8 DEF Settled

\* A key that is down repeats.
LEMMA RepeatSettles ==
    ASSUME NEW s \in Decoder, NEW keys, NEW ty, NEW lapped, Settled(s, keys, ty, lapped),
           NEW k \in DOMAIN Layout, NEW t, t = Touched(s, Layout[k], FALSE),
           InSeq(keys, {k}), NEW ty2, ty2.caps = ty.caps, NEW lapped2,
           ~lapped2 => ~lapped /\ ty2.accent = t.accent
    PROVE  Settled(t, keys, ty2, lapped2)
<1>1. ~s.e0
  BY DEF Settled
<1>3. /\ t \in Decoder /\ ~t.e0
      /\ t.shift <=> IF k \in Shifts THEN TRUE ELSE s.shift
      /\ t.ctrl <=> IF k \in Ctrls THEN TRUE ELSE s.ctrl
      /\ t.capsDown <=> IF k = "CapsLock" THEN TRUE ELSE s.capsDown
      /\ t.caps = IF k = "CapsLock" /\ ~s.capsDown THEN ~s.caps ELSE s.caps
  <2> PICK up \in BOOLEAN : up = FALSE
    OBVIOUS
  <2>1. TouchedAs(t, s, k, up)
    BY <1>1, TouchedFlags
  <2> QED
    BY <2>1 DEF TouchedAs
<1>4. /\ s.caps = ty.caps /\ (s.capsDown <=> InSeq(keys, {"CapsLock"}))
      /\ (s.shift => InSeq(keys, Shifts)) /\ (s.ctrl => InSeq(keys, Ctrls))
  BY DEF Settled
<1>5. \A S : k \in S => InSeq(keys, S)
  BY DEF InSeq
<1>6. k = "CapsLock" => s.capsDown
  BY <1>4, <1>5
<1>7. ~lapped2 => /\ s.shift <=> InSeq(keys, Shifts)
                  /\ s.ctrl <=> InSeq(keys, Ctrls)
                  /\ ~(InSeq(keys, {"ShiftL"}) /\ InSeq(keys, {"ShiftR"}))
                  /\ ~(InSeq(keys, {"CtrlL"}) /\ InSeq(keys, {"CtrlR"}))
  BY DEF Settled
<1>8. /\ k \in Shifts => InSeq(keys, Shifts)
      /\ k \in Ctrls => InSeq(keys, Ctrls)
      /\ k = "CapsLock" => InSeq(keys, {"CapsLock"})
  BY <1>5
<1> QED
  BY <1>3, <1>4, <1>6, <1>7, <1>8 DEF Settled

\* A key that is down goes up.
LEMMA ReleaseSettles ==
    ASSUME NEW s \in Decoder, NEW keys, NEW ty, NEW lapped, Settled(s, keys, ty, lapped),
           NEW k \in DOMAIN Layout, NEW t, t = Touched(s, Layout[k], TRUE),
           InSeq(keys, {k}),
           NEW keys2, Dropped(keys2, keys, k)
    PROVE  Settled(t, keys2, ty, lapped)
<1> USE DEF Dropped
<1>1. ~s.e0
  BY DEF Settled
<1>3. /\ t \in Decoder /\ ~t.e0
      /\ t.shift <=> IF k \in Shifts THEN FALSE ELSE s.shift
      /\ t.ctrl <=> IF k \in Ctrls THEN FALSE ELSE s.ctrl
      /\ t.capsDown <=> IF k = "CapsLock" THEN FALSE ELSE s.capsDown
      /\ t.caps = s.caps /\ t.accent = s.accent
  <2> PICK up \in BOOLEAN : up = TRUE
    OBVIOUS
  <2>1. TouchedAs(t, s, k, up)
    BY <1>1, TouchedFlags
  <2> QED
    BY <2>1 DEF TouchedAs
<1>4. /\ s.caps = ty.caps /\ (s.capsDown <=> InSeq(keys, {"CapsLock"}))
      /\ (s.shift => InSeq(keys, Shifts)) /\ (s.ctrl => InSeq(keys, Ctrls))
  BY DEF Settled
<1>5. ASSUME NEW S, k \notin S PROVE InSeq(keys2, S) <=> InSeq(keys, S)
  <2>1. S \ {k} = S
    BY <1>5
  <2> QED
    BY <2>1
<1>6. \A S : InSeq(keys2, S) => InSeq(keys, S)
  BY DEF InSeq
<1>7. t.capsDown <=> InSeq(keys2, {"CapsLock"})
  <2>1. k = "CapsLock" => ~InSeq(keys2, {"CapsLock"})
    BY DEF InSeq
  <2> QED
    BY <1>3, <1>4, <1>5, <2>1
<1>8. (t.shift => InSeq(keys2, Shifts)) /\ (t.ctrl => InSeq(keys2, Ctrls))
  BY <1>3, <1>4, <1>5
<1>9. ASSUME ~lapped
      PROVE  /\ t.shift <=> InSeq(keys2, Shifts)
             /\ t.ctrl <=> InSeq(keys2, Ctrls)
             /\ t.accent = ty.accent
             /\ ~(InSeq(keys2, {"ShiftL"}) /\ InSeq(keys2, {"ShiftR"}))
             /\ ~(InSeq(keys2, {"CtrlL"}) /\ InSeq(keys2, {"CtrlR"}))
  <2>1. /\ s.shift <=> InSeq(keys, Shifts)
        /\ s.ctrl <=> InSeq(keys, Ctrls)
        /\ s.accent = ty.accent
        /\ ~(InSeq(keys, {"ShiftL"}) /\ InSeq(keys, {"ShiftR"}))
        /\ ~(InSeq(keys, {"CtrlL"}) /\ InSeq(keys, {"CtrlR"}))
    BY <1>9 DEF Settled
  <2>2. k \in Shifts => ~InSeq(keys2, Shifts)
    <3>1. k = "ShiftL" => ~InSeq(keys, Shifts \ {k})
      BY <2>1 DEF InSeq, Shifts
    <3>2. k = "ShiftR" => ~InSeq(keys, Shifts \ {k})
      BY <2>1 DEF InSeq, Shifts
    <3> QED
      BY <3>1, <3>2 DEF Shifts
  <2>3. k \in Ctrls => ~InSeq(keys2, Ctrls)
    <3>1. k = "CtrlL" => ~InSeq(keys, Ctrls \ {k})
      BY <2>1 DEF InSeq, Ctrls
    <3>2. k = "CtrlR" => ~InSeq(keys, Ctrls \ {k})
      BY <2>1 DEF InSeq, Ctrls
    <3> QED
      BY <3>1, <3>2 DEF Ctrls
  <2>4. k \notin Shifts => (InSeq(keys2, Shifts) <=> InSeq(keys, Shifts))
    BY <1>5
  <2>5. k \notin Ctrls => (InSeq(keys2, Ctrls) <=> InSeq(keys, Ctrls))
    BY <1>5
  <2>6. /\ ~(InSeq(keys2, {"ShiftL"}) /\ InSeq(keys2, {"ShiftR"}))
        /\ ~(InSeq(keys2, {"CtrlL"}) /\ InSeq(keys2, {"CtrlR"}))
    BY <1>6, <2>1
  <2>7. t.shift <=> InSeq(keys2, Shifts)
    <3>1. CASE k \in Shifts
      BY <1>3, <2>2, <3>1
    <3>2. CASE k \notin Shifts
      BY <1>3, <2>1, <2>4, <3>2
    <3> QED
      BY <3>1, <3>2
  <2>8. t.ctrl <=> InSeq(keys2, Ctrls)
    <3>1. CASE k \in Ctrls
      BY <1>3, <2>3, <3>1
    <3>2. CASE k \notin Ctrls
      BY <1>3, <2>1, <2>5, <3>2
    <3> QED
      BY <3>1, <3>2
  <2> QED
    BY <1>3, <2>1, <2>6, <2>7, <2>8
<1> QED
  BY <1>3, <1>4, <1>7, <1>8, <1>9 DEF Settled
LEMMA KInvInit == Init => KInv
<1> SUFFICES ASSUME Init PROVE KInv
  OBVIOUS
<1>1. /\ down = <<>> /\ queue = <<>> /\ overlapped = FALSE /\ expected = <<>>
      /\ typing.caps = FALSE /\ typing.accent = NENHUM
  BY DEF Init
<1>2. /\ Flags.shift = FALSE /\ Flags.caps = FALSE /\ Flags.capsDown = FALSE
      /\ Flags.ctrl = FALSE /\ Flags.e0 = FALSE /\ Flags.accent = NENHUM
      /\ Flags \in Decoder
  <2>1. NENHUM \in Accents
    BY DEF Accents
  <2> QED
    BY <2>1 DEF Init, Flags, Decoder
<1>3. \A S : ~InSeq(down, S)
  BY <1>1 DEF InSeq
<1>4. Settled(Flags, down, typing, overlapped)
  BY <1>1, <1>2, <1>3 DEF Settled
<1>5. Yields(Flags, queue, Flags, expected)
  BY <1>1, <1>2, YieldsNothing
<1>6. Decodes(Flags, queue, down, typing, expected, overlapped)
  BY <1>4, <1>5 DEF Decodes
<1>7. down \in Seq(Keys) /\ Distinct(down)
  BY <1>1 DEF Distinct
<1>8. queue \in Seq(ScanBytes)
  BY <1>1, EmptySeq
<1>9. overlapped \in BOOLEAN
  BY <1>1
<1>10. typing = [caps |-> typing.caps, accent |-> typing.accent]
  BY DEF Init
<1> QED
  BY <1>6, <1>7, <1>8, <1>9, <1>10 DEF KInv

\* The values of the invariant one step later.
LEMMA KInvAfter ==
    ASSUME NEW fl, fl = Flags', down' \in Seq(Keys), Distinct(down'),
           queue' \in Seq(ScanBytes), overlapped' \in BOOLEAN,
           typing' = [caps |-> typing'.caps, accent |-> typing'.accent],
           Decodes(fl, queue', down', typing', expected', overlapped')
    PROVE  KInv'
<1>1. Flags' = fl
  OBVIOUS
<1> QED
  BY <1>1 DEF KInv

\* While no two keys of a modifier were held together, a key gives what the
\* user wants of it and leaves the accent the user sees.
LEMMA TouchedIsWanted ==
    ASSUME NEW s \in Decoder, Settled(s, down, typing, FALSE), NEW k \in DOMAIN Layout,
           NEW t, t = Touched(s, Layout[k], FALSE)
    PROVE  /\ TouchedValue(s, Layout[k], FALSE) = Wanted(k)
           /\ t.accent = WantedAccent(k)
<1>1. /\ ~s.e0 /\ s.caps = typing.caps /\ s.accent = typing.accent
      /\ s.shift <=> Held(Shifts)
      /\ s.ctrl <=> Held(Ctrls)
  BY DEF Settled, InSeq, Held
<1>2. s.shift \in BOOLEAN /\ s.ctrl \in BOOLEAN
  BY DEF Decoder
<1>3. Held(Shifts) = s.shift /\ Held(Ctrls) = s.ctrl
  <2>1. ASSUME NEW h \in BOOLEAN, NEW S, h <=> Held(S) PROVE Held(S) = h
    BY <2>1 DEF Held
  <2> QED
    BY <1>1, <1>2, <2>1
<1> PICK up \in BOOLEAN : up = FALSE
  OBVIOUS
<1> PICK code, v, mods :
       /\ code = Layout[k].code /\ v = TouchedValue(s, Layout[k], up)
       /\ mods = Shifts \cup Ctrls \cup {"CapsLock"}
  OBVIOUS
<1>4. /\ Layout[k].e0 => v = ExtendedKey(code)
      /\ ~Layout[k].e0 =>
            /\ k \in mods => v = TECLA_NENHUMA
            /\ k \notin mods => v = IF s.ctrl THEN CtrlKey(code)
                                    ELSE KeyChar(code, s.shift, s.caps, s.accent)
  BY <1>1, TouchedGives
<1>5. v = Wanted(k)
  BY <1>1, <1>3, <1>4 DEF Wanted
<1>6. TouchedAs(t, s, k, up)
  BY <1>1, TouchedFlags
<1>7. t.accent = IF Layout[k].e0 \/ k \in mods \/ s.ctrl
                 THEN s.accent ELSE KeyAccent(code, s.shift, s.accent)
  BY <1>6 DEF TouchedAs
<1>8. t.accent = WantedAccent(k)
  BY <1>1, <1>3, <1>7 DEF WantedAccent
<1> QED
  BY <1>5, <1>8

\* A key is pressed, or repeats.
LEMMA TouchStep ==
    ASSUME KInv, NEW k \in Keys, Expect(k), UNCHANGED flags,
           \/ /\ ~Held({k}) /\ down' = <<k>> \o down
              /\ typing'.caps = IF k = "CapsLock" THEN ~typing.caps ELSE typing.caps
           \/ Held({k}) /\ down' = down /\ typing'.caps = typing.caps,
           typing' = [caps |-> typing'.caps, accent |-> typing'.accent],
           ~overlapped' => typing'.accent = WantedAccent(k)
    PROVE  KInv'
<1>1. /\ down \in Seq(Keys) /\ Distinct(down) /\ queue \in Seq(ScanBytes)
      /\ overlapped \in BOOLEAN /\ k \in DOMAIN Layout
  BY KeysAssumption DEF KInv
<1>2. PICK s, out : /\ Yields(Flags, queue, s, out)
                    /\ Settled(s, down, typing, overlapped)
                    /\ ~overlapped => out = expected
  BY DEF KInv, Decodes
<1>3. s \in Decoder /\ ~s.e0 /\ out \in Seq(Chars)
  BY <1>1, <1>2, YieldsTypes DEF Settled
<1>4. /\ queue' = queue \o Bytes(k, FALSE)
      /\ overlapped' = (overlapped \/ Overlaps(k))
      /\ expected' = IF overlapped' THEN <<>>
                     ELSE IF Wanted(k) = TECLA_NENHUMA THEN expected
                     ELSE Append(expected, Wanted(k))
  BY DEF Expect
<1>5. overlapped' \in BOOLEAN
  BY <1>4
<1> PICK up \in BOOLEAN : up = FALSE
  OBVIOUS
<1> PICK t, v : /\ t = Touched(s, Layout[k], up)
              /\ v = TouchedValue(s, Layout[k], up)
  OBVIOUS
<1>6. ASSUME ~overlapped'
      PROVE  /\ ~overlapped /\ ~Overlaps(k)
             /\ v = Wanted(k) /\ t.accent = typing'.accent
             /\ expected' = expected \o Given(v)
  <2>1. ~overlapped /\ ~Overlaps(k)
    BY <1>4, <1>6
  <2>2. Settled(s, down, typing, FALSE)
    BY <1>2, <2>1 DEF Settled
  <2>3. v = Wanted(k) /\ t.accent = WantedAccent(k)
    BY <1>1, <1>3, <2>2, TouchedIsWanted
  <2>4. expected \in Seq(Chars)
    BY <1>2, <1>3, <2>1
  <2>6. Append(expected, v) = expected \o <<v>>
    <3> PICK S : S = Chars \cup {v}
      OBVIOUS
    <3>1. expected \in Seq(S) /\ v \in S
      BY <2>4, SeqMonotonic
    <3> QED
      BY <3>1, AppendIsConcat
  <2>7. expected \o <<>> = expected
    BY <2>4, ConcatEmptySeq
  <2> QED
    BY <1>4, <1>6, <2>1, <2>3, <2>6, <2>7 DEF Given
<1>7. Settled(t, down', typing', overlapped')
  <2>1. \A S : Held(S) <=> InSeq(down, S)
    BY DEF Held, InSeq
  <2>2. CASE Held({k})
    <3>1. InSeq(down, {k}) /\ down' = down /\ typing'.caps = typing.caps
      BY <2>1, <2>2
    <3> QED
      BY <1>1, <1>2, <1>3, <1>6, <3>1, RepeatSettles
  <2>3. CASE ~Held({k})
    <3>1. /\ ~InSeq(down, {k}) /\ down' = <<k>> \o down
          /\ typing'.caps = IF k = "CapsLock" THEN ~typing.caps ELSE typing.caps
      BY <2>1, <2>3
    <3>2. Pushed(down', down, k)
      BY <1>1, <3>1, PushKey
    <3>3. ~overlapped' => /\ k \in Shifts => ~InSeq(down, Shifts \ {k})
                          /\ k \in Ctrls => ~InSeq(down, Ctrls \ {k})
      BY <1>6, <2>1 DEF Overlaps
    <3> QED
      <4>1. t = Touched(s, Layout[k], FALSE)
        OBVIOUS
      <4>2. ~overlapped' => ~overlapped /\ typing'.accent = t.accent
        BY <1>6
      <4> QED
        BY <1>1, <1>2, <1>3, <3>1, <3>2, <3>3, <4>1, <4>2, PressSettles
  <2> QED
    BY <2>2, <2>3
<1>8. down' \in Seq(Keys) /\ Distinct(down')
  <2>1. CASE Held({k})
    BY <1>1, <2>1
  <2>2. CASE ~Held({k})
    <3>1. ~InSeq(down, {k}) /\ down' = <<k>> \o down
      BY <2>2 DEF Held, InSeq
    <3>2. <<k>> \o down \in Seq(Keys) /\ Distinct(<<k>> \o down)
      BY <1>1, <3>1, PushKey
    <3> QED
      BY <3>1, <3>2
  <2> QED
    BY <2>1, <2>2
<1>9. PICK fl : fl = Flags
  OBVIOUS
<1>10. fl = Flags'
  BY <1>9 DEF flags, Flags
<1>11. /\ Decodes(fl, queue', down', typing', expected', overlapped')
       /\ queue' \in Seq(ScanBytes)
  BY <1>1, <1>2, <1>3, <1>4, <1>6, <1>7, <1>9, TouchDecodes
<1> QED
  BY <1>5, <1>8, <1>10, <1>11, KInvAfter
LEMMA PressStep ==
    ASSUME KInv, NEW k \in Keys, Press(k)
    PROVE  KInv'
<1>1. /\ ~Held({k}) /\ down' = <<k>> \o down /\ Expect(k) /\ UNCHANGED flags
      /\ typing' = [caps |-> IF k = "CapsLock" THEN ~typing.caps ELSE typing.caps,
                    accent |-> IF overlapped' THEN NENHUM ELSE WantedAccent(k)]
  BY DEF Press
<1>2. /\ typing' = [caps |-> typing'.caps, accent |-> typing'.accent]
      /\ typing'.caps = IF k = "CapsLock" THEN ~typing.caps ELSE typing.caps
      /\ ~overlapped' => typing'.accent = WantedAccent(k)
  BY <1>1
<1> QED
  BY <1>1, <1>2, TouchStep

LEMMA RepeatStep ==
    ASSUME KInv, Repeat
    PROVE  KInv'
<1> PICK k : k = Head(down)
  OBVIOUS
<1>1. /\ down # <<>> /\ Expect(k) /\ down' = down /\ UNCHANGED flags
      /\ typing' = [typing EXCEPT !.accent = IF overlapped' THEN NENHUM
                                             ELSE WantedAccent(k)]
  BY DEF Repeat
<1>2. down \in Seq(Keys)
  BY DEF KInv
<1>3. k \in Keys /\ Held({k})
  <2>1. Len(down) \in Nat \ {0} /\ k = down[1]
    BY <1>1, <1>2, EmptySeq
  <2>2. 1 \in 1 .. Len(down)
    BY <2>1
  <2> QED
    BY <1>2, <2>1, <2>2, ElementOfSeq DEF Held
<1>4. /\ typing' = [caps |-> typing'.caps, accent |-> typing'.accent]
      /\ typing'.caps = typing.caps
      /\ ~overlapped' => typing'.accent = WantedAccent(k)
  <2>1. typing = [caps |-> typing.caps, accent |-> typing.accent]
    BY DEF KInv
  <2>2. typing' = [caps |-> typing.caps,
                   accent |-> IF overlapped' THEN NENHUM ELSE WantedAccent(k)]
    BY <1>1, <2>1
  <2> QED
    BY <2>2
<1> QED
  BY <1>1, <1>3, <1>4, TouchStep

LEMMA ReleaseStep ==
    ASSUME KInv, NEW k \in Keys, Release(k)
    PROVE  KInv'
<1>1. /\ down \in Seq(Keys) /\ Distinct(down) /\ queue \in Seq(ScanBytes)
      /\ overlapped \in BOOLEAN /\ k \in DOMAIN Layout
  BY KeysAssumption DEF KInv
<1>2. PICK s, out : /\ Yields(Flags, queue, s, out)
                    /\ Settled(s, down, typing, overlapped)
                    /\ ~overlapped => out = expected
  BY DEF KInv, Decodes
<1>3. s \in Decoder /\ ~s.e0 /\ out \in Seq(Chars)
  BY <1>1, <1>2, YieldsTypes DEF Settled
<1>4. PICK i \in 1 .. Len(down) : down[i] = k /\ down' = RemoveAt(down, i)
  BY DEF Release
<1>5. /\ queue' = queue \o Bytes(k, TRUE)
      /\ UNCHANGED <<typing, expected, overlapped, flags>>
  BY DEF Release
<1>6. /\ down' \in Seq(Keys) /\ Distinct(down') /\ Dropped(down', down, k)
  BY <1>1, <1>4, DropKey
<1>7. InSeq(down, {k})
  BY <1>4 DEF InSeq
<1> PICK up \in BOOLEAN : up = TRUE
  OBVIOUS
<1> PICK t, fl : /\ t = Touched(s, Layout[k], up)
               /\ fl = Flags
  OBVIOUS
<1>8. Settled(t, down', typing, overlapped)
  <2>1. t = Touched(s, Layout[k], TRUE)
    OBVIOUS
  <2> QED
    BY <1>1, <1>2, <1>3, <1>6, <1>7, <2>1, ReleaseSettles
<1>9. Given(TouchedValue(s, Layout[k], up)) = <<>>
  BY <1>1, <1>3, TouchedGives DEF Given
<1>10. ~overlapped => expected = expected \o Given(TouchedValue(s, Layout[k], up))
  BY <1>2, <1>3, <1>9, ConcatEmptySeq
<1>11. /\ Decodes(fl, queue', down', typing, expected, overlapped)
       /\ queue' \in Seq(ScanBytes)
  BY <1>1, <1>2, <1>3, <1>5, <1>8, <1>10, TouchDecodes
<1>12. fl = Flags'
  BY <1>5 DEF flags, Flags
<1>13. Decodes(fl, queue', down', typing', expected', overlapped')
  BY <1>5, <1>11
<1>14. /\ overlapped' \in BOOLEAN
       /\ typing' = [caps |-> typing'.caps, accent |-> typing'.accent]
  BY <1>1, <1>5 DEF KInv
<1> QED
  BY <1>6, <1>11, <1>12, <1>13, <1>14, KInvAfter

\* teclado_ler is the decoder reading one byte.
LEMMA LerDecodes ==
    ASSUME TecladoLer, Flags \in Decoder
    PROVE  /\ queue # <<>> /\ queue' = Tail(queue) /\ UNCHANGED user
           /\ Flags' = After(Flags, sc)
           /\ tecla' = Value(Flags, sc)
           /\ expected' = IF tecla' = TECLA_NENHUMA \/ expected = <<>> THEN expected
                          ELSE Tail(expected)
<1>0. /\ shift_pressionado \in BOOLEAN /\ capslock_ativo \in BOOLEAN
      /\ capslock_pressionado \in BOOLEAN /\ ctrl_pressionado \in BOOLEAN
      /\ e0_prefix \in BOOLEAN
  BY DEF Flags, Decoder
<1> PICK b : b = sc
  OBVIOUS
<1>1. /\ Flags.shift = shift_pressionado /\ Flags.caps = capslock_ativo
      /\ Flags.capsDown = capslock_pressionado /\ Flags.ctrl = ctrl_pressionado
      /\ Flags.e0 = e0_prefix /\ Flags.accent = acento_pendente
  BY DEF Flags
<1>2. ASSUME NEW v, Take(v), v = Value(Flags, b), Flags' = After(Flags, b)
      PROVE  /\ queue # <<>> /\ queue' = Tail(queue) /\ UNCHANGED user
             /\ Flags' = After(Flags, sc)
             /\ tecla' = Value(Flags, sc)
             /\ expected' = IF tecla' = TECLA_NENHUMA \/ expected = <<>> THEN expected
                            ELSE Tail(expected)
  BY <1>2 DEF Take
<1>3. CASE ReadPrefix
  <2>1. /\ b = E0 /\ e0_prefix' = TRUE /\ Take(TECLA_NENHUMA)
        /\ UNCHANGED <<shift_pressionado, capslock_ativo, capslock_pressionado,
                       ctrl_pressionado, acento_pendente>>
    BY <1>3 DEF ReadPrefix
  <2>2. Value(Flags, b) = TECLA_NENHUMA
    BY <2>1 DEF Value
  <2>3. Flags' = After(Flags, b)
    BY <1>1, <2>1 DEF After, Flags
  <2> QED
    BY <1>2, <2>1, <2>2, <2>3
<1>4. CASE ReadExtended
  <2>1. /\ b # E0 /\ e0_prefix /\ e0_prefix' = FALSE
        /\ ctrl_pressionado' = IF b.code = "CTRL" THEN ~b.up ELSE ctrl_pressionado
        /\ Take(IF b.up THEN TECLA_NENHUMA ELSE ExtendedKey(b.code))
        /\ UNCHANGED <<shift_pressionado, capslock_ativo, capslock_pressionado,
                       acento_pendente>>
    BY <1>4 DEF ReadExtended
  <2>2. Value(Flags, b) = IF b.up THEN TECLA_NENHUMA ELSE ExtendedKey(b.code)
    BY <1>1, <2>1 DEF Value
  <2>3. Flags' = After(Flags, b)
    BY <1>1, <2>1 DEF After, Flags
  <2> QED
    BY <1>2, <2>1, <2>2, <2>3
<1>5. CASE ReadModifier
  <2>1. /\ b # E0 /\ ~e0_prefix /\ b.code \in Modifiers /\ e0_prefix' = e0_prefix
        /\ shift_pressionado' = IF b.code \in {"SHIFT_L", "SHIFT_R"} THEN ~b.up
                                ELSE shift_pressionado
        /\ ctrl_pressionado' = IF b.code = "CTRL" THEN ~b.up ELSE ctrl_pressionado
        /\ capslock_pressionado' = IF b.code = "CAPSLOCK" THEN ~b.up
                                   ELSE capslock_pressionado
        /\ capslock_ativo' = IF b.code = "CAPSLOCK" /\ ~b.up /\ ~capslock_pressionado
                             THEN ~capslock_ativo ELSE capslock_ativo
        /\ acento_pendente' = acento_pendente /\ Take(TECLA_NENHUMA)
    BY <1>5 DEF ReadModifier, PlainByte
  <2>2. Value(Flags, b) = TECLA_NENHUMA
    BY <1>1, <2>1 DEF Value
  <2>3. Flags' = After(Flags, b)
    BY <1>0, <1>1, <2>1 DEF After, Flags
  <2> QED
    BY <1>2, <2>1, <2>2, <2>3
<1>6. CASE ReadOther
  <2>1. /\ b # E0 /\ ~e0_prefix /\ b.code \notin Modifiers /\ (b.up \/ ctrl_pressionado)
        /\ Take(IF b.up THEN TECLA_NENHUMA ELSE CtrlKey(b.code))
        /\ UNCHANGED flags
    BY <1>6 DEF ReadOther, PlainByte
  <2>2. Value(Flags, b) = IF b.up THEN TECLA_NENHUMA ELSE CtrlKey(b.code)
    BY <1>1, <2>1 DEF Value
  <2>3. Flags' = After(Flags, b)
    BY <1>0, <1>1, <2>1 DEF After, Flags, flags, Modifiers
  <2> QED
    BY <1>2, <2>1, <2>2, <2>3
<1>7. CASE ReadChar
  <2>1. /\ b # E0 /\ ~e0_prefix /\ b.code \notin Modifiers /\ ~b.up
        /\ ~ctrl_pressionado
        /\ Take(KeyChar(b.code, shift_pressionado, capslock_ativo, acento_pendente))
        /\ acento_pendente' = KeyAccent(b.code, shift_pressionado, acento_pendente)
        /\ UNCHANGED <<shift_pressionado, capslock_ativo, capslock_pressionado,
                       ctrl_pressionado, e0_prefix>>
    BY <1>7 DEF ReadChar, PlainByte
  <2>2. Value(Flags, b)
          = KeyChar(b.code, shift_pressionado, capslock_ativo, acento_pendente)
    BY <1>1, <2>1 DEF Value
  <2>3. Flags' = After(Flags, b)
    BY <1>0, <1>1, <2>1 DEF After, Flags, Modifiers
  <2> QED
    BY <1>2, <2>1, <2>2, <2>3
<1> QED
  BY <1>3, <1>4, <1>5, <1>6, <1>7 DEF TecladoLer
\* A byte is read: what it gives is the next character expected.
LEMMA LerStep ==
    ASSUME KInv, TecladoLer
    PROVE  /\ KInv'
           /\ ~overlapped /\ tecla' # TECLA_NENHUMA =>
                 expected # <<>> /\ tecla' = Head(expected)
<1>1. /\ down \in Seq(Keys) /\ Distinct(down) /\ queue \in Seq(ScanBytes)
      /\ overlapped \in BOOLEAN
      /\ typing = [caps |-> typing.caps, accent |-> typing.accent]
  BY DEF KInv
<1>2. PICK t, out : /\ Yields(Flags, queue, t, out)
                    /\ Settled(t, down, typing, overlapped)
                    /\ ~overlapped => out = expected
  BY DEF KInv, Decodes
<1>3. Flags \in Decoder /\ out \in Seq(Chars)
  BY <1>1, <1>2, YieldsTypes
<1>4. /\ queue # <<>> /\ queue' = Tail(queue) /\ UNCHANGED user
      /\ Flags' = After(Flags, sc)
      /\ tecla' = Value(Flags, sc)
      /\ expected' = IF tecla' = TECLA_NENHUMA \/ expected = <<>> THEN expected
                     ELSE Tail(expected)
  BY <1>3, LerDecodes
<1>5. PICK rest \in Seq(Chars) :
         /\ out = Given(Value(Flags, sc)) \o rest
         /\ Yields(After(Flags, sc), Tail(queue), t, rest)
  BY <1>1, <1>2, <1>4, YieldsTail DEF sc
<1>6. ASSUME ~overlapped
      PROVE  /\ expected' = rest
             /\ tecla' # TECLA_NENHUMA => expected # <<>> /\ tecla' = Head(expected)
  <2> PICK v : v = Value(Flags, sc)
    OBVIOUS
  <2>1. expected = Given(v) \o rest /\ expected \in Seq(Chars) /\ tecla' = v
    BY <1>2, <1>3, <1>4, <1>5, <1>6
  <2>2. CASE v = TECLA_NENHUMA
    <3>1. <<>> \o rest = rest
      BY ConcatEmptySeq
    <3> QED
      BY <1>4, <2>1, <2>2, <3>1 DEF Given
  <2>3. CASE v # TECLA_NENHUMA
    <3> PICK S : S = Chars \cup {v}
      OBVIOUS
    <3>1. rest \in Seq(S) /\ <<v>> \in Seq(S) /\ Len(<<v>>) = 1 /\ <<v>>[1] = v
      <4>1. rest \in Seq(S)
        BY SeqMonotonic
      <4> QED
        BY <4>1
    <3>2. expected = <<v>> \o rest
      BY <2>1, <2>3 DEF Given
    <3>3. /\ expected \in Seq(S) /\ Len(expected) = 1 + Len(rest)
          /\ \A i \in 1 .. 1 + Len(rest) :
                expected[i] = IF i <= 1 THEN <<v>>[i] ELSE rest[i - 1]
      BY <3>1, <3>2, ConcatProperties
    <3>4. Len(rest) \in Nat
      BY <3>1
    <3>5. expected # <<>> /\ Head(expected) = v
      <4>1. 1 \in 1 .. 1 + Len(rest)
        BY <3>4
      <4>2. Len(expected) # 0 /\ expected[1] = v
        BY <3>1, <3>3, <3>4, <4>1
      <4> QED
        BY <3>3, <4>2, EmptySeq
    <3>6. Tail(expected) = rest
      <4>1. /\ Tail(expected) \in Seq(S) /\ Len(Tail(expected)) = Len(rest)
            /\ \A i \in 1 .. Len(rest) : Tail(expected)[i] = expected[i + 1]
        <5>1. /\ Tail(expected) \in Seq(S) /\ Len(Tail(expected)) = Len(expected) - 1
              /\ \A i \in 1 .. Len(Tail(expected)) : Tail(expected)[i] = expected[i + 1]
          BY <3>3, <3>5, HeadTailProperties
        <5>2. Len(expected) - 1 = Len(rest)
          BY <3>3, <3>4
        <5> QED
          BY <5>1, <5>2
      <4>2. \A i \in 1 .. Len(rest) : Tail(expected)[i] = rest[i]
        <5> TAKE i \in 1 .. Len(rest)
        <5>1. i + 1 \in 1 .. 1 + Len(rest) /\ ~(i + 1 <= 1) /\ (i + 1) - 1 = i
          BY <3>4
        <5>2. expected[i + 1] = rest[(i + 1) - 1]
          BY <3>3, <5>1
        <5> QED
          BY <4>1, <5>1, <5>2
      <4> QED
        BY <3>1, <4>1, <4>2, SeqEqual
    <3> QED
      BY <1>4, <2>1, <2>3, <3>5, <3>6
  <2> QED
    BY <2>2, <2>3
<1>7. /\ down' = down /\ typing' = typing /\ overlapped' = overlapped
  BY <1>4 DEF user
<1> PICK fl : fl = Flags'
  OBVIOUS
<1>8. Decodes(fl, queue', down', typing', expected', overlapped')
  <2>1. /\ Yields(fl, queue', t, rest) /\ Settled(t, down', typing', overlapped')
        /\ ~overlapped' => rest = expected'
    BY <1>2, <1>4, <1>5, <1>6, <1>7
  <2> QED
    BY <2>1 DEF Decodes
<1>9. queue' \in Seq(ScanBytes)
  BY <1>1, <1>4, HeadTailProperties
<1>10. KInv'
  BY <1>1, <1>7, <1>8, <1>9, KInvAfter
<1> QED
  BY <1>6, <1>10

LEMMA KInvStep ==
    KInv /\ [Next]_vars => KInv'
<1> SUFFICES ASSUME KInv, [Next]_vars PROVE KInv'
  OBVIOUS
<1>1. ASSUME NEW k \in Keys, Press(k) PROVE KInv'
  BY <1>1, PressStep
<1>2. ASSUME NEW k \in Keys, Release(k) PROVE KInv'
  BY <1>2, ReleaseStep
<1>3. CASE Repeat
  BY <1>3, RepeatStep
<1>4. CASE TecladoLer
  BY <1>4, LerStep
<1>5. CASE UNCHANGED vars
  <2>1. /\ UNCHANGED <<down, queue, typing, expected, overlapped>>
        /\ Flags' = Flags
    BY <1>5 DEF vars, flags, Flags
  <2> QED
    BY <2>1 DEF KInv
<1> QED
  BY <1>1, <1>2, <1>3, <1>4, <1>5 DEF Next

\* Whatever is touched and however late it is read, the bytes waiting will
\* leave the flags of the keys held, and give what the user expects.
THEOREM KInvAlways == Spec => []KInv
<1> QED
  BY KInvInit, KInvStep, PTL DEF Spec

\* Once the bytes are read the flags are those the invariant settles on.
LEMMA KInvDrained ==
    ASSUME KInv, Drained
    PROVE  Settled(Flags, down, typing, overlapped) /\ (~overlapped => expected = <<>>)
<1>1. PICK t, out : /\ Yields(Flags, queue, t, out)
                    /\ Settled(t, down, typing, overlapped)
                    /\ ~overlapped => out = expected
  BY DEF KInv, Decodes
<1>2. t = Flags /\ out = <<>>
  BY <1>1, NothingYielded DEF Drained
<1> QED
  BY <1>1, <1>2

LEMMA KInvModifiers == KInv => NoStuckModifier
<1> SUFFICES ASSUME KInv, Drained
             PROVE  /\ ~Held(Shifts) => ~shift_pressionado
                    /\ ~Held(Ctrls) => ~ctrl_pressionado
                    /\ capslock_pressionado = Held({"CapsLock"})
                    /\ capslock_ativo = typing.caps
                    /\ ~overlapped => acento_pendente = typing.accent
  BY DEF NoStuckModifier
<1>1. Settled(Flags, down, typing, overlapped)
  BY KInvDrained
<1>2. Flags \in Decoder
  BY YieldsTypes DEF KInv, Decodes
<1>3. /\ Flags.shift = shift_pressionado /\ Flags.caps = capslock_ativo
      /\ Flags.capsDown = capslock_pressionado /\ Flags.ctrl = ctrl_pressionado
      /\ Flags.accent = acento_pendente
  BY DEF Flags
<1>4. capslock_pressionado \in BOOLEAN
  BY <1>2, <1>3 DEF Decoder
<1>5. \A S : Held(S) <=> InSeq(down, S)
  BY DEF Held, InSeq
<1>6. capslock_pressionado <=> Held({"CapsLock"})
  BY <1>1, <1>3, <1>5 DEF Settled
<1>7. capslock_pressionado = Held({"CapsLock"})
  BY <1>4, <1>6 DEF Held
<1> QED
  BY <1>1, <1>3, <1>5, <1>7 DEF Settled

\* No modifier sticks: once every byte has been read, the flags are those of
\* the keys held, whatever was pressed, repeated and released meanwhile.
THEOREM NeverStuck == Spec => []NoStuckModifier
<1> QED
  BY KInvAlways, KInvModifiers, PTL
LEMMA StepTyped ==
    ASSUME KInv, KInv', [Next]_vars, ~overlapped'
    PROVE  /\ TecladoLer /\ tecla' # TECLA_NENHUMA =>
                 expected # <<>> /\ tecla' = Head(expected)
           /\ queue' = <<>> => expected' = <<>>
<1>1. ASSUME TecladoLer, tecla' # TECLA_NENHUMA
      PROVE  expected # <<>> /\ tecla' = Head(expected)
  <2>1. overlapped' = overlapped
    BY <1>1, LerDecodes, YieldsTypes DEF KInv, Decodes, user
  <2> QED
    BY <1>1, <2>1, LerStep
<1>2. ASSUME queue' = <<>> PROVE expected' = <<>>
  <2>1. PICK fl : fl = Flags'
    OBVIOUS
  <2>2. Decodes(fl, queue', down', typing', expected', overlapped')
    BY <2>1 DEF KInv
  <2>3. PICK t, out : Yields(fl, queue', t, out) /\ out = expected'
    BY <2>2 DEF Decodes
  <2> QED
    BY <1>2, <2>3, NothingYielded
<1> QED
  BY <1>1, <1>2

\* Every value teclado_ler returns is the next one the user expects, and none
\* is missing once the bytes have been read.
THEOREM AlwaysTypedAsHeld == Spec => TypedAsHeld
<1>1. KInv /\ KInv' /\ [Next]_vars
        => [~overlapped' =>
               /\ TecladoLer /\ tecla' # TECLA_NENHUMA =>
                     expected # <<>> /\ tecla' = Head(expected)
               /\ queue' = <<>> => expected' = <<>>]_vars
  BY StepTyped
<1> QED
  BY <1>1, KInvAlways, PTL DEF Spec, TypedAsHeld

LEMMA DistinctCount ==
    ASSUME NEW T, NEW q \in Seq(T), Distinct(q)
    PROVE  Cardinality({q[k] : k \in DOMAIN q}) = Len(q)
<1> PICK n, S : n = Len(q) /\ S = {q[k] : k \in DOMAIN q}
  OBVIOUS
<1>1. /\ n \in Nat /\ DOMAIN q = 1 .. n /\ q \in [1 .. n -> T]
      /\ \A i, j \in 1 .. n : i # j => q[i] # q[j]
  BY LenProperties DEF Distinct
<1>2. q \in [1 .. n -> S] /\ \A x \in S : \E i \in 1 .. n : q[i] = x
  BY <1>1
<1>3. q \in Surjection(1 .. n, S)
  BY <1>2 DEF Surjection
<1>4. q \in Injection(1 .. n, S)
  BY <1>1, <1>2 DEF Injection, IsInjective
<1>5. IsFiniteSet(1 .. n) /\ Cardinality(1 .. n) = n
  <2>1. 1 \in Int /\ n \in Int
    BY <1>1
  <2>2. /\ IsFiniteSet(1 .. n)
        /\ Cardinality(1 .. n) = IF 1 > n THEN 0 ELSE n - 1 + 1
    BY <2>1, FS_Interval
  <2> QED
    BY <1>1, <2>2
<1> QED
  BY <1>3, <1>4, <1>5, FS_Surjection

LEMMA KInvTypes == KInv => TypeOK
<1> SUFFICES ASSUME KInv PROVE TypeOK
  OBVIOUS
<1>1. Flags \in Decoder
  BY YieldsTypes DEF KInv, Decodes
<1>2. /\ shift_pressionado \in BOOLEAN /\ capslock_ativo \in BOOLEAN
      /\ capslock_pressionado \in BOOLEAN /\ ctrl_pressionado \in BOOLEAN
      /\ e0_prefix \in BOOLEAN /\ acento_pendente \in Accents
  BY <1>1 DEF Flags, Decoder
<1>3. /\ down \in Seq(Keys)
      /\ Cardinality({down[k] : k \in DOMAIN down}) = Len(down)
  BY DistinctCount DEF KInv
<1>4. e0_prefix => queue # <<>>
  <2>1. Drained => ~Flags.e0
    BY KInvDrained DEF Settled
  <2> QED
    BY <2>1 DEF Drained, Flags
<1> QED
  BY <1>2, <1>3, <1>4 DEF TypeOK, Accents

\* A key is held once, the flags are flags, and no prefix is remembered when
\* nothing follows it.
THEOREM KeyboardTypeCorrect == Spec => []TypeOK
<1> QED
  BY KInvAlways, KInvTypes, PTL
=============================================================================
