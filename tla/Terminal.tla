------------------------------ MODULE Terminal ------------------------------
(***************************************************************************)
(* What libuv writes to a Windows console (win/tty.c): bytes are decoded   *)
(* from UTF-8, escape sequences are turned into console calls, and text is *)
(* gathered in a buffer and emitted.  The parser survives from one write   *)
(* to the next in the handle, and is cached in locals while a write runs.  *)
(***************************************************************************)
EXTENDS Integers, SequencesExt

CONSTANTS Width, Height,       \* of the console's buffer
          MaxConsoleChar,      \* MAX_CONSOLE_CHAR, the characters gathered at most
          WindowHeights,       \* what the user may size the window to
          Vocabularies,        \* by their names, sets of byte strings, one of which a behaviour writes in
          VtermWords,          \* those written to consoles with virtual terminal support too
          MaxPhrases,          \* bound on the strings written
          DefaultStyle         \* what the console looked like at first

VARIABLES tty,        \* the terminal, parsed so far
          whole,      \* history: the same, had all been one write without an error
          stored,     \* the parser as the handle holds it between writes
          writing,    \* in uv_tty_write_bufs, which holds uv_tty_output_lock
          words,      \* the byte strings this behaviour writes in
          rest,       \* the bytes of the current one still to come
          phrases,
          broken      \* history: a call of the console has failed

terminalVars == <<tty, whole, stored, writing, words, rest, phrases, broken>>

BEL == 7  LF == 10  CR == 13  ESC == 27
Replacement == 65533           \* UNICODE_REPLACEMENT_CHARACTER
C == [at |-> 64, bracket |-> 91, backslash |-> 92, under |-> 95, tilde |-> 126, semicolon |-> 59,
      question |-> 63, quote |-> 34, caret |-> 94]
MaxArgs == 4                   \* ARRAY_SIZE(ansi_csi_argv)

Parser == {"utf8_bytes_left", "utf8_codepoint", "previous_eol", "ansi_parser_state", "bits"}

-----------------------------------------------------------------------------
(* The console. *)

\* A character printed: it moves the caret, and the buffer scrolls under its last row.
NextRow(t) == IF t.y = Height - 1 THEN t ELSE [t EXCEPT !.y = @ + 1]

PutChar(t, c) ==
    CASE c = CR -> [t EXCEPT !.x = 0]
      [] c = LF -> NextRow(t)
      [] OTHER -> IF t.x = Width - 1 THEN NextRow([t EXCEPT !.x = 0]) ELSE [t EXCEPT !.x = @ + 1]

EmitText(t) == IF t.error THEN t ELSE [FoldLeft(PutChar, t, t.buffer) EXCEPT !.moved = FALSE]

\* A console with virtual terminal support draws the text itself: buffer keeps what it was given.
FlushText(t) == IF t.vterm THEN t ELSE [EmitText(t) EXCEPT !.buffer = << >>]

ToRange(n, low, high) == IF n < low THEN low ELSE IF n > high THEN high ELSE n

\* The rows libuv takes for the screen follow a caret that has scrolled below them.
VirtualWindow(t) ==
    LET followed == IF t.offset = -1 THEN t.y
                    ELSE IF t.offset < t.y - t.rows + 1 THEN t.y - t.rows + 1 ELSE t.offset
        kept == IF followed + t.rows > Height THEN Height - t.rows ELSE followed
    IN  [t EXCEPT !.offset = IF kept < 0 THEN 0 ELSE kept]

\* In a window w, a column and a row that may be relative to the caret's.
RealCoord(w, x, xRelative, y, yRelative) ==
    [x |-> ToRange(IF xRelative THEN w.x + x ELSE x, 0, Width - 1),
     y |-> ToRange(IF yRelative THEN w.y + y ELSE w.offset + y, w.offset, w.offset + w.rows - 1)]

CaretAt(w, to) == [w EXCEPT !.x = to.x, !.y = to.y, !.moved = TRUE]

MoveInWindow(w, m) == CaretAt(w, RealCoord(w, m.x, m.xRelative, m.y, m.yRelative))

MoveCaret(t, m) == IF t.error THEN t ELSE MoveInWindow(VirtualWindow(t), m)

\* The style as the console holds it: while it is inverse, the colours are swapped.
Flip(a) == [a EXCEPT !.fg = a.bg, !.bg = a.fg, !.fg_bright = a.bg_bright, !.bg_bright = a.fg_bright]

Encode(a) == IF a.inverse THEN Flip(a) ELSE a

\* uv_tty_capture_initial_style: white on black stands for black on black.
InitialStyle ==
    IF DefaultStyle = [fg |-> 0, bg |-> 0, fg_bright |-> FALSE, bg_bright |-> FALSE, inverse |-> FALSE]
    THEN [DefaultStyle EXCEPT !.fg = 7] ELSE DefaultStyle

Reset(t) ==
    IF t.error THEN t
    ELSE VirtualWindow([t EXCEPT !.attributes = InitialStyle, !.style = InitialStyle, !.x = 0, !.y = 0, !.offset = 0, !.moved = FALSE])

\* The range erased goes from the caret or the start to the caret or the end, of the row
\* or of the screen.
CellAt(at) == at.y * Width + at.x

ClearInWindow(w, dir, entire) ==
    LET far == 65535
        x2 == IF dir = 1 THEN 0 ELSE far
        start == RealCoord(w, 0, dir = 0, 0, IF entire THEN dir = 0 ELSE TRUE)
        end == RealCoord(w, x2, dir = 1, IF entire THEN x2 ELSE 0, IF entire THEN dir = 1 ELSE TRUE)
    IN  [w EXCEPT !.erased = [from |-> start, count |-> CellAt(end) - CellAt(start) + 1]]

Clear(t, dir, entire) == IF t.error THEN t ELSE ClearInWindow(VirtualWindow(t), dir, entire)

\* One argument of the style sequence adds to what is to be set.
SetStyle(set, arg) ==
    CASE arg = 0 -> InitialStyle
      [] arg = 1 -> ("fg_bright" :> TRUE) @@ set
      [] arg = 2 -> ("fg_bright" :> FALSE @@ "bg_bright" :> FALSE) @@ set
      [] arg = 5 -> ("bg_bright" :> TRUE) @@ set
      [] arg = 7 -> ("inverse" :> TRUE) @@ set
      [] arg \in {21, 22} -> ("fg_bright" :> FALSE) @@ set
      [] arg = 25 -> ("bg_bright" :> FALSE) @@ set
      [] arg = 27 -> ("inverse" :> FALSE) @@ set
      [] arg \in 30..37 -> ("fg" :> arg - 30) @@ set
      [] arg = 39 -> ("fg" :> InitialStyle.fg @@ "fg_bright" :> InitialStyle.fg_bright) @@ set
      [] arg \in 40..47 -> ("bg" :> arg - 40) @@ set
      [] arg = 49 -> ("bg" :> InitialStyle.bg @@ "bg_bright" :> InitialStyle.bg_bright) @@ set
      [] arg \in 90..97 -> ("fg" :> arg - 90 @@ "fg_bright" :> TRUE) @@ set
      [] arg \in 100..107 -> ("bg" :> arg - 100 @@ "bg_bright" :> TRUE) @@ set
      [] OTHER -> set

StyleArgs(t) == IF t.argv = << >> THEN <<0>> ELSE t.argv

\* What was gathered is set at once on the attributes of the console, swapped back for
\* that while they are inverse.  An earlier error does not keep the style from being set.
ApplyStyle(t) ==
    LET set == FoldLeft(SetStyle, << >>, StyleArgs(t))
        now == IF t.attributes.inverse THEN Flip(t.attributes) ELSE t.attributes
    IN  IF DOMAIN set = {} THEN t
        ELSE [t EXCEPT !.attributes = Encode(set @@ now), !.style = FoldLeft(SetStyle, @, StyleArgs(t))]

SaveInWindow(w, attributes) ==
    [w EXCEPT !.saved = [x |-> w.x, y |-> w.y - w.offset],
              !.saved_bright = IF attributes
                               THEN [fg |-> w.attributes.fg_bright, bg |-> w.attributes.bg_bright] ELSE @]

SaveState(t, attributes) == IF t.error THEN t ELSE SaveInWindow(VirtualWindow(t), attributes)

\* Of the attributes only the brightness is saved, of whichever colour is in its place.
RestoreState(t, attributes) ==
    LET moved == IF t.saved.x = -1 THEN t ELSE MoveCaret(t, [x |-> t.saved.x, xRelative |-> FALSE, y |-> t.saved.y, yRelative |-> FALSE])
    IN  IF t.error \/ ~attributes \/ DOMAIN t.saved_bright = {} THEN moved
        ELSE [moved EXCEPT !.attributes.fg_bright = t.saved_bright.fg,
                           !.attributes.bg_bright = t.saved_bright.bg]

-----------------------------------------------------------------------------
(* The parser.  The states of the code are a state proper and the bits added to it. *)

To(t, state) == [t EXCEPT !.ansi_parser_state = state, !.bits = {}]
Set(t, bit) == [t EXCEPT !.bits = @ \cup {bit}]
Unset(t, bit) == [t EXCEPT !.bits = @ \ {bit}]
StartCsi(t) == [To(t, "CSI") EXCEPT !.argv = << >>]

\* A digit: 16 bits hold an argument, and the check for overflow is made before the digit
\* is added.
Digit(t, d) ==
    LET n == Len(t.argv)
    IN  IF "IN_ARG" \notin t.bits
        THEN IF n >= MaxArgs THEN Set(t, "IGNORE")
             ELSE Set([t EXCEPT !.argv = Append(@, d)], "IN_ARG")
        ELSE IF 10 * t.argv[n] > 65535 THEN Set(t, "IGNORE")
             ELSE [t EXCEPT !.argv[n] = (10 * @ + d) % 65536]

Semicolon(t) ==
    IF "IN_ARG" \in t.bits THEN Unset(t, "IN_ARG")
    ELSE IF Len(t.argv) >= MaxArgs THEN Set(t, "IGNORE")
    ELSE [t EXCEPT !.argv = Append(@, 0)]

Arg(t, i, default) == IF Len(t.argv) >= i THEN t.argv[i] ELSE default
Position(t, i) == IF Arg(t, i, 0) = 0 THEN 0 ELSE Arg(t, i, 0) - 1

\* Where a byte moves the caret: a column, a row, and whether each is relative.
CaretMove(t, c) ==
    LET n == Arg(t, 1, 1)
    IN  CASE c = 65 -> [x |-> 0, xRelative |-> TRUE, y |-> -n, yRelative |-> TRUE]                  \* A
          [] c = 66 -> [x |-> 0, xRelative |-> TRUE, y |-> n, yRelative |-> TRUE]                   \* B
          [] c = 67 -> [x |-> n, xRelative |-> TRUE, y |-> 0, yRelative |-> TRUE]                   \* C
          [] c = 68 -> [x |-> -n, xRelative |-> TRUE, y |-> 0, yRelative |-> TRUE]                  \* D
          [] c = 69 -> [x |-> 0, xRelative |-> FALSE, y |-> n, yRelative |-> TRUE]                  \* E
          [] c = 70 -> [x |-> 0, xRelative |-> FALSE, y |-> -n, yRelative |-> TRUE]                 \* F
          [] c = 71 -> [x |-> Position(t, 1), xRelative |-> FALSE, y |-> 0, yRelative |-> TRUE]     \* G
          [] c \in {72, 102} ->                                                                     \* H f
                [x |-> Position(t, 2), xRelative |-> FALSE, y |-> Position(t, 1), yRelative |-> FALSE]

\* The byte that ends a sequence; t is s with its text flushed, as every command begins.
Command(t, s, c) ==
    CASE c \in 65..72 \cup {102} -> MoveCaret(t, CaretMove(t, c))
      [] c = 74 -> IF Arg(t, 1, 0) \in 0..2 THEN Clear(t, Arg(t, 1, 0), TRUE) ELSE t  \* J
      [] c = 75 -> IF Arg(t, 1, 0) \in 0..2 THEN Clear(t, Arg(t, 1, 0), FALSE) ELSE t  \* K
      [] c = 109 -> ApplyStyle(t)  \* m
      [] c = 115 -> SaveState(t, FALSE)  \* s
      [] c = 117 -> RestoreState(t, FALSE)  \* u
      [] c \in {108, 104} /\ t.argv = <<25>> -> [t EXCEPT !.visible = (c = 104)]  \* l h
      [] OTHER -> s

ParseCsi(t, c) ==
    CASE "IGNORE" \in t.bits -> IF c \in C.at..C.tilde THEN To(t, "NORMAL") ELSE t
      [] "IGNORE" \notin t.bits /\ c \in 48..57 -> Digit(t, c - 48)
      [] "IGNORE" \notin t.bits /\ c = C.semicolon -> Semicolon(t)
      [] "IGNORE" \notin t.bits /\ c = C.question /\ "IN_ARG" \notin t.bits /\ t.argv = << >> -> t
      [] "IGNORE" \notin t.bits /\ c \in C.at..C.tilde /\ (t.argv # << >> \/ c # C.bracket) ->
            To(Command(FlushText(t), t, c), "NORMAL")
      [] OTHER -> Set(t, "IGNORE")

\* A control string the console has no use for, up to BEL or ESC \, its quoted parts apart.
ParseString(t, c) ==
    IF "IN_STRING" \in t.bits
    THEN IF "BACKSLASH_SEEN" \in t.bits THEN Unset(t, "BACKSLASH_SEEN")
         ELSE IF c = C.quote THEN Unset(t, "IN_STRING")
         ELSE IF c = C.backslash THEN Set(t, "BACKSLASH_SEEN") ELSE t
    ELSE IF c = BEL \/ (c = C.backslash /\ "ESCAPE_SEEN" \in t.bits) THEN To(t, "NORMAL")
    ELSE IF c = ESC THEN Set(t, "ESCAPE_SEEN")
    ELSE IF c = C.quote THEN [t EXCEPT !.bits = {"IN_STRING"}]
    ELSE Unset(t, "ESCAPE_SEEN")

Gather(t, text, eol) ==
    LET room == IF Len(text) > MaxConsoleChar - Len(t.buffer) THEN FlushText(t) ELSE t
    IN  [room EXCEPT !.buffer = @ \o text, !.previous_eol = eol]

\* A line ends with \r\n on the console whichever of \n, \r\n and \n\r was written.
Text(t, point) ==
    LET c == IF point > 65535 THEN Replacement ELSE point
    IN  CASE c = LF /\ t.previous_eol # CR -> Gather(t, <<CR, LF>>, LF)
          [] c = CR /\ t.previous_eol = LF -> [t EXCEPT !.previous_eol = CR]
          [] c \in {LF, CR} /\ ~(c = LF /\ t.previous_eol # CR) /\ ~(c = CR /\ t.previous_eol = LF) ->
                Gather(t, <<c>>, c)
          [] OTHER -> Gather(t, <<c>>, 0)

ParseEscape(t, c) ==
    CASE c = C.bracket -> StartCsi(t)
      [] c \in {C.caret, C.under, 80, 93} -> To(t, "ST_CONTROL")
      [] c = ESC -> t
      [] c = 99 -> To(Reset(FlushText(t)), "NORMAL")
      [] c = 55 -> To(SaveState(FlushText(t), TRUE), "NORMAL")
      [] c = 56 -> To(RestoreState(FlushText(t), TRUE), "NORMAL")
      [] c \in (C.at..C.under) \ {C.bracket, C.caret, C.under, 80, 93} -> To(t, "NORMAL")
      [] OTHER -> Text(To(t, "NORMAL"), c)

\* Of a console with virtual terminal support a character is only converted.
Parse(t) ==
    LET c == t.utf8_codepoint
    IN  CASE t.vterm -> [t EXCEPT !.buffer = Append(@, c)]
          [] t.ansi_parser_state = "NORMAL" -> IF c = ESC THEN To(t, "ESCAPE_SEEN")
                                               ELSE IF c = 155 THEN StartCsi(t) ELSE Text(t, c)
          [] t.ansi_parser_state = "ESCAPE_SEEN" -> ParseEscape(t, c)
          [] t.ansi_parser_state = "CSI" -> ParseCsi(t, c)
          [] t.ansi_parser_state = "ST_CONTROL" -> ParseString(t, c)

\* The start byte of a character, by its first zero bit; the inputs have characters of at
\* most four bytes.
StartByte(t, c) ==
    LET bit == CHOOSE k \in 0..5 : c \in (256 - 2^(k + 1))..(255 - 2^k)
    IN  CASE c < 128 -> Parse([t EXCEPT !.utf8_codepoint = c])
          [] c \in 192..254 -> [t EXCEPT !.utf8_codepoint = c % 2^bit, !.utf8_bytes_left = 6 - bit]
          [] OTHER -> Parse([t EXCEPT !.utf8_codepoint = Replacement])

Byte(t, c) ==
    IF t.utf8_bytes_left = 0 THEN StartByte(t, c)
    ELSE IF c \in 128..191
    THEN LET u == [t EXCEPT !.utf8_bytes_left = @ - 1, !.utf8_codepoint = 64 * @ + (c % 64)]
         IN  IF u.utf8_bytes_left = 0 THEN Parse(u) ELSE u
    ELSE StartByte(Parse([t EXCEPT !.utf8_bytes_left = 0, !.utf8_codepoint = Replacement]), c)

-----------------------------------------------------------------------------

NewTerminal ==
    [utf8_bytes_left |-> 0, utf8_codepoint |-> 0, previous_eol |-> 0, ansi_parser_state |-> "NORMAL", bits |-> {},
     argv |-> << >>, saved |-> [x |-> -1, y |-> -1], saved_bright |-> << >>,
     x |-> 0, y |-> 0, offset |-> 0, rows |-> CHOOSE h \in WindowHeights : TRUE,
     attributes |-> DefaultStyle, style |-> DefaultStyle, visible |-> TRUE,
     moved |-> FALSE, erased |-> [from |-> [x |-> 0, y |-> 0], count |-> 1],
     buffer |-> << >>, error |-> FALSE, vterm |-> FALSE, cut |-> FALSE]

ParserOf(t) == [f \in Parser |-> t[f]]

TerminalInit ==
    /\ words \in DOMAIN Vocabularies
    /\ \E vterm \in {FALSE} \cup {v \in {TRUE} : words \in VtermWords} :
          tty = [NewTerminal EXCEPT !.vterm = vterm] /\ whole = tty
    /\ stored = ParserOf(NewTerminal)
    /\ writing = FALSE /\ rest = << >> /\ phrases = 0 /\ broken = FALSE

\* uv_tty_write_bufs caches the parser.
BeginWrite ==
    /\ ~writing
    /\ tty' = [f \in DOMAIN tty |-> IF f \in Parser THEN stored[f] ELSE IF f = "error" THEN FALSE ELSE tty[f]]
    /\ writing' = TRUE
    /\ UNCHANGED <<whole, stored, words, rest, phrases, broken>>

WriteByte(c) ==
    /\ writing
    /\ tty' = Byte(tty, c)
    /\ whole' = Byte(whole, c)
    /\ UNCHANGED <<stored, writing, words, broken>>

NextPhrase ==
    /\ rest = << >> /\ phrases < MaxPhrases
    /\ \E s \in Vocabularies[words] : WriteByte(Head(s)) /\ rest' = Tail(s)
    /\ phrases' = phrases + 1

NextByte ==
    /\ rest # << >>
    /\ WriteByte(Head(rest)) /\ rest' = Tail(rest)
    /\ UNCHANGED phrases

\* Mutant: the end of line seen last is not copied back.
CachedLessEol(t) == [ParserOf(t) EXCEPT !.previous_eol = stored.previous_eol]

Cached(t) == ParserOf(t)

\* The write ends, between any two bytes: the text is flushed and the parser copied back.
EndWrite ==
    /\ writing /\ ~tty.vterm
    /\ tty' = FlushText(tty)
    /\ stored' = Cached(tty)
    /\ writing' = FALSE
    /\ UNCHANGED <<whole, words, rest, phrases, broken>>

\* With virtual terminal support each buffer is converted by itself, with MultiByteToWideChar
\* (taken to decode these words as the library does): what is left of a character at its
\* end is not one.  A buffer of a write and a write of one buffer are the same to it, but
\* that a failing conversion ends the write; the handle's own parser is left as it is.
EndBuffer ==
    LET cut == tty.utf8_bytes_left > 0
    IN  /\ writing /\ tty.vterm
        /\ \/ /\ tty' = [tty EXCEPT !.buffer = IF cut THEN Append(@, Replacement) ELSE @,
                                      !.utf8_bytes_left = 0, !.cut = @ \/ cut]
              /\ UNCHANGED broken
           \/ ~broken /\ broken' = TRUE /\ UNCHANGED tty
        /\ writing' = FALSE
        /\ UNCHANGED <<whole, stored, words, rest, phrases>>

\* A call of the console fails: what is written goes on being parsed.
Breaks ==
    /\ writing /\ ~broken /\ ~tty.vterm
    /\ tty' = [tty EXCEPT !.error = TRUE]
    /\ broken' = TRUE
    /\ UNCHANGED <<whole, stored, writing, words, rest, phrases>>

\* The user sizes the window.
Resizes ==
    /\ ~writing /\ rest = << >>
    /\ \E h \in WindowHeights : tty' = [tty EXCEPT !.rows = h, !.moved = FALSE]
                                /\ whole' = [FlushText(whole) EXCEPT !.rows = h, !.moved = FALSE]
    /\ UNCHANGED <<stored, writing, words, rest, phrases, broken>>

TerminalNext == BeginWrite \/ NextPhrase \/ NextByte \/ EndWrite \/ EndBuffer \/ Breaks \/ Resizes

-----------------------------------------------------------------------------

Shown(t) == [f \in {"x", "y", "attributes", "visible", "offset", "saved"} |-> t[f]]

\* Cut into writes anywhere, in the middle of a character, an escape sequence or an end of
\* line, the bytes mean what they mean in one write; and after an error of the console the
\* parser is where it would have been ("leave the parser in a consistent state",
\* win/tty.c).  The exception is a console with virtual terminal support, where it is so
\* only while no buffer has ended in the middle of a character (1666-1698).
ChunksMakeNoDifference ==
    ~writing =>
        IF tty.vterm THEN ~broken => (~tty.cut => tty.buffer = whole.buffer)
        ELSE /\ stored = ParserOf(whole)
             /\ ~broken => Shown(tty) = Shown(FlushText(whole))

\* The attributes of the console are those of the style asked for, however inverse video,
\* brightness, colours and resets have followed each other.
StyleIsLogical == tty.attributes = Encode(tty.style)

\* Where the caret is sent is in the window libuv takes for the screen, and what is erased
\* is a piece of it, after scrolling and resizing as well.
WindowIsRespected ==
    LET e == tty.erased
    IN  /\ tty.offset \in 0..Height - 1
        /\ tty.moved => tty.y \in tty.offset..tty.offset + tty.rows - 1 /\ tty.x \in 0..Width - 1
        /\ e.count >= 1 /\ e.from.y * Width + e.from.x + e.count <= Height * Width

\* The console shows what was asked of it, where it was, however it was cut into writes.
ConsoleIsRight == ChunksMakeNoDifference /\ StyleIsLogical /\ WindowIsRespected
=============================================================================
