------------------------------ MODULE Console ------------------------------
(***************************************************************************)
(* The login on the serial console, byte by byte: Getty::run with          *)
(* read_line and read_line_silent (host/getty.rs).  A key sends one byte   *)
(* or, beyond ASCII, two: a line keeps bytes, the terminal is sent each    *)
(* byte as a character of its own (c as char), and the bytes become text   *)
(* when Enter is pressed (from_utf8_lossy).  Enter, Erase (DEL or          *)
(* backspace) and Control, which is ignored, are actions; Bytes are the    *)
(* other bytes >= 0x20.                                                    *)
(***************************************************************************)
EXTENDS Integers, Sequences, SequencesExt

CONSTANTS Bytes,      \* what an operator's keys send
          RootUser,   \* ROOT_USER
          RootPass,   \* ROOT_PASS
          MaxLine     \* bound on the length of a line

\* Bytes from 224 up, which begin characters of three and four bytes, are
\* left out.
ASSUME ConsoleAssumption ==
    /\ Bytes \subseteq (32 .. 126) \cup (128 .. 223) /\ MaxLine \in Nat
    /\ RootUser \in Seq(32 .. 126) /\ RootPass \in Seq(32 .. 126)

VARIABLES prompt,   \* "login", "password", or "shell" once the login matched
          user,     \* the line read for the user name
          buf,      \* the bytes of the line being read
          shown,    \* what the terminal shows behind the prompt
          ascii     \* history: no other byte was typed at this prompt

consoleVars == <<prompt, user, buf, shown, ascii>>

ConsoleInit ==
    prompt = "login" /\ user = <<>> /\ buf = <<>> /\ shown = <<>> /\ ascii = TRUE

\* The byte at n is the second of a two-byte character.
Continues(bytes, n) == n > 1 /\ bytes[n] \in 128 .. 191 /\ bytes[n - 1] \in 194 .. 223

Replacement == 65533

\* The character that starts with the byte at n.
CharAt(bytes, n) ==
    IF bytes[n] < 128 THEN bytes[n]
    ELSE IF n < Len(bytes) /\ Continues(bytes, n + 1)
         THEN 64 * (bytes[n] - 192) + bytes[n + 1] - 128
         ELSE Replacement

\* String::from_utf8_lossy: a byte that is part of no character is replaced.
from_utf8_lossy(bytes) ==
    LET decoded[n \in 0 .. Len(bytes)] ==
            IF n = 0 THEN <<>>
            ELSE IF Continues(bytes, n) THEN decoded[n - 1]
            ELSE Append(decoded[n - 1], CharAt(bytes, n))
    IN  decoded[Len(bytes)]

\* White space from U+0020 up to the last character of two bytes.
WhiteSpace == {32, 133, 160}

trim(line) ==
    LET text == {k \in DOMAIN line : line[k] \notin WhiteSpace}
    IN  IF text = {} THEN <<>> ELSE SubSeq(line, Min(text), Max(text))

\* Sent as characters, 128 to 159 are control codes: they take no column.
Columns(c) == IF c \in 128 .. 159 THEN <<>> ELSE <<c>>

\* Seeded form: one loop for both lines.
Type_Echoed(c) ==
    /\ prompt # "shell" /\ Len(buf) < MaxLine
    /\ buf' = Append(buf, c) /\ shown' = shown \o Columns(c)
    /\ ascii' = (ascii /\ c < 128)
    /\ UNCHANGED <<prompt, user>>

Type(c) ==
    /\ prompt # "shell" /\ Len(buf) < MaxLine
    /\ buf' = Append(buf, c)
    /\ shown' = IF prompt = "login" THEN shown \o Columns(c) ELSE shown
    /\ ascii' = (ascii /\ c < 128)
    /\ UNCHANGED <<prompt, user>>

\* Seeded form: the silent prompt's pop() for both lines.
Erase_Silent ==
    /\ prompt # "shell"
    /\ buf' = IF buf = <<>> THEN buf ELSE Front(buf)
    /\ UNCHANGED <<prompt, user, shown, ascii>>

\* pop(), and three bytes that blank the last column if there was a byte to pop.
Erase ==
    /\ prompt # "shell"
    /\ buf' = IF buf = <<>> THEN buf ELSE Front(buf)
    /\ shown' = IF prompt = "login" /\ buf # <<>> /\ shown # <<>> THEN Front(shown) ELSE shown
    /\ UNCHANGED <<prompt, user, ascii>>

Control == prompt # "shell" /\ UNCHANGED consoleVars

NextLine == buf' = <<>> /\ shown' = <<>> /\ ascii' = TRUE

\* Enter at `login:` goes on to the password, whatever the name.
EnterUser ==
    /\ prompt = "login"
    /\ user' = from_utf8_lossy(buf) /\ prompt' = "password"
    /\ NextLine

\* Enter at `Password:` checks both lines at once and keeps neither.
EnterPassword ==
    /\ prompt = "password"
    /\ prompt' = IF trim(user) = RootUser /\ trim(from_utf8_lossy(buf)) = RootPass
                 THEN "shell" ELSE "login"
    /\ user' = <<>>
    /\ NextLine

Keys == (\E c \in Bytes : Type(c)) \/ Erase \/ Control \/ EnterUser \/ EnterPassword

\* Whatever ASCII is typed and erased, the terminal shows exactly the name
\* that will be submitted; of a password it never shows anything, whatever
\* is typed (getty.rs:586-619).
ScreenShowsLine ==
    IF prompt = "login" THEN ascii => shown = from_utf8_lossy(buf) ELSE shown = <<>>

\* "echoing each character" (getty.rs:585), of any keyboard.
EchoIsLine == prompt = "login" => shown = from_utf8_lossy(buf)
=============================================================================
