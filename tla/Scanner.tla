------------------------------ MODULE Scanner ------------------------------
(***************************************************************************)
(* The scanner of the Toy compiler (tools/toyc/scanner.c, and the same in  *)
(* Toy): the tokens of a text, a string.  An operator stands for each      *)
(* function; its argument s and its result are the fields of the Compiler  *)
(* structure that the scanner uses.                                        *)
(*                                                                         *)
(* A token is a pair: "identifier" and the name, "integer" and the value,  *)
(* or "token" and its spelling.                                            *)
(***************************************************************************)
EXTENDS Integers, Sequences, TLC

\* The printable characters, from code 32 to 126, but double quotes, back
\* quotes and backslashes: they are like "#", and a tab is in their place.
ASCII ==
  " !\t#$%&'()*+,-./0123456789:;<=>?@ABCDEFGHIJKLMNOPQRSTUVWXYZ[\t]^_\tabcdefghijklmnopqrstuvwxyz{|}~"

CharAt(text, i) == IF i \in 1 .. Len(text) THEN SubSeq(text, i, i) ELSE ""

Printable == {CharAt(ASCII, i) : i \in 1 .. Len(ASCII)} \ {"\t"}
CharCode == [c \in Printable |-> 31 + CHOOSE i \in 1 .. Len(ASCII) : CharAt(ASCII, i) = c]

Digits == {c \in Printable : CharCode[c] \in 48 .. 57}
Letters == {c \in Printable : CharCode[c] \in (65 .. 90) \cup (97 .. 122)} \cup {"_"}
Punctuation == {"'", "(", ")", "*", "+", ",", ".", "/", ":", ";", "[", "]", "{", "}"}
OperatorChars == {"!", "&", "<", "=", ">", "|", "-"}

\* The type of a character; "end" is the one of the character past the end.
TC_CHAR_TYPES ==
  [c \in Printable \cup {"\t", "\n", "\r", ""} |->
     CASE c \in Digits -> "integer"
       [] c \in Letters -> "identifier"
       [] c \in Punctuation \cup OperatorChars -> c
       [] c \in {" ", "\t", "\n"} -> "space"
       [] c = "" -> "end"
       [] OTHER -> "invalid"]

\* The token of an operator: alone, doubled, with "=" and with ">".
TC_OPERATORS ==
  [c \in OperatorChars |->
     CASE c = "!" -> <<"invalid", "invalid", "!=", "invalid">>
       [] c = "&" -> <<"&", "&&", "invalid", "invalid">>
       [] c = "<" -> <<"<", "<<", "<=", "invalid">>
       [] c = "=" -> <<"=", "==", "==", "invalid">>
       [] c = ">" -> <<">", ">>", ">=", ">>">>
       [] c = "|" -> <<"|", "||", "invalid", "invalid">>
       [] c = "-" -> <<"-", "invalid", "invalid", "->">>]

\* The keyword of each hash code.
TC_KEYWORDS ==
  (7 :> "null") @@ (8 :> "fn") @@ (21 :> "struct") @@ (24 :> "sizeof") @@ (27 :> "let")
    @@ (29 :> "if") @@ (35 :> "const") @@ (36 :> "loop") @@ (46 :> "static") @@ (48 :> "return")
    @@ (49 :> "while") @@ (50 :> "as") @@ (51 :> "u64") @@ (57 :> "else") @@ (63 :> "break")

-----------------------------------------------------------------------------
Scanner(text) ==
  [text |-> text, src |-> 0, char |-> "", type |-> "end", token |-> <<"token", "end">>, error |-> 0]

Panic(s, error) == [s EXCEPT !.error = error]

tc_read_char(s) ==
  LET c == CharAt(s.text, s.src + 1)
  IN IF s.src > Len(s.text) THEN Panic(s, 10)
     ELSE [s EXCEPT !.src = @ + 1, !.char = c, !.type = TC_CHAR_TYPES[c]]

RECURSIVE ReadDigits(_, _)
ReadDigits(s, value) ==
  IF s.type # "integer" THEN [s EXCEPT !.token = <<"integer", value>>]
  ELSE ReadDigits(tc_read_char(s), 10 * value + CharCode[s.char] - CharCode["0"])

tc_read_integer(s) == ReadDigits(s, 0)

\* The value is any printable character, a quote included.
tc_read_quoted_char(s) ==
  LET value == tc_read_char(s)
      close == tc_read_char(value)
  IN CASE value.char \notin Printable -> Panic(s, 11)
       [] close.type # "'" -> Panic(s, 12)
       [] OTHER -> [tc_read_char(close) EXCEPT !.token = <<"integer", CharCode[value.char]>>]

tc_get_keyword(word, hashcode) ==
  IF hashcode \in DOMAIN TC_KEYWORDS /\ TC_KEYWORDS[hashcode] = word
    THEN <<"token", word>> ELSE <<"identifier", word>>

RECURSIVE ReadWord(_, _, _)
ReadWord(s, start, hashcode) ==
  IF s.type \in {"identifier", "integer"}
    THEN ReadWord(tc_read_char(s), start, (31 * hashcode + CharCode[s.char]) % 64)
  ELSE [s EXCEPT !.token = tc_get_keyword(SubSeq(s.text, start, s.src - 1), hashcode)]

tc_read_identifier(s) == ReadWord(s, s.src, 0)

tc_read_operator(s) ==
  LET second == tc_read_char(s)
      index == CASE second.type = s.type -> 2
                 [] second.char = "=" -> 3
                 [] second.char = ">" -> 4
                 [] OTHER -> 1
  IN [IF index = 1 THEN second ELSE tc_read_char(second)
        EXCEPT !.token = <<"token", TC_OPERATORS[s.type][index]>>]

IsComment(s) == CharAt(s.text, s.src + 1) = "*"

\* The first "*/" is looked for from the "*" of the start.
WrongReadComment(s) ==
  LET stop(i) == i + 2 > Len(s.text) \/ SubSeq(s.text, i + 1, i + 2) = "*/"
      from == s.src .. Len(s.text)
  IN [s EXCEPT !.src = 2 + CHOOSE i \in from : stop(i) /\ \A j \in from : stop(j) => i <= j]

\* Up to the "/" that ends the comment, or past the end of the text.
tc_read_comment(s) ==
  LET stop(i) == i + 3 > Len(s.text) \/ SubSeq(s.text, i + 2, i + 3) = "*/"
      from == s.src .. Len(s.text)
  IN [s EXCEPT !.src = 3 + CHOOSE i \in from : stop(i) /\ \A j \in from : stop(j) => i <= j]

RECURSIVE SkipBlanks(_)
SkipBlanks(s) ==
  CASE s.error # 0 -> s
    [] s.type = "space" -> SkipBlanks(tc_read_char(s))
    [] s.type = "/" /\ IsComment(s) -> SkipBlanks(tc_read_char(tc_read_comment(s)))
    [] OTHER -> s

tc_read_token(s0) ==
  LET s == SkipBlanks(s0) IN
  CASE s.error # 0 -> s
    [] s.type = "integer" -> tc_read_integer(s)
    [] s.type = "'" -> tc_read_quoted_char(s)
    [] s.type = "identifier" -> tc_read_identifier(s)
    [] s.type \in OperatorChars -> tc_read_operator(s)
    [] s.type = "end" -> [s EXCEPT !.token = <<"token", "end">>]
    [] OTHER -> [tc_read_char(s) EXCEPT !.token = <<"token", s.type>>]

-----------------------------------------------------------------------------
\* The token after which the compiler panics with a code of the scanner.
PANICS == (10 :> "past end") @@ (11 :> "unprintable") @@ (12 :> "unquoted")

\* The tokens of a text, up to its end or to a panic.
RECURSIVE TokensFrom(_)
TokensFrom(s) ==
  CASE s.error # 0 -> <<(<<"token", PANICS[s.error]>>)>>
    [] s.token = <<"token", "end">> -> <<>>
    [] OTHER -> <<s.token>> \o TokensFrom(tc_read_token(s))

Scan(text) == TokensFrom(tc_read_token(tc_read_char(Scanner(text))))
=============================================================================
