----------------------------- MODULE CommandLine -----------------------------
(***************************************************************************)
(* How words come out of what the user types: core::ShellStringTokenizer   *)
(* (usbprog-core/stringutil.cc) for a line of the shell, and               *)
(* bw::OptionParser (libbw/optionparser.cc) for the arguments of the       *)
(* program.                                                                *)
(*                                                                         *)
(* A word is a sequence of symbols.  A symbol is a character, or a run of  *)
(* characters that neither of them, nor a completion, need tell apart.     *)
(***************************************************************************)
EXTENDS Integers, Sequences, SequencesExt

CONSTANTS
  Symbols,    \* what words are made of
  Flags,      \* short options of the program without an argument
  Strings,    \* those with one
  Permute     \* getopt_long() takes options behind arguments, as that of glibc does

Space == " "
Quote == "\""
Backslash == "\\"
Dash == "-"

ASSUME CommandLineAssumption ==
  /\ {Space, Quote, Backslash, Dash} \subseteq Symbols
  /\ Flags \cap Strings = {}
  /\ Permute \in BOOLEAN

Word == Seq(Symbols)

-----------------------------------------------------------------------------
(* ShellStringTokenizer                                                    *)

\* begun: nextToken() has read something of the word.
NoToken == [state |-> "space", ret |-> <<>>, begun |-> FALSE]

\* The case labels of nextToken(): after c, in which state is it, and is c a part?
InWord(c) ==
  CASE c = Quote     -> <<"quote", FALSE>>
    [] c = Backslash -> <<"backslash", FALSE>>
    [] OTHER         -> <<"word", TRUE>>

InQuote(c) ==
  CASE c = Quote     -> <<"word", FALSE>>
    [] c = Backslash -> <<"quotebackslash", FALSE>>
    [] OTHER         -> <<"quote", TRUE>>

\* (A wrong variant: in quotation marks a character behind a backslash is forgotten.)
NextForgetting(state, c) ==
  CASE state \in {"space", "word"}  -> InWord(c)
    [] state = "quote"              -> InQuote(c)
    [] state = "backslash"          -> <<"word", TRUE>>
    [] state = "quotebackslash"     -> <<"quote", FALSE>>

Next_(state, c) ==
  CASE state \in {"space", "word"}  -> InWord(c)
    [] state = "quote"              -> InQuote(c)
    [] state = "backslash"          -> <<"word", TRUE>>
    [] state = "quotebackslash"     -> <<"quote", TRUE>>

\* Only in a word a space is the end.
Read(token, c) ==
  LET next == Next_(token.state, c)
  IN  [state |-> next[1], begun |-> TRUE,
       ret   |-> IF next[2] THEN Append(token.ret, c) ELSE token.ret]

\* The words so far, and the one that is being read.
NoWords == [words |-> <<>>, token |-> NoToken]

ReadChar(acc, c) ==
  IF c = Space /\ acc.token.state = "word"
  THEN [words |-> Append(acc.words, acc.token.ret), token |-> NoToken]
  ELSE [words |-> acc.words, token |-> Read(acc.token, c)]

\* What is read of each beginning of the line.
Reading(line) ==
  LET reading[n \in 0 .. Len(line)] ==
        IF n = 0 THEN NoWords ELSE ReadChar(reading[n - 1], line[n])
  IN  reading

\* At its end the last word is one if anything was read of it.
Tokens(acc) ==
  IF acc.token.begun THEN Append(acc.words, acc.token.ret) ELSE acc.words

Tokenize(line) == Tokens(Reading(line)[Len(line)])

-----------------------------------------------------------------------------
(* How a user writes words so that they come out as they are               *)

Special == {Space, Quote, Backslash}

Escaped(c, chars) == IF c \in chars THEN <<Backslash, c>> ELSE <<c>>

Escaping(word, chars) ==
  LET with[n \in 0 .. Len(word)] ==
        IF n = 0 THEN <<>> ELSE with[n - 1] \o Escaped(word[n], chars)
  IN  with

WithBackslashes(word, chars) == Escaping(word, chars)[Len(word)]

InQuotes(word) == <<Quote>> \o WithBackslashes(word, {Quote, Backslash}) \o <<Quote>>

\* Quotation marks in the first style, and where there is nothing to put a backslash at.
Written(word, style) ==
  IF word = <<>> \/ style = "quotes" THEN InQuotes(word) ELSE WithBackslashes(word, Special)

Separator(n) == IF n = 1 THEN <<>> ELSE <<Space>>

Writing(words, style) ==
  LET line[n \in 0 .. Len(words)] ==
        IF n = 0 THEN <<>> ELSE line[n - 1] \o (Separator(n) \o Written(words[n], style))
  IN  line

Line(words, style) == Writing(words, style)[Len(words)]

-----------------------------------------------------------------------------
(* OptionParser                                                            *)

\* What addOption() has been called for.
Options == Flags \cup Strings

IsOption(word) == Len(word) > 1 /\ word[1] = Dash
EndOfOptions == <<Dash, Dash>>

\* The letters of a word of options: none is looked at behind one that takes the rest of
\* the word for its argument, or behind an unknown one.
Letters(word) ==
  LET all  == Tail(word)
      ends == {i \in DOMAIN all : all[i] \notin Flags}
  IN  IF ends = {} THEN all
      ELSE SubSeq(all, 1, CHOOSE i \in ends : \A j \in ends : i <= j)

Unknown(word) == Last(Letters(word)) \notin Options
AllRead(word) == Letters(word) = Tail(word)

\* An option that is not given is of no type.
NotGiven == [type |-> "invalid", string |-> <<>>]
Flag == [type |-> "flag", string |-> <<>>]
String(word) == [type |-> "string", string |-> word]

\* The last value stands.
SetValue(values, letter, value) == [values EXCEPT ![letter] = value]
SetFlags(values, letters) == [o \in DOMAIN values |-> IF o \in letters THEN Flag ELSE values[o]]

\* values: of the options seen.  args: what is left for getArgs().  awaits: the option that
\* is still to get its argument.  rest: nothing is taken for an option any more.
Parsing == [values |-> [o \in Options |-> NotGiven],
            args |-> <<>>, awaits |-> {}, rest |-> FALSE]

\* parse() ends at an invalid option.  The arguments that getopt_long() has passed over
\* are gone; the word is left if there are more letters in it.
ParseInvalid(acc, word) ==
  [values |-> SetFlags(acc.values, ToSet(Front(Letters(word)))),
   args |-> IF AllRead(word) THEN <<>> ELSE <<word>>, awaits |-> {}, rest |-> TRUE]

\* The argument of an option is the rest of its word, or the next word.
ParseOption(acc, word) ==
  LET last   == Last(Letters(word))
      values == SetFlags(acc.values, ToSet(Letters(word)) \cap Flags)
      string == SubSeq(word, Len(Letters(word)) + 2, Len(word))
      awaits == IF last \in Strings /\ AllRead(word) THEN {last} ELSE {}
  IN  [values |-> IF last \in Flags \/ awaits # {} THEN values
                 ELSE SetValue(values, last, String(string)),
       args |-> acc.args, awaits |-> awaits, rest |-> acc.rest]

ParseArgument(acc, word) ==
  [values |-> SetValue(acc.values, CHOOSE o \in acc.awaits : TRUE, String(word)),
   args |-> acc.args, awaits |-> {}, rest |-> acc.rest]

\* What is no option, or behind "--".
Pass(acc, word, rest) ==
  [values |-> acc.values, args |-> Append(acc.args, word), awaits |-> {}, rest |-> rest]

EndOptions(acc) == [values |-> acc.values, args |-> acc.args, awaits |-> {}, rest |-> TRUE]

ParseWord(acc, word) ==
  IF acc.awaits # {} THEN ParseArgument(acc, word)
  ELSE IF acc.rest \/ ~IsOption(word) THEN Pass(acc, word, acc.rest \/ ~Permute)
  ELSE IF word = EndOfOptions THEN EndOptions(acc)
  ELSE IF Unknown(word) THEN ParseInvalid(acc, word)
  ELSE ParseOption(acc, word)

\* After each of the words.
Parsings(argv) ==
  LET parsed[n \in 0 .. Len(argv)] ==
        IF n = 0 THEN Parsing ELSE ParseWord(parsed[n - 1], argv[n])
  IN  parsed

\* An option that has not got its argument is invalid, too.
Parse(argv) ==
  LET end == Parsings(argv)[Len(argv)]
  IN  IF end.awaits # {} THEN [end EXCEPT !.args = <<>>] ELSE end

GetArgs(argv) == Parse(argv).args
GetValue(argv, letter) == Parse(argv).values[letter]
=============================================================================
