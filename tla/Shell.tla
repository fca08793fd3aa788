-------------------------------- MODULE Shell --------------------------------
(***************************************************************************)
(* cli::Shell (cli/shell.cc): the command table, the loop that reads       *)
(* lines, the one that takes commands with their options and arguments out *)
(* of a list of words, and the completion of a half-typed line.  In batch  *)
(* mode the words are what OptionParser has left of the program's own      *)
(* arguments, and one command follows another without a separator.         *)
(*                                                                         *)
(* What a command does is left to CliSession and Firmwarepool: here it     *)
(* returns, throws an ApplicationError, or throws something else.          *)
(***************************************************************************)
EXTENDS UsbprogCommands, FiniteSets

CONSTANTS
  NoCommand,        \* a NULL Command *
  Lines,            \* the words of the lines a user may have in mind
  HalfLines,        \* the words of lines he asks the completion about, and what he has
                    \* typed of the next one
  HalfCommands,     \* what he has typed of the first one
  Answers,          \* what he may answer to the prompt for an argument
  Batches,          \* the words of a batch
  ProgramOptions,   \* the options of the program before them
  SizeLimit,        \* of a size_t
  DefaultDir,       \* of the data, if no other one is given
  Styles            \* how words are written

ASSUME ShellAssumption ==
  /\ NoCommand \notin Commands
  /\ {"D", "o"} \subseteq Flags /\ "d" \in Strings
  /\ SizeLimit \in Nat \ {0}

\* A line in memory has no more words than a size_t counts.  What is typed of the last one
\* has nothing in it that would have to be quoted.
ASSUME UserAssumption ==
  /\ Lines \subseteq Seq(Word) /\ Answers \subseteq Word
  /\ \A half \in HalfLines :
       /\ half.words \in Seq(Word) /\ half.words # <<>> /\ Len(half.words) <= SizeLimit
       /\ half.text \in Word /\ \A i \in DOMAIN half.text : half.text[i] \notin Special

\* The options of the program are options, each with its argument, and a "--" among them is
\* none of these.
ASSUME ProgramAssumption ==
  /\ Batches \subseteq Seq(Word)
  /\ \A options \in ProgramOptions :
       /\ options \in Seq(Word)
       /\ Parse(options).args = <<>> /\ Parse(options).awaits = {}
       /\ EndOfOptions \in ToSet(options) => Parse(options).rest

VARIABLES
  m_commands,  \* the command table
  config,      \* the CliConfiguration
  eof,         \* m_lineReader->eof()
  input,       \* the words that are still there
  it,          \* the iterator of the option loop, as an index
  cmd,         \* the command that is being run: its words, options and arguments
  pc,          \* where the shell is
  ended,       \* how the program has ended
  offered,     \* what the completion was made of
  meant,       \* history: the words as the user meant them, from cmd on
  plain,       \* history: no command so far had an option behind its first one
  asked,       \* history: the configuration the program's own options ask for
  unknown,     \* history: the completion was asked for an unknown command
  accepted     \* history: the completed word at the end of the line that is run, and the
               \* argument it was offered for

history == <<meant, plain, unknown, accepted>>
table == <<m_commands, config, asked, eof, offered>>
vars == <<table, input, it, cmd, pc, ended, history>>

\* Without the file of the history, which goes the way of readline, and the URL of the index.
CliConfiguration ==
  [batch : BOOLEAN, debug : BOOLEAN, offline : BOOLEAN, dataDir : {DefaultDir} \cup Word]

batch == config.batch  \* run(m_args), not run()

Idle == [name |-> <<>>, command |-> NoCommand, options |-> <<>>, args |-> <<>>, given |-> 0]

TypeOK ==
  /\ config \in CliConfiguration
  /\ Words \subseteq DOMAIN m_commands
  /\ \A w \in DOMAIN m_commands : m_commands[w] \in Commands \cup {NoCommand}
  /\ eof \in BOOLEAN /\ plain \in BOOLEAN /\ unknown \in BOOLEAN
  /\ it \in 1 .. Len(input) + 1
  /\ pc = "read" => input = <<>>
  /\ pc \in {"read", "lookup", "options", "arguments", "execute", "quit", "down"}
  /\ pc \in {"options", "arguments", "execute"} => cmd.command \in Commands
  /\ pc = "execute" => Len(cmd.args) = cmd.command.argNumber
  /\ ended \in {"no", "ok", "error", "crash"}
  /\ offered.of \in {"nothing", "command", "options", "argument"}
  /\ offered.of = "argument" => offered.pos \in 0 .. CommandOf(offered.line[1]).argNumber - 1
  /\ accepted # {} => ~batch /\ pc \in {"lookup", "options", "arguments", "execute", "down"}

-----------------------------------------------------------------------------
(* What the words mean: a command, its options, perhaps "--", its arguments *)

LooksLikeOption(word) == word # <<>> /\ word[1] = Dash
NoneLooksLikeOption(words) == \A w \in ToSet(words) : ~LooksLikeOption(w)

\* How many words at the beginning of a list are options.
OptionsAhead(words) ==
  LET others == {i \in DOMAIN words : words[i] = EndOfOptions \/ ~LooksLikeOption(words[i])}
  IN  IF others = {} THEN Len(words)
      ELSE (CHOOSE i \in others : \A j \in others : i <= j) - 1

Behind(words) == SubSeq(words, 2, Len(words))
MeantOptions(words) == SubSeq(words, 2, 1 + OptionsAhead(Behind(words)))

AfterOptions(words) ==
  LET left == SubSeq(words, 2 + OptionsAhead(Behind(words)), Len(words))
  IN  IF left # <<>> /\ left[1] = EndOfOptions THEN Tail(left) ELSE left

\* The option loop gets at most one option out, and only when two words follow (or one,
\* the last) of which none is one, nor "--".
PlainCommand(words) ==
  \/ OptionsAhead(Behind(words)) = 0
  \/ /\ OptionsAhead(Behind(words)) = 1
     /\ Len(words) > 2 /\ words[3] # EndOfOptions
     /\ Len(words) > 3 => ~LooksLikeOption(words[4])

\* What the completion is made of; line: the words that are there already.
Offering(of, pos, words) == [of |-> of, pos |-> pos, words |-> words, line |-> <<>>]

\* empty_element_sv(), or no vector at all.
NoOffer == Offering("nothing", 0, {<<>>})

NoNull == \A w \in DOMAIN m_commands : m_commands[w] # NoCommand

-----------------------------------------------------------------------------
(* Lines                                                                   *)

\* Lines and beginnings of lines, with what nextToken() makes of them.
TypedLines ==
  {[words |-> words, vec |-> Tokenize(Line(words, style))] : words \in Lines, style \in Styles}

TypedHalfLines ==
  {[words |-> half.words, text |-> half.text,
    vec |-> Tokenize(Append(Line(half.words, "quotes"), Space) \o half.text)] : half \in HalfLines}

\* An empty line is no step at all.  Without readline the end of the file may come right
\* behind the line.
GetsLine(words, vec, completed) ==
  /\ pc = "read"
  /\ words # <<>>
  /\ input' = vec
  /\ eof' \in BOOLEAN
  /\ meant' = words
  /\ accepted' = completed
  /\ pc' = "lookup"
  /\ offered' = NoOffer
  /\ UNCHANGED <<m_commands, config, asked, it, cmd, ended, plain, unknown>>

ReadLine(line) == GetsLine(line.words, line.vec, {})

\* The user lets readline put a word in that is offered for an argument, and enters the
\* line.  It is put in as it is: one that has to be quoted he quotes himself.
ReadCompleted(word) ==
  /\ offered.of = "argument"
  /\ word \in offered.words
  /\ word # <<>> /\ \A i \in DOMAIN word : word[i] \notin Special
  /\ GetsLine(Append(offered.line, word),
              Tokenize(Append(Line(offered.line, "quotes"), Space) \o word),
              {[pos |-> offered.pos, word |-> word]})

EndOfFile ==
  /\ pc = "read"
  /\ eof' = TRUE
  /\ pc' = "quit"
  /\ offered' = NoOffer
  /\ UNCHANGED <<m_commands, config, asked, input, it, cmd, ended, history>>

\* Where the loop of run() goes on.
Prompt == IF batch \/ eof THEN "quit" ELSE "read"

-----------------------------------------------------------------------------
(* complete() for an option or argument; vec are the words of full_text.   *)

OptionsIn(vec) == Cardinality({i \in DOMAIN vec : LooksLikeOption(vec[i])})

\* (A wrong variant: the last word of vec is always the one that is typed.)
PositionOfLast(vec, text) == (Len(vec) - 2 - OptionsIn(vec)) % SizeLimit

\* pos is a size_t.  The word that is typed is the last one of vec unless it is empty.
Position(vec, text) ==
  (Len(vec) - 1 - (IF text # <<>> THEN 1 ELSE 0) - OptionsIn(vec)) % SizeLimit

OfferOptions(command, text) ==
  IF command.options = {} THEN NoOffer
  ELSE Offering("options", 0, CompleteOption(command, text))

\* names: of the table as it is then.
OfferArgument(command, text, pos, names) ==
  LET words == CompleteArgument(command, text, names)
  IN  IF command.argNumber <= pos \/ (words = {} /\ ~FileCompletion(command, text))
      THEN NoOffer
      ELSE Offering("argument", pos, words)

Offer(command, vec, text, names) ==
  CASE command = NoCommand -> NoOffer
    [] command # NoCommand /\ LooksLikeOption(text) -> OfferOptions(command, text)
    [] OTHER -> OfferArgument(command, text, Position(vec, text), names)

\* The words are sorted, but for the one that download adds.
Sorted(words) == IF words = {<<"all">>} THEN words ELSE words \ {<<"all">>}
FirstOf(words) ==
  CHOOSE w \in Sorted(words) : \A v \in Sorted(words) : IsPrefix(v, w) => v = w

\* What readline puts in place of what was typed: the first word up to where another one
\* differs from it.  One that merely ends earlier does not.
Agree(v, w) == IsPrefix(v, w) \/ IsPrefix(w, v)
Replacement(words) ==
  LET agreed == {n \in 0 .. Len(FirstOf(words)) :
                   \A w \in words : Agree(SubSeq(FirstOf(words), 1, n), w)}
  IN  SubSeq(FirstOf(words), 1, Max(agreed))

\* (A wrong variant: the entry is made anew whatever there was.)
LookedUpAnew(word) ==
  [w \in DOMAIN m_commands \cup {word} |-> IF w = word THEN NoCommand ELSE m_commands[w]]

\* operator[] makes a NULL entry for a word that is no command.
LookedUp(word) ==
  [w \in DOMAIN m_commands \cup {word} |->
     IF w \in DOMAIN m_commands THEN m_commands[w] ELSE NoCommand]

\* As a variant of WrongNumber, TooFew would be wrong on a line.
TooFew == Len(input) < cmd.command.argNumber

\* The completor is there at each of the reader's prompts, those for arguments included.
AtPrompt == pc = "read" \/ (pc = "arguments" /\ ~batch /\ TooFew)

\* The first word of the line.
CompleteCommand(text) ==
  /\ AtPrompt
  /\ offered' = Offering("command", 0, StartingWith(text, DOMAIN m_commands))
  /\ UNCHANGED <<m_commands, config, asked, eof, input, it, cmd, pc, ended, history>>

Complete(half) ==
  /\ AtPrompt
  /\ m_commands' = LookedUp(half.vec[1])
  /\ unknown' = (unknown \/ half.vec[1] \notin Words)
  /\ offered' = [Offer(m_commands'[half.vec[1]], half.vec, half.text, DOMAIN m_commands')
                   EXCEPT !.line = half.words]
  /\ UNCHANGED <<config, asked, eof, input, it, cmd, pc, ended, meant, plain, accepted>>

-----------------------------------------------------------------------------
(* run(input, multiple)                                                    *)

\* An exception leaves run(): the next line is read, or the program ends.
Throws(line) ==
  /\ pc' = IF line THEN Prompt ELSE "quit"
  /\ ended' = IF line THEN ended ELSE "error"
  /\ input' = <<>> /\ it' = 1 /\ cmd' = Idle
  /\ meant' = <<>> /\ plain' = TRUE /\ accepted' = {}
  /\ UNCHANGED <<table, unknown>>

\* Those of run(input, multiple) itself are caught in run(), but not in batch mode.
Fails == Throws(~batch)

Crashes ==
  /\ pc' = "down"
  /\ ended' = "crash"
  /\ UNCHANGED <<table, input, it, cmd, history>>

LookupInvalid ==
  /\ pc = "lookup"
  /\ input[1] \notin DOMAIN m_commands
  /\ Fails

LookupNull ==
  /\ pc = "lookup"
  /\ input[1] \in DOMAIN m_commands
  /\ m_commands[input[1]] = NoCommand
  /\ Crashes

Found ==
  /\ pc = "lookup"
  /\ input[1] \in DOMAIN m_commands
  /\ m_commands[input[1]] # NoCommand
  /\ cmd' = [Idle EXCEPT !.name = input[1], !.command = m_commands[input[1]]]
  /\ pc' = "options" /\ it' = 1
  /\ plain' = (plain /\ PlainCommand(meant))
  /\ UNCHANGED <<table, ended, meant, unknown, accepted>>

\* (A wrong variant: the word of the command stays.)
LookupKept == Found /\ UNCHANGED input

Lookup == Found /\ input' = Tail(input)

AtOption == pc = "options" /\ it <= Len(input)

\* The first word that is no option ends them, and "--" does and goes.
OptionsEnd ==
  /\ pc = "options"
  /\ \/ it = Len(input) + 1 /\ UNCHANGED input
     \/ AtOption /\ ~LooksLikeOption(input[it]) /\ UNCHANGED input
     \/ AtOption /\ input[it] = EndOfOptions /\ input' = RemoveAt(input, it)
  /\ pc' = "arguments" /\ it' = 1
  /\ UNCHANGED <<table, cmd, ended, history>>

Option(word) == word # EndOfOptions /\ LooksLikeOption(word)

OptionUnsupported ==
  /\ AtOption
  /\ Option(input[it]) /\ input[it] \notin cmd.command.options
  /\ Fails

\* It is erased, and the iterator, which is at the next word by that, goes on by one.
OptionTaken ==
  /\ AtOption
  /\ Option(input[it]) /\ input[it] \in cmd.command.options
  /\ it < Len(input)
  /\ cmd' = [cmd EXCEPT !.options = Append(@, input[it])]
  /\ input' = RemoveAt(input, it)
  /\ it' = it + 1
  /\ UNCHANGED <<table, pc, ended, history>>

\* If there is no next word, past the end.  What lies there may end the loop, pass for an
\* option that is not supported, or not be readable at all.
LastOptionTaken ==
  /\ AtOption
  /\ Option(input[it]) /\ input[it] \in cmd.command.options
  /\ it = Len(input)
  /\ \/ /\ pc' = "arguments" /\ it' = 1
        /\ cmd' = [cmd EXCEPT !.options = Append(@, input[it])]
        /\ input' = Front(input)
        /\ UNCHANGED <<table, ended, history>>
     \/ Fails
     \/ Crashes

TooManyOnLine == ~batch /\ Len(input) > cmd.command.argNumber

WrongNumber == IF batch THEN TooFew ELSE TooManyOnLine

ArgumentsWrong ==
  /\ pc = "arguments"
  /\ WrongNumber
  /\ Fails

\* What is not there is asked for, and empty at the end of the file; in batch mode the
\* other words are left.
Arguments ==
  /\ pc = "arguments"
  /\ ~WrongNumber
  /\ LET given   == IF TooFew THEN input ELSE SubSeq(input, 1, cmd.command.argNumber)
         missing == 1 .. cmd.command.argNumber - Len(given)
     IN  /\ \E answers \in [missing -> Answers \cup {<<>>}] :
              /\ cmd' = [cmd EXCEPT !.args = given \o answers, !.given = Len(given)]
              /\ eof' \in {eof, eof \/ \E i \in missing : answers[i] = <<>>}
         /\ input' = SubSeq(input, Len(given) + 1, Len(input))
  /\ pc' = "execute"
  /\ offered' = NoOffer
  /\ UNCHANGED <<m_commands, config, asked, it, ended, history>>

MeantNext == SubSeq(AfterOptions(meant), 1 + cmd.given, Len(AfterOptions(meant)))

\* In batch mode the next command follows.
NextCommand ==
  /\ cmd' = Idle /\ accepted' = {}
  /\ IF batch /\ input # <<>>
     THEN pc' = "lookup" /\ meant' = MeantNext /\ UNCHANGED plain
     ELSE pc' = Prompt /\ meant' = <<>> /\ plain' = TRUE
  /\ UNCHANGED <<table, input, it, ended, unknown>>

AsksFor == cmd.command = HelpCmd /\ cmd.args[1] \in DOMAIN m_commands

\* help goes through the whole table, helpcmd to the entry it is given.
MeetsNull ==
  \/ cmd.command = Help /\ ~NoNull
  \/ AsksFor /\ m_commands[cmd.args[1]] = NoCommand

\* The loops end.
Leave ==
  /\ pc' = "quit"
  /\ cmd' = Idle /\ meant' = <<>> /\ plain' = TRUE /\ accepted' = {}
  /\ UNCHANGED <<table, input, it, ended, unknown>>

\* (A wrong variant: a command that fails is the last one of a batch.)
ExecuteOrStop ==
  /\ pc = "execute"
  /\ cmd.command # Exit_ /\ ~MeetsNull
  /\ NextCommand \/ Leave

\* It returns true, or throws an ApplicationError, which is printed.
Execute ==
  /\ pc = "execute"
  /\ cmd.command # Exit_ /\ ~MeetsNull
  /\ NextCommand

Exit ==
  /\ pc = "execute"
  /\ cmd.command = Exit_
  /\ Leave

ExecuteNull ==
  /\ pc = "execute"
  /\ MeetsNull
  /\ Crashes

\* Any other exception ends the program.
ExecuteThrows ==
  /\ pc = "execute"
  /\ cmd.command \notin BuiltIn
  /\ Throws(FALSE)

\* ~Shell(): goes through the whole table.
Quit ==
  /\ pc = "quit"
  /\ pc' = "down"
  /\ ended' = IF ~NoNull THEN "crash" ELSE IF ended = "no" THEN "ok" ELSE ended
  /\ UNCHANGED <<table, input, it, cmd, history>>

-----------------------------------------------------------------------------
\* getopt_long() takes the options of commands for options of the program, unless it was
\* told before that there are none.
Sheltered(options, words) ==
  \/ EndOfOptions \in ToSet(options)
  \/ \A i \in DOMAIN words : ~IsOption(words[i])
  \/ ~Permute /\ words # <<>> /\ ~IsOption(words[1])

DefaultConfiguration ==
  [batch |-> FALSE, debug |-> FALSE, offline |-> FALSE, dataDir |-> DefaultDir]

\* What is in the command line.
Configuration(argv) ==
  LET Is(letter) == GetValue(argv, letter).type = "flag"
      dir == GetValue(argv, "d")
      default == DefaultConfiguration
  IN  [batch |-> GetArgs(argv) # <<>>,
       debug |-> default.debug \/ Is("D"), offline |-> default.offline \/ Is("o"),
       dataDir |-> IF dir.type = "invalid" THEN default.dataDir ELSE dir.string]

Init ==
  /\ m_commands = [w \in Words |-> CommandOf(w)]
  /\ \E options \in ProgramOptions, words \in Batches :
       /\ config = Configuration(options \o words)
       /\ input = GetArgs(options \o words)
       /\ asked = [Configuration(options) EXCEPT !.batch = (words # <<>>)]
       /\ plain = (input = <<>> \/ Sheltered(options, words))
       /\ meant = IF input = <<>> THEN <<>> ELSE words
  /\ pc = IF batch THEN "lookup" ELSE "read"
  /\ it = 1 /\ cmd = Idle
  /\ eof = FALSE
  /\ ended = "no"
  /\ offered = NoOffer
  /\ unknown = FALSE /\ accepted = {}

UserStep ==
  \/ \E line \in TypedLines : ReadLine(line)
  \/ \E word \in offered.words : ReadCompleted(word)
  \/ EndOfFile
  \/ \E half \in TypedHalfLines : Complete(half)
  \/ \E half \in HalfCommands : CompleteCommand(half)

RunStep ==
  \/ LookupInvalid \/ LookupNull \/ Lookup
  \/ OptionsEnd \/ OptionUnsupported \/ OptionTaken \/ LastOptionTaken
  \/ ArgumentsWrong \/ Arguments
  \/ Execute \/ Exit \/ ExecuteNull \/ ExecuteThrows \/ Quit

Next == UserStep \/ RunStep

Spec == Init /\ [][Next]_vars

\* Commands return: the user need not come back.
FairSpec == Spec /\ WF_vars(RunStep)

-----------------------------------------------------------------------------
(* Properties                                                              *)

Given == SubSeq(cmd.args, 1, cmd.given)

\* Options, arguments and the words of the next commands are told apart.
Separated ==
  /\ cmd.name = meant[1]
  /\ cmd.options = MeantOptions(meant)
  /\ Given \o input = AfterOptions(meant)

\* Shell::run(): a command gets the options and arguments that the user meant for it,
\* however he has quoted them, and leaves the words of the commands behind it: as long as
\* no command has an option with a second one or "--" among the next two words, or with
\* nothing behind it.  Nor does a batch change what the program's own options ask for.
GetsItsWords ==
  pc = "execute" /\ plain => Separated /\ (batch => config = asked)

\* The same of every command (shell.cc:342: "separate options from arguments").
OptionsSeparated == pc = "execute" => Separated

\* What complete() offers for an argument is that argument of the command when run() has
\* the line: run() does not find too many arguments, and the command is executed with the
\* word at the position that complete() has counted, and takes it.  But run() may refuse a
\* line it cannot separate ("upload -nostart -- f"), or one with arguments that look like
\* options, which complete() counts as such; and an unknown word that complete() has put
\* into the table is offered for a command.  (What is offered at the prompt for an argument
\* is PromptOffersArgument.)  What readline inserts is common to all words
\* (completion.cc:203-204), unless download offers "all" beside firmwares that begin so.
CompletesItsArgument ==
  /\ \A a \in accepted : ~LooksLikeOption(a.word) =>
       /\ pc = "arguments" /\ plain /\ NoneLooksLikeOption(AfterOptions(meant)) => ~WrongNumber
       /\ pc = "execute" => /\ cmd.args[a.pos + 1] = a.word
                            /\ a.word \in Taken(cmd.command) \/ unknown
  /\ offered.of = "command" => offered.words \subseteq Words \/ unknown
  /\ <<"all">> \notin offered.words =>
       \A w \in offered.words : IsPrefix(Replacement(offered.words), w)

\* Completor::complete() "must supply the completions that are available for the specified
\* text" (completion.h:70): at the prompt for an argument, what the command takes.
PromptOffersArgument ==
  pc = "arguments" /\ offered.of \in {"command", "argument"} =>
    offered.words \subseteq Taken(cmd.command)

\* The shell crashes only when the completion was asked for a word that is no command
\* (m_commands[vec[0]]), or at the options that run() cannot separate.
CrashesExplained == ended = "crash" => unknown \/ ~plain

\* run(m_args): a batch ends before its last word only at an error of its own, or at exit;
\* a command that fails does not keep the others from being run.
BatchRunsAll ==
  [][pc = "execute" /\ batch /\ input # <<>> /\ pc' # "lookup" =>
       cmd.command = Exit_ \/ ended' # "no"]_vars

\* Every batch comes to its end, and every line of the user to the next prompt.
RunEnds == pc = "lookup" ~> pc \in {"read", "down"}
=============================================================================
