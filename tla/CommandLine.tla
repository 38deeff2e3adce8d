----------------------------- MODULE CommandLine -----------------------------
(***************************************************************************)
(* How tsh.c reads its input: main's loop around fgets, parseline, and the *)
(* choice between a builtin command and a job.  What the commands do then  *)
(* is in Shell.                                                            *)
(*                                                                         *)
(* A character is a blank, a quote, an ampersand, the end of a line or a   *)
(* letter.  A name is one letter: "q" is quit or exit, "j" jobs, "f" fg or *)
(* bg; any other is the name of a program.                                 *)
(***************************************************************************)
EXTENDS Integers, SequencesExt, FiniteSetsExt

CONSTANTS
    MAXLINE,        \* size of the buffer for a line
    MAXARGS,        \* entries of argv
    Vocabulary,     \* words that commands are made of, sequences of characters
                    \* other than the end of a line
    Gaps,           \* numbers of blanks that may be typed
    MaxWords,       \* bound on the words of a command
    MaxLines        \* bound on the lines typed

Blank == " "
Quote == "'"
Newline == "\n"

VARIABLES
    input,          \* what has been typed and not been read
    shell,          \* "reading", "exited", "overrun" (argv), "terminated" (SIGQUIT)
    evaluated,      \* what eval has done: argv, bg and the kind of command
    typed           \* history: the commands as they were meant

lineVars == <<input, shell, evaluated, typed>>

-----------------------------------------------------------------------------
\* The first position from i on with character c, 0 when there is none (strchr).
strchr(buf, i, c) ==
    LET at == {k \in i..Len(buf) : buf[k] = c} IN IF at = {} THEN 0 ELSE Min(at)

\* A slip: the quote stays and the piece ends at a blank.
piecesWithQuotes(buf) ==
    LET NotBlank(i) == {k \in i..Len(buf) : buf[k] # Blank}
        from[i \in 1..Len(buf) + 1] ==
            IF NotBlank(i) = {} THEN <<>>
            ELSE LET first == Min(NotBlank(i))
                     delim == strchr(buf, first, Blank)
                 IN  IF delim = 0 THEN <<>>
                     ELSE <<SubSeq(buf, first, delim - 1)>> \o from[delim + 1]
    IN  from[1]

\* The pieces of a line whose end has been replaced by a blank.  A piece that
\* begins with a quote ends at the next one.
pieces(buf) ==
    LET NotBlank(i) == {k \in i..Len(buf) : buf[k] # Blank}
        from[i \in 1..Len(buf) + 1] ==
            IF NotBlank(i) = {} THEN <<>>
            ELSE LET first == Min(NotBlank(i))
                     begin == IF buf[first] = Quote THEN first + 1 ELSE first
                     delim == strchr(buf, begin, IF buf[first] = Quote THEN Quote ELSE Blank)
                 IN  IF delim = 0 THEN <<>>
                     ELSE <<SubSeq(buf, begin, delim - 1)>> \o from[delim + 1]
    IN  from[1]

\* The last piece asks for the background when it begins with an ampersand; a
\* blank line says the background, too.
parseline(cmdline) ==
    LET argv == pieces([cmdline EXCEPT ![Len(cmdline)] = Blank])
        bg == argv = <<>> \/ (Last(argv) # <<>> /\ Head(Last(argv)) = "&")
    IN  [argc |-> Len(argv), bg |-> bg, argv |-> IF bg /\ argv # <<>> THEN Front(argv) ELSE argv]

builtin_cmd(argv) ==
    CASE Head(argv) = <<"q">> -> "quit"
      [] Head(argv) = <<"&">> -> "nothing"
      [] Head(argv) = <<"f">> -> "do_bgfg"
      [] Head(argv) = <<"j">> -> "listjobs"
      [] OTHER -> "job"

\* fgets: up to the end of the line, as far as the buffer holds it.
fgets ==
    LET n == strchr(input, 1, Newline)
    IN  SubSeq(input, 1, Min({Len(input), MAXLINE - 1} \cup ({n} \ {0})))

-----------------------------------------------------------------------------
\* eval, up to its call of builtin_cmd.
eval(cmdline) ==
    LET line == parseline(cmdline)
        command == IF line.argv = <<>> THEN "blank" ELSE builtin_cmd(line.argv)
    IN  IF line.argc >= MAXARGS
        THEN shell' = "overrun" /\ UNCHANGED evaluated
        ELSE /\ evaluated' = Append(evaluated, [argv |-> line.argv, bg |-> line.bg, command |-> command])
             /\ shell' = IF command = "quit" THEN "exited" ELSE shell

\* main's loop.  fgets has seen the end of the input when what it read does not
\* fill the buffer and has no end of line; then that line is not evaluated.
ReadEval ==
    /\ shell = "reading"
    /\ input' = SubSeq(input, Len(fgets) + 1, Len(input))
    /\ IF Len(fgets) < MAXLINE - 1 /\ (fgets = <<>> \/ Last(fgets) # Newline)
       THEN shell' = "exited" /\ UNCHANGED evaluated
       ELSE eval(fgets)
    /\ UNCHANGED typed

sigquit_handler ==
    /\ shell = "reading"
    /\ shell' = "terminated"
    /\ UNCHANGED <<input, evaluated, typed>>

-----------------------------------------------------------------------------
\* What the user types: commands, each with blanks before, between and behind
\* its words, a word with a blank or without any character in quotes.  The last
\* line may have no end.
Rendered(w) ==
    IF w = <<>> \/ \E i \in DOMAIN w : w[i] = Blank THEN <<Quote>> \o w \o <<Quote>> ELSE w

Blanks(n) == [i \in 1..n |-> Blank]

Line(words, bg, gap) ==
    Blanks(gap)
        \o FlattenSeq([i \in DOMAIN words |-> Rendered(words[i]) \o Blanks(gap + 1)])
        \o (IF bg THEN <<"&">> ELSE <<>>) \o <<Newline>>

Commands ==
    {[words |-> ws, bg |-> b, line |-> Line(ws, b, gap)] :
        ws \in UNION {[1..n -> Vocabulary] : n \in 1..MaxWords}, b \in BOOLEAN, gap \in Gaps}

CommandLineInit ==
    /\ shell = "reading" /\ evaluated = <<>>
    /\ typed \in UNION {[1..n -> Commands] : n \in 0..MaxLines}
    /\ LET text == FlattenSeq([i \in DOMAIN typed |-> typed[i].line])
       IN  input = text \/ (text # <<>> /\ input = Front(text))

CommandLineNext == ReadEval \/ sigquit_handler

CommandLineSpec == CommandLineInit /\ [][CommandLineNext]_lineVars

-----------------------------------------------------------------------------
\* A command that the language of the shell can express: the line fits into the
\* buffer and argv, and the last word of a command for the foreground does not
\* begin with an ampersand.
Expressible(c) ==
    /\ Len(c.line) < MAXLINE
    /\ Len(c.words) + (IF c.bg THEN 1 ELSE 0) < MAXARGS
    /\ c.bg \/ Last(c.words) = <<>> \/ Head(Last(c.words)) # "&"

Meant(c) == [argv |-> c.words, bg |-> c.bg, command |-> builtin_cmd(c.words)]

\* The commands are evaluated as they were meant, word for word, in their order
\* and none twice, up to the first that the shell's language cannot express;
\* and the shell ends by itself only when all lines with an end have been
\* evaluated or one of them says so.
CommandsParsed ==
    LET bad == {i \in DOMAIN typed : ~Expressible(typed[i])}
        good == IF bad = {} THEN Len(typed) ELSE Min(bad) - 1
        done == Min({good, Len(evaluated)})
    IN  /\ \A i \in 1..done : evaluated[i] = Meant(typed[i])
        /\ bad = {} => Len(evaluated) <= Len(typed) /\ shell # "overrun"
        /\ shell = "exited" /\ bad = {} =>
               \/ evaluated # <<>> /\ Last(evaluated).command = "quit"
               \/ Len(evaluated) >= Len(typed) - 1
=============================================================================
