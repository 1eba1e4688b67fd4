------------------------------ MODULE Console ------------------------------
(***************************************************************************)
(* The serial console of diag: GetCommand with its history (src/diag),     *)
(* the line cut into words and the command looked up (src/lib/command.c).  *)
(*                                                                         *)
(* A line is a sequence of characters.  The buffer behind it is `line`     *)
(* and one byte, its last: GetCommand leaves that byte alone when a line   *)
(* fills the buffer, so what it held ends the string, or does not.         *)
(* The screen shows what has been echoed since the prompt.                 *)
(***************************************************************************)
EXTENDS Integers, Sequences, SequencesExt

CONSTANTS
    Blank,           \* the character that separates words
    Commands,        \* the names in the section of the command list, in its order
    Help,            \* the name of the help command
    Typable,         \* the lines a user types: a prefix-closed set (bound)
    MaxLine,         \* MAX_COMMANDLINE_LENGTH
    MAX_HIST

ASSUME ConsoleAssumption ==
    /\ MaxLine \in Nat \ {0, 1} /\ MAX_HIST \in Nat \ {0, 1}
    /\ <<>> \in Typable
    /\ \A l \in Typable : Len(l) < MaxLine
    /\ Commands \in Seq(ToSet(Commands))
    /\ \A i, j \in DOMAIN Commands : Commands[i] = Commands[j] => i = j
    /\ Help \in ToSet(Commands)

VARIABLES
    pc,              \* "edit": GetCommand; "run": the line goes to parse_command
    line,            \* command[0 .. numRead - 1]
    last,            \* command[MaxLine - 1]: "nul" or "junk"
    screen,          \* what the terminal shows after the prompt
    waiting,         \* a character is in the UART before GetCommand polls
    hist, cmdhist_read, cmdhist_write, cmdhist_entries,
    ran,             \* what parse_command did with the line
    past,            \* history variable: the lines kept, newest first
    age              \* history variable: how far back the user has gone

history == <<hist, cmdhist_read, cmdhist_write, cmdhist_entries>>
vars == <<pc, line, last, screen, waiting, history, ran, past, age>>

Idle == [what |-> "nothing", name |-> <<>>, argv |-> <<>>, told |-> <<>>]
maxRead == MaxLine - 1
Chars == UNION {ToSet(l) : l \in Typable}

Init ==
    /\ pc = "edit" /\ line = <<>> /\ screen = <<>> /\ waiting = FALSE
    /\ last \in {"nul", "junk"}
    /\ hist = [i \in 0 .. MAX_HIST - 1 |-> <<>>]
    /\ cmdhist_read = 0 /\ cmdhist_write = 0 /\ cmdhist_entries = 0
    /\ ran = Idle /\ past = <<>> /\ age = 0

-----------------------------------------------------------------------------
(* The history: a ring that push fills and the arrow keys walk.            *)

cmdhist_push_wrong(cmd) ==
    IF cmd = <<>>
    THEN UNCHANGED <<hist, cmdhist_write, cmdhist_entries, past>>
    ELSE /\ hist' = [hist EXCEPT ![cmdhist_write] = cmd]
         /\ cmdhist_write' = IF cmdhist_write = MAX_HIST - 1
                             THEN cmdhist_write ELSE cmdhist_write + 1
         /\ cmdhist_entries' = IF cmdhist_entries < MAX_HIST
                               THEN cmdhist_entries + 1 ELSE cmdhist_entries
         /\ past' = IF Len(past) < MAX_HIST THEN <<cmd>> \o past
                    ELSE <<cmd>> \o Front(past)

cmdhist_push(cmd) ==
    IF cmd = <<>>
    THEN UNCHANGED <<hist, cmdhist_write, cmdhist_entries, past>>
    ELSE /\ hist' = [hist EXCEPT ![cmdhist_write] = cmd]
         /\ cmdhist_write' = (cmdhist_write + 1) % MAX_HIST
         /\ cmdhist_entries' = IF cmdhist_entries < MAX_HIST
                               THEN cmdhist_entries + 1 ELSE cmdhist_entries
         /\ past' = IF Len(past) < MAX_HIST THEN <<cmd>> \o past
                    ELSE <<cmd>> \o Front(past)

\* The entry an arrow key goes to; -1 where the code returns -EINVAL.
cmdhist_next ==
    LET ptr == IF cmdhist_read = 0 THEN MAX_HIST - 1 ELSE cmdhist_read - 1
    IN  IF \/ cmdhist_entries = 0
           \/ cmdhist_read = 0 /\ cmdhist_entries # MAX_HIST
           \/ hist[ptr] = <<>>
        THEN -1 ELSE ptr

cmdhist_prev ==
    LET ptr == (cmdhist_read + 1) % MAX_HIST
    IN  IF cmdhist_entries = 0 \/ ptr = cmdhist_write \/ hist[ptr] = <<>>
        THEN -1 ELSE ptr

-----------------------------------------------------------------------------
(* GetCommand.                                                             *)

\* The loop ends when numRead reaches maxRead, and then writes no NUL: the
\* line runs on into the last byte of the buffer, and the history refuses it
\* if that makes it too long.
Return(l) ==
    /\ pc' = "run" /\ line' = l
    /\ \/ cmdhist_push(l)
       \/ Len(l) = maxRead /\ last' = "junk" /\ cmdhist_push(<<>>)

Continue(l) ==
    IF Len(l) = maxRead
    THEN Return(l)
    ELSE pc' = "edit" /\ line' = l /\ cmdhist_push(<<>>)

Key(c) ==
    /\ pc = "edit" /\ ~waiting /\ Append(line, c) \in Typable
    /\ screen' = Append(screen, c)
    /\ UNCHANGED <<last, waiting, cmdhist_read, ran, age>>
    /\ Continue(Append(line, c))

RubOut_wrong(n) == IF n = 0 THEN screen ELSE SubSeq(screen, 1, Len(screen) - n + 1)

\* What is left on the screen when n characters have been rubbed out.
RubOut(n) == SubSeq(screen, 1, Len(screen) - n)

Backspace ==
    /\ pc = "edit" /\ ~waiting /\ line # <<>>
    /\ screen' = RubOut(1)
    /\ line' = Front(line)
    /\ UNCHANGED <<pc, last, waiting, history, ran, past, age>>

\* An arrow key that finds an entry: the line is rubbed out, the entry shown
\* and copied over the whole buffer.
Show(ptr) ==
    /\ screen' = RubOut(Len(line)) \o hist[ptr]
    /\ cmdhist_read' = ptr /\ last' = "nul"
    /\ UNCHANGED <<waiting, ran>>
    /\ Continue(hist[ptr])

KeyUp ==
    /\ pc = "edit" /\ ~waiting /\ cmdhist_next >= 0
    /\ Show(cmdhist_next)
    /\ age' = IF age = MAX_HIST THEN 1 ELSE age + 1

KeyDown ==
    /\ pc = "edit" /\ ~waiting /\ cmdhist_prev >= 0
    /\ Show(cmdhist_prev)
    /\ age' = IF age = 0 THEN MAX_HIST - 1 ELSE age - 1

Enter ==
    /\ pc = "edit" /\ ~waiting
    /\ Return(line) /\ UNCHANGED <<screen, last, waiting, cmdhist_read, ran, age>>

\* A character comes while GetCommand is not blocked in serial_read: it is
\* echoing the one before, or a command runs.
TypeAhead ==
    /\ ~waiting /\ waiting' = TRUE
    /\ UNCHANGED <<pc, line, last, screen, history, ran, past, age>>

\* The polling loop goes on while a character is there, so it ends only by
\* the time-out, which ends the line; the character is still there.
TimeOut ==
    /\ pc = "edit" /\ waiting
    /\ Return(line) /\ UNCHANGED <<screen, last, waiting, cmdhist_read, ran, age>>

\* What the screen shows is counted from the prompt on.
DisplayPrompt == screen' = <<>>

cmdhist_reset == cmdhist_read' = cmdhist_write

\* Back to the prompt; GetCommand is called again and resets the history.
Prompt ==
    /\ pc' = "edit" /\ line' = <<>> /\ DisplayPrompt
    /\ cmdhist_reset /\ age' = 0
    /\ UNCHANGED <<last, waiting, hist, cmdhist_write, cmdhist_entries, past>>

ReadError ==
    /\ pc = "edit" /\ ~waiting /\ Prompt /\ UNCHANGED ran

-----------------------------------------------------------------------------
(* The line is cut into words, and the first one looked up.                *)

\* parse_args is a machine of two states: between words, and in one.
ParseChar(st, c) ==
    IF c = Blank THEN [inWord |-> FALSE, argv |-> st.argv]
    ELSE [inWord |-> TRUE,
          argv |-> IF st.inWord
                   THEN [st.argv EXCEPT ![Len(st.argv)] = Append(@, c)]
                   ELSE Append(st.argv, <<c>>)]

parse_args(s) ==
    LET after[i \in 0 .. Len(s)] ==
            IF i = 0 THEN [inWord |-> FALSE, argv |-> <<>>]
            ELSE ParseChar(after[i - 1], s[i])
    IN  after[Len(s)].argv

\* (mutant of init_commands: the last entry is not linked)
init_commands_short ==
    [i \in DOMAIN Commands |-> IF i < Len(Commands) - 1 THEN i + 1 ELSE 0]

\* The entries of the section are linked to a list, and the list is walked.
init_commands == [i \in DOMAIN Commands |-> IF i < Len(Commands) THEN i + 1 ELSE 0]
Walked ==
    LET from[i \in 0 .. Len(Commands)] ==
            IF i = 0 THEN <<>> ELSE <<Commands[i]>> \o from[init_commands[i]]
    IN  from[1]

\* The places in the list whose names begin with the word.
Matches(word) == {i \in DOMAIN Walked : IsPrefix(word, Walked[i])}

Refuse(why, argv) == [what |-> why, name |-> <<>>, argv |-> argv, told |-> <<>>]

\* help takes the name of a command, in full
help(argv) ==
    IF Len(argv) = 1
    THEN [what |-> "called", name |-> Help, argv |-> argv, told |-> Walked]
    ELSE IF argv[2] \in ToSet(Walked)
    THEN [what |-> "called", name |-> Help, argv |-> argv, told |-> <<argv[2]>>]
    ELSE Refuse("EINVAL", argv)

parse_command(s) ==
    LET argv == parse_args(s)
        found == Matches(argv[1])
        name == Walked[Min(found)]
    IN  IF argv = <<>> THEN Idle
        ELSE IF found = {} THEN Refuse("ECOMMAND", argv)
        ELSE IF Cardinality(found) > 1 THEN Refuse("EAMBIGCMD", argv)
        ELSE IF name = Help THEN help(argv)
        ELSE [what |-> "called", name |-> name, argv |-> argv, told |-> <<>>]

\* The string the buffer holds.
String == IF Len(line) = maxRead /\ last = "junk" THEN Append(line, "junk") ELSE line

MainLoop ==
    /\ pc = "run" /\ Prompt
    /\ ran' = IF line = <<>> THEN Idle ELSE parse_command(String)

Next ==
    \/ \E c \in Chars : Key(c)
    \/ Backspace \/ KeyUp \/ KeyDown \/ Enter
    \/ TypeAhead \/ TimeOut \/ ReadError
    \/ MainLoop

Spec == Init /\ [][Next]_vars

-----------------------------------------------------------------------------
(* Properties.                                                             *)

\* The words of a line: its longest stretches without a blank, in order.
\* Word w lies from at[w] to the place before end(w).
AreWords(argv, s) ==
    \E at \in [DOMAIN argv -> DOMAIN s] :
        LET end(w) == at[w] + Len(argv[w])
        IN  /\ \A w \in DOMAIN argv :
                 /\ argv[w] # <<>> /\ end(w) <= Len(s) + 1
                 /\ \A k \in DOMAIN argv[w] : argv[w][k] = s[at[w] + k - 1]
            /\ \A v, w \in DOMAIN argv : v < w => end(v) < at[w]
            /\ \A i \in DOMAIN s :
                 s[i] # Blank <=> \E w \in DOMAIN argv : at[w] <= i /\ i < end(w)

\* What the user means by the words: the one command whose name they begin
\* with; and help, by itself, is about every command, each once.
Meant(o, s) ==
    LET named == {c \in ToSet(Commands) :
                    o.argv # <<>> /\ IsPrefix(o.argv[1], c)}
    IN  /\ AreWords(o.argv, s)
        /\ o.what = "called" => named = {o.name}
        /\ named # {} /\ o.what # "called" =>
               \/ \E c, d \in named : c # d
               \/ named = {Help} /\ o.argv[2] \notin ToSet(Commands)
        /\ o.what = "called" /\ o.name = Help =>
               IF Len(o.argv) = 1
               THEN Len(o.told) = Len(Commands) /\ ToSet(o.told) = ToSet(Commands)
               ELSE o.told = <<o.argv[2]>>

\* However a line was made - typed, rubbed out, recalled, cut off by the
\* time-out - the command that runs, and the words it gets, are those the
\* screen shows.  A line that fills the buffer is excepted when the byte
\* behind it is not NUL.
ShownIsRun ==
    [][(pc = "run" /\ pc' = "edit" /\ (Len(screen) = maxRead => last = "nul"))
         => Meant(ran', screen)]_vars

\* The arrow keys walk the last MAX_HIST lines in the order they were given,
\* newest first, and show each, through any wrap of the ring.
RecallOrder ==
    [][(line' # line /\ pc = "edit" /\ (KeyUp \/ KeyDown))
         => line' = past[age'] /\ screen' = line']_vars

=============================================================================
