----------------------------- MODULE GYINIReader -----------------------------
(***************************************************************************)
(* Reading a value from an INI file (CommonDefine/GYINIReader.cpp): the    *)
(* file is gone through line by line, first for the node, then for the     *)
(* key, and the text behind the equal sign is the answer.                  *)
(*                                                                         *)
(* A line is a sequence of tokens: the characters the reader looks for     *)
(* ("[", "]", "=" and the blanks " ", "\t", "\r") and words, which stand   *)
(* for any other text.  Node and key names are sequences of tokens too.    *)
(* The 2 MB a file and the 1024 bytes a value may have are left out.       *)
(***************************************************************************)
EXTENDS Integers, Sequences, SequencesExt

CONSTANTS
    INIFiles,   \* [exists, lines]: the files that may be read
    Nodes,      \* the node names asked for
    Keys        \* the key names asked for

VARIABLES
    ini,        \* the file that is read
    reader      \* where the reader stands, what it looks for, what it answered

vars == <<ini, reader>>

NoName == <<"NULL">>
Blanks == {" ", "\t", "\r"}
ValueBlanks == {" ", "\t"}

-----------------------------------------------------------------------------
(* Lines.                                                                  *)

TrimFront(s, blanks) ==
    LET i == SelectInSeq(s, LAMBDA t : t \notin blanks)
    IN  IF i = 0 THEN <<>> ELSE SubSeq(s, i, Len(s))

TrimBack(s, blanks) == SubSeq(s, 1, SelectLastInSeq(s, LAMBDA t : t \notin blanks))

Position(s, token) == SelectInSeq(s, LAMBDA t : t = token)

\* After blanks the line begins with a bracket.
Bracketed(line) == LET s == TrimFront(line, Blanks) IN s # <<>> /\ s[1] = "["

\* Mutant of NamesNode: a node whose name only begins like the one looked for
\* is taken for it.
NamesNodePrefix(line, node) ==
    LET s     == TrimFront(line, Blanks)
        close == Position(s, "]")
    IN  Bracketed(line) /\ close > 0 /\ IsPrefix(node, SubSeq(s, 2, close - 1))

\* The line is the node: its name stands between the brackets as it is.
NamesNode(line, node) ==
    LET s     == TrimFront(line, Blanks)
        close == Position(s, "]")
    IN  Bracketed(line) /\ close > 0 /\ SubSeq(s, 2, close - 1) = node

\* The line is the key: blanks around the key in the file and spaces around
\* the key looked for do not matter, a line with nothing before "=" is none.
NamesKey(line, key) ==
    LET equal == Position(line, "=")
        name  == TrimBack(TrimFront(SubSeq(line, 1, equal - 1), Blanks), Blanks)
    IN  equal > 0 /\ name # <<>> /\ name = TrimBack(TrimFront(key, {" "}), {" "})

\* The text after "=", of which a "\r" at the end is a part.
ValueOf(line) ==
    TrimBack(TrimFront(SubSeq(line, Position(line, "=") + 1, Len(line)), ValueBlanks),
             ValueBlanks)

-----------------------------------------------------------------------------
(* ReadINIPointCharValue and its three callers, which hand the answer on   *)
(* when it is OK and leave the caller's value alone otherwise.             *)

Answer(result, value) ==
    reader' = [reader EXCEPT !.pc = "answered", !.result = result, !.value = value]

ReadValue(node, key) ==
    /\ reader.pc = "idle"
    /\ reader' = [reader EXCEPT
           !.node = node, !.key = key,
           !.pc = IF ini.exists /\ node # NoName /\ key # NoName THEN "node" ELSE "answered",
           !.result = IF node = NoName THEN "ERROR_NO_SPECIFIED_NODE"
                      ELSE IF key = NoName THEN "ERROR_NO_SPECIFIED_KEY"
                      ELSE IF ~ini.exists THEN "ERROR_LOAD_FILE_ERROR"
                      ELSE "none"]
    /\ UNCHANGED ini

HasLine == reader.line <= Len(ini.lines)

NodeLine ==
    /\ reader.pc = "node" /\ HasLine
    /\ reader' = [reader EXCEPT
           !.line = @ + 1,
           !.pc = IF NamesNode(ini.lines[reader.line], reader.node) THEN "key" ELSE "node"]
    /\ UNCHANGED ini

\* A line of the node.  The loop that should find the end of a next node
\* (:159-167) does not move along the line: it never ends.
KeyLine ==
    LET line == ini.lines[reader.line]
    IN  /\ reader.pc = "key" /\ HasLine
        /\ IF Bracketed(line)
           THEN reader' = [reader EXCEPT !.pc = "hangs"]
           ELSE IF ~NamesKey(line, reader.key)
           THEN reader' = [reader EXCEPT !.line = @ + 1]
           ELSE IF ValueOf(line) = <<>>
           THEN Answer("ERROR_NO_VALUE", reader.value)
           ELSE Answer("OK", ValueOf(line))
        /\ UNCHANGED ini

NoLine ==
    /\ reader.pc \in {"node", "key"} /\ ~HasLine
    /\ Answer(IF reader.pc = "node" THEN "ERROR_FIND_NODE_ERROR" ELSE "ERROR_FIND_KEY_ERROR",
              reader.value)
    /\ UNCHANGED ini

Init ==
    /\ ini \in INIFiles
    /\ reader = [pc |-> "idle", node |-> NoName, key |-> NoName, line |-> 1, result |-> "none",
                 value |-> <<>>]

Next ==
    \/ \E node \in Nodes, key \in Keys : ReadValue(node, key)
    \/ NodeLine
    \/ KeyLine
    \/ NoLine

Spec == Init /\ [][Next]_vars

-----------------------------------------------------------------------------
(* Properties.                                                             *)

\* What a file means: without its blanks, a node is a line "[name]", and up to
\* the next line that begins with "[" each line "key=value" gives a value.
Bare(line) ==
    LET bare[n \in 0..Len(line)] == IF n = 0 THEN <<>>
                                    ELSE IF line[n] \in Blanks THEN bare[n - 1]
                                    ELSE Append(bare[n - 1], line[n])
    IN  bare[Len(line)]
Heads(lines) == {i \in DOMAIN lines : Bare(lines[i]) # <<>> /\ Bare(lines[i])[1] = "["}
HeadsNamed(lines, node) ==
    {i \in Heads(lines) : IsPrefix(<<"[">> \o node \o <<"]">>, Bare(lines[i]))}
Node(lines, head) ==
    {i \in DOMAIN lines : i > head /\ Heads(lines) \cap (head + 1)..i = {}}
KeyIn(lines, head, key) ==
    {i \in Node(lines, head) : IsPrefix(Bare(key) \o <<"=">>, Bare(lines[i]))}
Said(line, key) == SubSeq(Bare(line), Len(Bare(key)) + 2, Len(Bare(line)))

Least(S) == CHOOSE i \in S : \A j \in S : i <= j

\* The reader answers what the file says of the first node of the name, but
\* keeps a "\r"; a key that another node follows before it is found hangs it.
\* A name that holds blanks inside is beyond this reading of the file.
IniAnswers ==
    LET heads == HeadsNamed(ini.lines, reader.node)
        keys  == KeyIn(ini.lines, Least(heads), reader.key)
        after == {i \in Heads(ini.lines) : i > Least(heads)}
        said  == Said(ini.lines[Least(keys)], reader.key)
    IN  /\ reader.pc = "hangs" => heads # {} /\ keys = {} /\ after # {}
        /\ reader.pc = "answered" =>
              CASE reader.result = "ERROR_FIND_NODE_ERROR" -> heads = {}
                [] reader.result = "ERROR_FIND_KEY_ERROR"  ->
                      heads # {} /\ keys = {} /\ after = {}
                [] reader.result = "ERROR_NO_VALUE"        ->
                      heads # {} /\ keys # {} /\ said = <<>>
                [] reader.result = "OK"                    ->
                      heads # {} /\ keys # {} /\ Bare(reader.value) = said
                [] OTHER -> reader.node = NoName \/ reader.key = NoName \/ ~ini.exists
=============================================================================
