----------------------------- MODULE ConfigParse -----------------------------
(***************************************************************************)
(* The reading of the buffered configuration by cmain (stage2/stage2.c):  *)
(* get_line_from_config, which returns one command line of               *)
(* cln_cfg_file_buffer per call from a static index, and the body of the   *)
(* cmain loop that sorts the lines into global commands and menu entries.  *)
(*                                                                         *)
(* Text is a sequence of tokens: a letter token stands for a run of        *)
(* letters (a command name or an argument), the others for the characters  *)
(* the parser treats specially.  A word is the run of tokens up to a space *)
(* or "=".                                                                 *)
(***************************************************************************)
EXTENDS SequencesExt, Integers

SP  == " "
TAB == "\t"
CR  == "\r"
NL  == "\n"
BSL == "\\"
HASH == "#"
EQ  == "="

\* The flags of a builtin that tell the configuration loop what to do with it.
BUILTIN_TITLE == "BUILTIN_TITLE"
BUILTIN_MENU  == "BUILTIN_MENU"

(* The locals of one call of get_line_from_config: the line so far        *)
(* (cmdline[0..pos-1]), the backslash and comment flags, and the static    *)
(* cln_index.                                                              *)
GetLineInit(idx) == [line |-> <<>>, literal |-> FALSE, comment |-> FALSE, idx |-> idx,
                     done |-> FALSE]

\* Mutant: the backslash flag is never cleared once set.
get_line_char_sticky(g, c0, maxlen) ==
    LET c1   == IF c0 = TAB THEN SP ELSE c0
        cont == g.literal /\ c1 = NL
        c    == IF cont THEN SP ELSE c1
        line == IF cont /\ g.line # <<>> THEN Front(g.line) ELSE g.line
        h    == [g EXCEPT !.line = line, !.literal = g.literal \/ (c = BSL)]
    IN  CASE c0 = CR          -> g
          [] g.comment        -> [h EXCEPT !.comment = (c # NL)]
          [] line = <<>>      -> IF c = HASH THEN [h EXCEPT !.comment = TRUE]
                                 ELSE IF c \in {SP, NL} THEN h
                                 ELSE [h EXCEPT !.line = <<c>>]
          [] c = NL           -> [h EXCEPT !.done = TRUE]
          [] Len(line) < maxlen -> [h EXCEPT !.line = Append(line, c)]
          [] OTHER            -> h

(* One turn of the loop on the character c: carriage returns are skipped, *)
(* a tab is a space; after a backslash a newline becomes a space that      *)
(* overwrites the backslash; a "#" before the first character starts a    *)
(* comment up to the newline; blanks before the first character are       *)
(* dropped; a newline after it ends the line; characters past maxlen are   *)
(* dropped.                                                                *)
get_line_char(g, c0, maxlen) ==
    LET c1   == IF c0 = TAB THEN SP ELSE c0
        cont == g.literal /\ c1 = NL
        c    == IF cont THEN SP ELSE c1
        line == IF cont /\ g.line # <<>> THEN Front(g.line) ELSE g.line
        h    == [g EXCEPT !.line = line, !.literal = (c = BSL)]
    IN  CASE c0 = CR          -> g
          [] g.comment        -> [h EXCEPT !.comment = (c # NL)]
          [] line = <<>>      -> IF c = HASH THEN [h EXCEPT !.comment = TRUE]
                                 ELSE IF c \in {SP, NL} THEN h
                                 ELSE [h EXCEPT !.line = <<c>>]
          [] c = NL           -> [h EXCEPT !.done = TRUE]
          [] Len(line) < maxlen -> [h EXCEPT !.line = Append(line, c)]
          [] OTHER            -> h

(* get_line_from_config (read_from_file): read from cln_index until a    *)
(* line ends; at the end of the buffer cln_index goes back to 0 and the   *)
(* line read so far is returned.                                           *)
\* Mutant: cln_index is left at the end of the buffer.
RECURSIVE get_line_loop_noreset(_, _, _, _)
get_line_loop_noreset(buf, size, maxlen, g) ==
    IF g.done \/ g.idx = size THEN g
    ELSE get_line_loop_noreset(buf, size, maxlen,
                       [get_line_char(g, buf[g.idx + 1], maxlen) EXCEPT !.idx = g.idx + 1])

RECURSIVE get_line_loop(_, _, _, _)
get_line_loop(buf, size, maxlen, g) ==
    IF g.done THEN g
    ELSE IF g.idx = size THEN [g EXCEPT !.idx = 0]
    ELSE get_line_loop(buf, size, maxlen,
                       [get_line_char(g, buf[g.idx + 1], maxlen) EXCEPT !.idx = g.idx + 1])

get_line_from_config(buf, idx, maxlen) ==
    LET g == get_line_loop(buf, Len(buf), maxlen, GetLineInit(idx))
    IN  [line |-> g.line, idx |-> g.idx]

\* The first word of a line, and the text behind it (skip_to (1, cmdline)).
FirstWordLen(line) ==
    LET ends == {i \in 1..Len(line) : line[i] \in {SP, EQ}}
    IN  IF ends = {} THEN Len(line) ELSE Min(ends) - 1
skip_to(line) ==
    LET rest == SubSeq(line, FirstWordLen(line) + 1, Len(line))
        lead == {i \in 1..Len(rest) : \A j \in 1..i : rest[j] \in {SP, EQ}}
    IN  SubSeq(rest, Cardinality(lead) + 1, Len(rest))

\* find_command: the builtin named by the first word, or NULL.
find_command(table, line) ==
    LET word == SubSeq(line, 1, FirstWordLen(line))
        hits == {i \in DOMAIN table : <<table[i].name>> = word}
    IN  IF hits = {} THEN [name |-> "NULL", flags |-> {}] ELSE table[Min(hits)]

(* The configuration loop's locals: state (0 before any title, 1 in a     *)
(* title, above 1 in an entry), the menu entries (the last one unfinished  *)
(* while state is 1 or more), and the global commands it ran.             *)
ParseInit == [state |-> 0, entries |-> <<>>, globals |-> <<>>]

(* The body of the while loop for one command line: unknown commands are *)
(* skipped; a title finishes the entry before it, or replaces a title     *)
(* that got no command; before any title only BUILTIN_MENU commands run;  *)
(* after one, every command joins the entry.                              *)
cmain_config_line(p, b, line) ==
    CASE b.name = "NULL" -> p
      [] BUILTIN_TITLE \in b.flags ->
           [p EXCEPT !.state = 1,
                     !.entries = (IF p.state = 1 THEN Front(@) ELSE @)
                                 \o <<[title |-> skip_to(line), cmds |-> <<>>]>>]
      [] p.state = 0 ->
           IF BUILTIN_MENU \in b.flags THEN [p EXCEPT !.globals = Append(@, line)] ELSE p
      [] OTHER ->
           [p EXCEPT !.state = @ + 1,
                     !.entries[Len(p.entries)].cmds = Append(@, line)]

\* The end of the loop: a last title that got no command is dropped.
cmain_config_end(p) ==
    [p EXCEPT !.entries = IF p.state = 1 THEN Front(@) ELSE @]
-----------------------------------------------------------------------------
(* Reference: the configuration as the GRUB manual describes it.  Carriage *)
(* returns are ignored, tabs are blanks, a backslash before a newline     *)
(* joins two lines; leading blanks are dropped, blank lines and lines     *)
(* starting with "#" are ignored.                                          *)
RECURSIVE JoinLines(_)
JoinLines(t) ==
    IF Len(t) < 2 THEN t
    ELSE IF t[1] = BSL /\ t[2] = NL THEN <<SP>> \o JoinLines(Tail(Tail(t)))
    ELSE <<t[1]>> \o JoinLines(Tail(t))
RefText(text) == JoinLines(ReplaceAll(Remove(text, CR), TAB, SP))
RefBreaks(t) == <<0>> \o SelectSeq([i \in 1..Len(t) |-> IF t[i] = NL THEN i ELSE 0],
                                   LAMBDA i : i # 0) \o <<Len(t) + 1>>
RefSegment(t, k) ==
    LET b == RefBreaks(t)
        s == SubSeq(t, b[k] + 1, b[k + 1] - 1)
        lead == {i \in 1..Len(s) : \A j \in 1..i : s[j] = SP}
    IN  SubSeq(s, Cardinality(lead) + 1, Len(s))
RefLines(text) ==
    LET t == RefText(text)
    IN  SelectSeq([k \in 1..(Len(RefBreaks(t)) - 1) |-> RefSegment(t, k)],
                  LAMBDA l : l # <<>> /\ l[1] # HASH)

(* The menu: every title followed, before the next title, by at least one *)
(* known command, with those commands; the global commands are the known  *)
(* BUILTIN_MENU commands before the first title.                           *)
RefMenu(table, text) ==
    LET L    == RefLines(text)
        cmd(i) == find_command(table, L[i])
        titles == SelectSeq([i \in 1..Len(L) |-> IF BUILTIN_TITLE \in cmd(i).flags THEN i ELSE 0],
                            LAMBDA i : i # 0)
        next(k) == IF k < Len(titles) THEN titles[k + 1] ELSE Len(L) + 1
        body(k) == SelectSeq([j \in 1..(next(k) - titles[k] - 1) |-> L[titles[k] + j]],
                             LAMBDA l : find_command(table, l).name # "NULL")
        first == IF titles = <<>> THEN Len(L) + 1 ELSE titles[1]
    IN  [entries |-> SelectSeq([k \in 1..Len(titles) |->
                                  [title |-> skip_to(L[titles[k]]), cmds |-> body(k)]],
                               LAMBDA e : e.cmds # <<>>),
         globals |-> SelectSeq(SubSeq(L, 1, first - 1),
                               LAMBDA l : BUILTIN_MENU \in find_command(table, l).flags)]

(* The text ends inside a command line: after the last newline (or a     *)
(* backslash-joined one) there is a line that is neither blank nor a      *)
(* comment.                                                                *)
OpenLastLine(text) ==
    LET t == RefText(text)
        s == RefSegment(t, Len(RefBreaks(t)) - 1)
    IN  s # <<>> /\ s[1] # HASH
====
