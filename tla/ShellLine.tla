------------------------------ MODULE ShellLine ------------------------------
(***************************************************************************)
(* One argument on the console: how a report is quoted (quote_field,       *)
(* lib/point-cache.c), and how Zephyr's shell reads an argument back.      *)
(***************************************************************************)
EXTENDS JsonString

Space == "space"
Apostrophe == "apostrophe"

NotWritten == <<"not written">>
NotRead == <<"not read">>

\* The letters that quote_field writes after a backslash.
ShellEscape == [LF |-> "n", CR |-> "r", TAB |-> "t", quote |-> Quote, backslash |-> Backslash]

NeedsQuote(s) == s = <<>> \/ ToSet(s) \cap ({Space, Quote, Backslash} \cup Controls) # {}

ShellChar(c) == IF c \in DOMAIN ShellEscape THEN <<Backslash, ShellEscape[c]>> ELSE <<c>>

\* Mutant: only an empty value is quoted.
QuoteFieldEmpty(s, size) ==
  IF s # <<>> THEN s ELSE <<Quote, Quote>>

\* The text to print, if a buffer of that size can hold it.  A quoted one needs
\* room for the quotes, the terminator and one more.
QuoteField(s, size) ==
  LET body == FlattenSeq([i \in DOMAIN s |-> ShellChar(s[i])])
  IN  IF ~NeedsQuote(s)
        THEN IF Len(s) < size THEN s ELSE NotWritten
        ELSE IF Len(body) + 4 <= size THEN <<Quote>> \o body \o <<Quote>> ELSE NotWritten

\* Between quotes the shell decodes the escaped quote and nothing else;
\* json_unescape_string is left to decode the rest.
InsideQuotes(s) ==
  LET Rest[i \in 1..(Len(s) + 1)] ==
        CASE i > Len(s) -> NotRead
          [] i <= Len(s) /\ s[i] = Quote -> <<>>
          [] i < Len(s) /\ s[i] = Backslash /\ s[i + 1] = Quote ->
               IF Rest[i + 2] = NotRead THEN NotRead ELSE <<Quote>> \o Rest[i + 2]
          [] OTHER -> IF Rest[i + 1] = NotRead THEN NotRead ELSE <<s[i]>> \o Rest[i + 1]
  IN  Rest[1]

\* To the shell an apostrophe is a quote too: two of them vanish, and one alone
\* leaves the command unfinished.  A bare space ends the argument, and what comes
\* after it is no time.
Argument(s) ==
  LET bare == FlattenSeq([i \in DOMAIN s |-> IF s[i] = Apostrophe THEN <<>> ELSE <<s[i]>>])
  IN  IF s # <<>> /\ s[1] = Quote THEN InsideQuotes(Tail(s))
      ELSE IF (Len(s) - Len(bare)) % 2 = 1 \/ Space \in ToSet(bare) THEN NotRead
      ELSE bare
=============================================================================
