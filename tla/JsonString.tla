----------------------------- MODULE JsonString -----------------------------
(***************************************************************************)
(* The value of a string point on its way to the web page and back: it is  *)
(* escaped into a JSON document, and unescaped from the one that is posted *)
(* (json_escape_string and json_unescape_string, lib/point.c).  Zephyr's   *)
(* JSON library passes the text between the quotes through as it is.       *)
(***************************************************************************)
EXTENDS Integers, Sequences, SequencesExt, FiniteSetsExt

Quote == "quote"
Backslash == "backslash"
Controls == {"LF", "TAB", "CR", "BS", "FF"}

\* The short escapes, by the letter after the backslash.
Short == [n |-> "LF", t |-> "TAB", r |-> "CR", b |-> "BS", f |-> "FF", slash |-> "slash",
          quote |-> Quote, backslash |-> Backslash]

-----------------------------------------------------------------------------
(* lib/point.c *)

EscapedChar(c) == IF c \in {Quote, Backslash} THEN <<Backslash, c>> ELSE <<c>>

EscapedPrefix(s, k) == FlattenSeq([i \in 1..k |-> EscapedChar(s[i])])

\* Mutant: no room is left for the terminator.
EscapeFull(s, size) ==
  EscapedPrefix(s, Max({k \in 0..Len(s) : Len(EscapedPrefix(s, k)) <= size}))

\* Mutant: a value that fills the buffer to the terminator loses its last character.
EscapeShort(s, size) ==
  EscapedPrefix(s, Max({k \in 0..Len(s) : Len(EscapedPrefix(s, k)) + 1 < size}))

\* As many whole characters as leave room for the terminator.
Escape(s, size) ==
  EscapedPrefix(s, Max({k \in 0..Len(s) : Len(EscapedPrefix(s, k)) < size}))

\* The character decoded at position i of s.
DecodedAt(s, i) ==
  IF s[i] = Backslash /\ i < Len(s) /\ s[i + 1] \in DOMAIN Short
    THEN Short[s[i + 1]]
    ELSE s[i]

\* The scan moves on by two after an escape, which it recognises by the decoded
\* character not being a backslash.
Step(s, i) == IF s[i] = Backslash /\ i < Len(s) /\ DecodedAt(s, i) # s[i] THEN 2 ELSE 1

Unescape(s, size) ==
  LET Rest[i \in 1..(Len(s) + 1)] ==
        IF i > Len(s) THEN <<>>
        ELSE <<DecodedAt(s, i)>> \o Rest[i + Step(s, i)]
      whole == Rest[1]
  IN  SubSeq(whole, 1, IF Len(whole) < size THEN Len(whole) ELSE size - 1)

-----------------------------------------------------------------------------
(* JSON strings, by their grammar *)

\* Where parsing can resume after the character that starts at i; 0 if none.
AfterChar(s, i) ==
  CASE s[i] \in {Quote} \cup Controls -> 0
    [] s[i] \notin {Quote, Backslash} \cup Controls -> i + 1
    [] s[i] = Backslash /\ i < Len(s) /\ s[i + 1] \in DOMAIN Short -> i + 2
    [] OTHER -> 0

\* The characters a JSON reader finds in s, or failure.
Unreadable == <<"unreadable">>
Meaning(s) ==
  LET Rest[i \in 1..(Len(s) + 1)] ==
        IF i > Len(s) THEN <<>>
        ELSE LET j == AfterChar(s, i)
             IN  IF j = 0 THEN Unreadable
                 ELSE IF Rest[j] = Unreadable THEN Unreadable
                 ELSE <<IF j = i + 2 THEN Short[s[i + 1]] ELSE s[i]>> \o Rest[j]
  IN  Rest[1]

=============================================================================
