----------------------------- MODULE PointTrips -----------------------------
(***************************************************************************)
(* A point that leaves the board as text and comes back: to the web page   *)
(* in a JSON document and back in a POST, or to a host in a `pt` line of   *)
(* the console and back in a `p` command.  Every conversion on the way is  *)
(* the code's: point_to_point_js and point_js_to_point (lib/point.c),      *)
(* point_emit (lib/point-cache.c), handle_sendpoint (lib/point.c).         *)
(***************************************************************************)
EXTENDS ShellLine, Numerals, TimeConv

CONSTANTS
  DataSize,  \* bytes of a point's data
  TimeMin,   \* POINT_TIME_MIN
  Chars,     \* characters
  Texts,     \* strings a board may hold
  Numbers,   \* ints a board may hold
  Floats,    \* floats a board may hold
  Times,     \* times a board may hold
  Stamps     \* stamps a host may send

ASSUME TripsAssumption ==
  /\ DataSize \in Nat \ {0} /\ TimeMin \in Nat \ {0}
  /\ Numbers \subseteq Ints
  /\ Times \subseteq 0..(TimeWord - 1)
  /\ {Quote, Backslash, Space, Apostrophe, "slash", "n", "t", "r", "b", "f"} \cup Controls \subseteq Chars
  /\ {NotWritten[1], NotRead[1], Unreadable[1]} \cap Chars = {}
  /\ \A s \in Texts : s \in Seq(Chars) /\ Len(s) <= DataSize
  /\ Stamps \subseteq [date : Nat \X Nat \X Nat, clock : Nat \X Nat \X Nat,
                       fraction : Seq(0..9), zone : {"Z", "Zmore", "offset"}]

\* The floats are printed in digits, and what is read from the text is one of them.
ASSUME FloatsAssumption ==
  \A x \in Floats :
    /\ Ftoa(x) \in Seq({DigitChar(d) : d \in 0..9} \cup {"-", "."}) \ {<<>>}
    /\ Atof(Ftoa(x)) \subseteq Floats

VARIABLES
  point,    \* the point on the board
  text,     \* what was last sent or written of it
  at,       \* where the text is: "board" when it has been taken back
  outcome,  \* of the last conversion
  ways,     \* the ways it has gone
  original  \* the point at the start, as a host or a user meant it

vars == <<point, text, at, outcome, ways, original>>

DataTypes == {"FLT", "INT", "STR", "JSN"}

\* The buffer of one escaped value: POINT_JSON_DATA_BUF_SIZE, and data_q.
JsonBuffer == 2 * DataSize
QuoteBuffer == 2 * (DataSize + 1) + 3

NoText == [data |-> <<>>, stamp |-> NoStamp]

-----------------------------------------------------------------------------
(* lib/point.c *)

\* point_data_to_string: the texts that may stand for the value.
Rendered(p) ==
  CASE p.dt = "FLT" -> {Ftoa(p.data)}
    [] p.dt = "INT" -> Itoa(p.data)
    [] OTHER -> {p.data}

\* point_to_point_js: strings are escaped, numbers are not.
JsonTexts(p) ==
  IF p.dt \in {"STR", "JSN"} THEN {Escape(p.data, JsonBuffer)} ELSE Rendered(p)

\* point_js_to_point, for the data types a point that left the board can have: the
\* values that may be read.
ValuesOf(dt, s) ==
  CASE dt = "FLT" -> Atof(s)
    [] dt = "INT" -> {Atoi(s)}
    [] OTHER -> {Unescape(s, DataSize)}

-----------------------------------------------------------------------------
\* A stamp names an instant: its date and time of day exist, and a word holds it.
Exists(s) ==
  /\ s.zone = "Z"
  /\ s.date[2] \in 1..12 /\ s.date[3] \in 1..DaysIn(s.date[1])[s.date[2]]
  /\ s.clock[1] < HoursPerDay /\ s.clock[2] < MinsPerHour /\ s.clock[3] < SecsPerMin
  /\ SecsOf(s.date, s.clock) \in 0..((TimeWord - 1) \div TicksPerSec - 1)

\* What the sender of s means; 0 if it is garbled.
Meant(s) == IF Exists(s) THEN SecsOf(s.date, s.clock) * TicksPerSec + Ticks(s.fraction) ELSE 0

\* A point of the board.
FromBoard(dt, data, time) ==
  /\ point = [dt |-> dt, data |-> data, time |-> time]
  /\ text = NoText
  /\ at = "board"
  /\ original = point

\* A point of the host, which the board does not have yet.
FromHost(stamp) ==
  /\ point = [dt |-> "INT", data |-> 0, time |-> 0]
  /\ text = [data |-> <<"0">>, stamp |-> stamp]
  /\ at = "console"
  /\ original = [point EXCEPT !.time = Meant(stamp)]

Init ==
  /\ \/ \E s \in Texts, dt \in {"STR", "JSN"} : FromBoard(dt, s, 0)
     \/ \E n \in Numbers : FromBoard("INT", n, 0)
     \/ \E x \in Floats : FromBoard("FLT", x, 0)
     \/ \E t \in Times : FromBoard("INT", 0, t)
     \/ \E s \in Stamps : FromHost(s)
  /\ outcome = "ok"
  /\ ways = {}

\* GET /v1/points: the document has no times.
Get ==
  /\ at = "board"
  /\ \E s \in JsonTexts(point) : text' = [data |-> s, stamp |-> NoStamp]
  /\ at' = "page"
  /\ outcome' = "ok"
  /\ ways' = ways \cup {"page"}
  /\ UNCHANGED <<point, original>>

\* The page posts the text back as it got it.
Post ==
  /\ at = "page"
  /\ \E v \in ValuesOf(point.dt, text.data) : point' = [point EXCEPT !.data = v, !.time = 0]
  /\ at' = "board"
  /\ UNCHANGED <<text, outcome, ways, original>>

\* A time from before POINT_TIME_MIN is taken for an uninitialised struct.
EmittedStamp(p) == IF p.time >= TimeMin THEN Stamp(p.time) ELSE NoStamp

\* point_emit, and a value that does not fit its buffer.
Emit ==
  /\ at = "board"
  /\ \E raw \in Rendered(point) :
       LET quoted == QuoteField(raw, QuoteBuffer)
       IN  IF quoted = NotWritten
             THEN outcome' = "dropped" /\ UNCHANGED <<text, at>>
             ELSE /\ text' = [data |-> quoted, stamp |-> EmittedStamp(point)]
                  /\ at' = "console"
                  /\ outcome' = "ok"
  /\ ways' = ways \cup {"console"}
  /\ UNCHANGED <<point, original>>

\* handle_sendpoint: the line comes back as a `p` command.
Replay ==
  /\ at = "console"
  /\ Argument(text.data) # NotRead
  /\ text.stamp # NoStamp => TimeOf(text.stamp) # 0
  /\ \E v \in ValuesOf(point.dt, Argument(text.data)) :
       point' = [point EXCEPT !.data = v,
                              !.time = IF text.stamp = NoStamp THEN 0 ELSE TimeOf(text.stamp)]
  /\ at' = "board"
  /\ outcome' = "ok"
  /\ UNCHANGED <<text, ways, original>>

\* An argument the shell does not take, or a time that does not parse.
Refuse ==
  /\ at = "console"
  /\ \/ Argument(text.data) = NotRead
     \/ text.stamp # NoStamp /\ TimeOf(text.stamp) = 0
  /\ at' = "board"
  /\ outcome' = "refused"
  /\ UNCHANGED <<point, text, ways, original>>

Next == Get \/ Post \/ Emit \/ Replay \/ Refuse

Spec == Init /\ [][Next]_vars

-----------------------------------------------------------------------------
IsText(p) == p.dt \in {"STR", "JSN"}
Fits(p) == Len(p.data) < DataSize
Has(p, c) == c \in ToSet(p.data)

TypeOK ==
  /\ point.dt = original.dt
  /\ point.time \in 0..(TimeWord - 1)
  /\ CASE point.dt = "INT" -> point.data \in Ints
       [] point.dt = "FLT" -> point.data \in Floats
       [] OTHER -> Len(point.data) <= DataSize
  /\ at = "page" => Len(text.data) < JsonBuffer
  /\ at = "console" => Len(text.data) < QuoteBuffer
  /\ at \in {"board", "page", "console"}
  /\ outcome \in {"ok", "dropped", "refused"}
  /\ ways \subseteq {"page", "console"}

\* tests/point.c:419, "the escaping produces parseable JSON": what the board
\* sends reads back, in any JSON reader, as the value or, of a field without a
\* terminator, as a first part of it after which the next character would have left
\* no room for the terminator.  (Not so with control characters, which go out raw
\* and which JSON forbids in a string.)
Parseable ==
  at = "page" /\ IsText(point) /\ ToSet(point.data) \cap Controls = {} =>
    LET read == Meaning(text.data)
    IN  /\ read # Unreadable
        /\ IsPrefix(read, point.data)
        /\ \/ read = point.data
           \/ Len(text.data) + Len(EscapedChar(point.data[Len(read) + 1])) >= JsonBuffer

\* lib/point.c:302-304, "a value has to be unescaped on the way in or a point
\* that makes a round trip through JSON grows a backslash on each pass": a value
\* that fits its field comes back from the page as it was, however often it goes.
RoundTrip ==
  at = "board" /\ IsText(point) /\ Fits(original) /\ ways \subseteq {"page"}
    => point.data = original.data

\* lib/point-cache.c:84-86, "a report can be replayed as a command by changing
\* the verb": a string without a backslash survives the console and the page in
\* any order and number, spaces, quotes and line feeds included, and none is too
\* long for the console's buffers.  An apostrophe survives the console only in a
\* value that is quoted for another reason.
TextKept ==
  at = "board" /\ IsText(point) /\ ~Has(original, Backslash)
    => /\ outcome # "dropped"
       /\ Fits(original) /\ ("console" \in ways /\ Has(original, Apostrophe) => NeedsQuote(original.data))
            => outcome = "ok" /\ point.data = original.data

\* siot-string.c and its callers: an int comes back as it was, but for the
\* smallest, whatever the sign and however many trips.
IntsKept ==
  at = "board" /\ point.dt = "INT" /\ original.data # -Half => point.data = original.data

\* A float that is several times finer than the decimals that are printed (with 24
\* bits and four decimals, one below 256) is never off by one in the last of them,
\* however often it is printed and read: the errors of the two conversions do not
\* add up.  (Coarser floats may move further: 600000.4375 comes back as 600000.375.)
Fine(x) == 5 * Ulp[Magnitude(x)] * 10^Precision <= One
FloatsKept ==
  at = "board" /\ point.dt = "FLT" /\ Fine(original.data) =>
    10^Precision * Magnitude(point.data - original.data) < One

\* lib/point.c:641-646, the round trip of a time "is what lets the host recognize
\* its own writes coming back": a time never turns into another; on the console
\* it stays for good, and a stamp that names an instant after POINT_TIME_MIN is
\* taken as that instant.
TimeKept ==
  at = "board" =>
    /\ point.time \in {0, original.time}
    /\ original.time >= TimeMin /\ ways \subseteq {"console"}
         => outcome = "ok" /\ point.time = original.time

\* lib/timeconv.c:132-135, "Reject out of range fields rather than letting timegm
\* normalize them", which turns "a garbled timestamp into a plausible one": what
\* names no instant is not taken for one.
GarbledRejected == original.time = 0 => point.time = 0
=============================================================================
