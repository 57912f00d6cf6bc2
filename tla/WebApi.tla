------------------------------- MODULE WebApi -------------------------------
(***************************************************************************)
(* The HTTP side of siot-net's web server (v1_handler and web_thread,      *)
(* apps/siot-net/src/web.c): requests for /v1/points on several            *)
(* connections share one payload buffer, its cursor, and web_points.       *)
(*                                                                         *)
(* Zephyr's HTTP server is external.  One thread serves all connections    *)
(* and calls the handler once per piece of a body; while a connection is   *)
(* between pieces the resource is held by it, and requests of the others   *)
(* are refused with 409.                                                   *)
(***************************************************************************)
EXTENDS Integers, Sequences, SequencesExt, FiniteSets

CONSTANTS
  Settings,   \* the settings the page shows, each a type and a key
  Conns,      \* connections to the server
  MaxStamps   \* bound: values made up by the user and the host together

ASSUME WebApiAssumption ==
  /\ Settings # {}
  /\ "none" \notin Conns
  /\ MaxStamps \in Nat \ {0}

VARIABLES
  conn,    \* per connection, the request on it
  holder,  \* the connection whose body is being received
  payload, \* v1_payload_buf up to cursor
  web,     \* web_points: the value of each setting
  echo,    \* publications that web_thread has yet to merge
  dropped  \* history: settings whose last POST was answered "ok" and did not take

apiVars == <<conn, holder, payload, web, echo, dropped>>

Stamps == 0..MaxStamps
Change == Settings \X Stamps
Values == [Settings -> Stamps]

\* A request: what is posted, how much of it has arrived, the reply, what a GET
\* returns, and whether the page is still waiting for it.
NoRequest == [kind |-> "none", body |-> <<>>, sent |-> 0, reply |-> "none",
              vals |-> [s \in Settings |-> 0], waiting |-> FALSE]
Request(kind, body) ==
  [NoRequest EXCEPT !.kind = kind, !.body = body, !.waiting = TRUE]

ApiInit ==
  /\ conn = [c \in Conns |-> NoRequest]
  /\ holder = "none"
  /\ payload = <<>>
  /\ web = [s \in Settings |-> 0]
  /\ echo = <<>>
  /\ dropped = {}

Unanswered(c) == conn[c].kind # "none" /\ conn[c].reply = "none"
Replied(c, reply) == [conn EXCEPT ![c].reply = reply]

Touched(body) == {ch[1] : ch \in ToSet(body)}

\* points_merge of a list of changes, in order: the last of a setting stands.  A
\* setting has a known data type, and web_points, with 40 slots, one for each: no
\* merge is refused and no slot is spoiled.
ChangesOf(changes, s) == {k \in DOMAIN changes : changes[k][1] = s}
Changed(vals, changes) ==
  [s \in Settings |-> IF ChangesOf(changes, s) = {} THEN vals[s]
                     ELSE changes[Max(ChangesOf(changes, s))][2]]

-----------------------------------------------------------------------------
(* The HTTP server thread *)

\* Another connection holds the resource: 409 Conflict, and no handler call.
Conflict(c) ==
  /\ Unanswered(c)
  /\ holder \notin {"none", c}
  /\ conn' = Replied(c, "error")
  /\ UNCHANGED <<holder, payload, web, echo, dropped>>

\* GET: web_points is encoded under its lock.
ServeGet(c) ==
  /\ Unanswered(c) /\ conn[c].kind = "GET"
  /\ holder = "none"
  /\ conn' = [conn EXCEPT ![c].reply = "ok", ![c].vals = web]
  /\ UNCHANGED <<holder, payload, web, echo, dropped>>

\* Bytes of a body that may arrive next: all the rest, or fewer.
Pieces(c) ==
  {n \in 0..(Len(conn[c].body) - conn[c].sent) :
     n = 0 => conn[c].body = <<>>}
Piece(c, n) == SubSeq(conn[c].body, conn[c].sent + 1, conn[c].sent + n)
Final(c, n) == conn[c].sent + n = Len(conn[c].body)

Posting(c) == Unanswered(c) /\ conn[c].kind = "POST" /\ holder \in {"none", c}

\* The piece does not fit v1_payload_buf: -ENOMEM, and the server closes the
\* connection.  The page does not limit what is typed, so any body may be too long.
Overflow(c) ==
  /\ Posting(c)
  /\ conn[c].body # <<>>
  /\ payload' = <<>>
  /\ holder' = "none"
  /\ conn' = Replied(c, "error")
  /\ UNCHANGED <<web, echo, dropped>>

\* A piece that is not the last is kept.
KeepPiece(c) ==
  /\ Posting(c)
  /\ \E n \in Pieces(c) :
       /\ ~Final(c, n)
       /\ payload' = payload \o Piece(c, n)
       /\ conn' = [conn EXCEPT ![c].sent = @ + n]
  /\ holder' = c
  /\ UNCHANGED <<web, echo, dropped>>

\* Of the points of a body, those whose publication does not time out.
Heard(body) ==
  UNION {{[k \in 1..n |-> body[at[k]]] :
            at \in {f \in [1..n -> DOMAIN body] : \A j, k \in 1..n : j < k => f[j] < f[k]}} :
         n \in 0..Len(body)}

\* The points are decoded, and each is merged and published under the lock.  A
\* point whose publication times out stays merged until the echo of an older one
\* overwrites it.
MergeAndPublish(body) ==
  \E heard \in Heard(body) :
    /\ web' = Changed(web, body)
    /\ echo' = echo \o heard
    /\ dropped' = (dropped \ Touched(body))
                    \cup ((Touched(body) \ Touched(heard)) \cap Touched(echo))

\* They cannot be decoded, which only the log says.
RefuseBody(body) ==
  /\ dropped' = dropped \cup Touched(body)
  /\ UNCHANGED <<web, echo>>

\* Mutant: no reply is set up.
FinishPostNoReply(c) ==
  /\ Posting(c)
  /\ \E n \in Pieces(c) :
       /\ Final(c, n)
       /\ MergeAndPublish(payload \o Piece(c, n)) \/ RefuseBody(payload \o Piece(c, n))
  /\ payload' = <<>>
  /\ UNCHANGED <<holder, conn>>

\* The last piece: whatever becomes of the body, and of its publications, the reply
\* says that all is well.
FinishPost(c) ==
  /\ Posting(c)
  /\ \E n \in Pieces(c) :
       /\ Final(c, n)
       /\ MergeAndPublish(payload \o Piece(c, n)) \/ RefuseBody(payload \o Piece(c, n))
  /\ payload' = <<>>
  /\ holder' = "none"
  /\ conn' = Replied(c, "ok")

\* Mutant: an aborted transaction leaves the cursor where it was.
AbortKeepsCursor(c) ==
  /\ Unanswered(c) /\ ~conn[c].waiting
  /\ holder' = IF holder = c THEN "none" ELSE holder
  /\ conn' = [conn EXCEPT ![c] = NoRequest]
  /\ UNCHANGED <<payload, web, echo, dropped>>

\* The server finds the connection closed; its holder's transaction is aborted.
Abort(c) ==
  /\ Unanswered(c) /\ ~conn[c].waiting
  /\ payload' = IF holder = c THEN <<>> ELSE payload
  /\ holder' = IF holder = c THEN "none" ELSE holder
  /\ conn' = [conn EXCEPT ![c] = NoRequest]
  /\ UNCHANGED <<web, echo, dropped>>

Serve(c) ==
  \/ Conflict(c) \/ ServeGet(c)
  \/ Overflow(c) \/ KeepPiece(c) \/ FinishPost(c) \/ Abort(c)

-----------------------------------------------------------------------------
\* web_thread merges its copy of each publication, the server's own included.
WebThread ==
  /\ echo # <<>>
  /\ web' = Changed(web, <<Head(echo)>>)
  /\ echo' = Tail(echo)
  /\ UNCHANGED <<conn, holder, payload, dropped>>

\* Someone else publishes a setting: the shell, or nvs_init at boot.
PublishElsewhere(s, v) ==
  /\ echo' = Append(echo, <<s, v>>)
  /\ UNCHANGED <<conn, holder, payload, web, dropped>>

-----------------------------------------------------------------------------
ApiTypeOK ==
  /\ conn \in [Conns -> [kind : {"none", "GET", "POST"}, body : Seq(Change), sent : Nat,
                        reply : {"none", "ok", "error"}, vals : Values, waiting : BOOLEAN]]
  /\ \A c \in Conns : conn[c].sent <= Len(conn[c].body)
  /\ holder \in Conns \cup {"none"}
  /\ payload \in Seq(Change)
  /\ web \in Values
  /\ echo \in Seq(Change)
  /\ dropped \subseteq Settings

\* The payload buffer and its cursor are static and shared by all connections:
\* they hold what has arrived of one request's body and nothing left over from an
\* answered, refused or aborted one.
OwnBytesOnly ==
  payload = IF holder = "none" THEN <<>>
            ELSE SubSeq(conn[holder].body, 1, conn[holder].sent)

\* What web_points will hold when the echoes have been merged.
Newest == Changed(web, echo)
=============================================================================
