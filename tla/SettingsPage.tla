---------------------------- MODULE SettingsPage ----------------------------
(***************************************************************************)
(* The settings page (apps/siot-net/frontend/src/Pages/Home_.elm) in front *)
(* of the web server: it polls the points every 3 s, keeps the user's      *)
(* edits apart from them, and posts the edits when they are saved.  The    *)
(* browser, the network and the user are external.  The view is taken to   *)
(* be drawn again before the user's next event.                            *)
(***************************************************************************)
EXTENDS WebApi

CONSTANT MaxLosses  \* bound: requests that the network loses

ASSUME PageAssumption == MaxLosses \in Nat

VARIABLES
  points,    \* Api.Data: loading, ok with values, or failed
  pointMods, \* edits not yet saved, as the page's list
  stamp,     \* values made up so far
  losses,    \* bounded counter
  saved,     \* history: per setting, the value last saved; 0 for none
  unsure     \* history: settings whose last save failed or met another writer

pageVars == <<points, pointMods, stamp, losses, saved, unsure>>
vars == <<apiVars, pageVars>>

Init ==
  /\ ApiInit
  /\ points = [st |-> "loading", vals |-> [s \in Settings |-> 0]]
  /\ pointMods = <<>>
  /\ stamp = 0 /\ losses = 0
  /\ saved = [s \in Settings |-> 0]
  /\ unsure = {}

Loaded(vals) == [st |-> "ok", vals |-> vals]
Failed == [points EXCEPT !.st = "failed"]

\* Mutant: an edit is put in front of the earlier edits of the setting.
UpdatedInFront(mods, s, v) == <<<<s, v>>>> \o mods

\* updatePoint: in its place in the list, or in front.
Updated(mods, s, v) ==
  IF s \in Touched(mods)
    THEN [k \in DOMAIN mods |-> IF mods[k][1] = s THEN <<s, v>> ELSE mods[k]]
    ELSE <<<<s, v>>>> \o mods

\* Settings in a save that has reached neither the board nor an error.
Pending == UNION {Touched(conn[c].body) : c \in {d \in Conns : Unanswered(d)}}

\* Of these, the ones whose last save this was.
LastSaved(body) == {s \in Settings : <<s, saved[s]>> \in ToSet(body)}

-----------------------------------------------------------------------------
\* Tick: fetch.  It is also sent when the page opens.
Tick(c) ==
  /\ conn[c].kind = "none"
  /\ conn' = [conn EXCEPT ![c] = Request("GET", <<>>)]
  /\ UNCHANGED <<holder, payload, web, echo, dropped, pageVars>>

\* Mutant: the points of a good response do not replace a failure.
ResponseKeepsFailure(c) ==
  /\ conn[c].reply # "none"
  /\ conn' = [conn EXCEPT ![c] = NoRequest]
  /\ points' = CASE ~conn[c].waiting \/ points.st = "failed" -> points
                 [] conn[c].waiting /\ conn[c].reply = "error" -> Failed
                 [] OTHER -> IF conn[c].kind = "GET" THEN Loaded(conn[c].vals) ELSE points
  /\ unsure' = unsure \cup (IF conn[c].reply = "error" THEN LastSaved(conn[c].body) ELSE {})
  /\ UNCHANGED <<holder, payload, web, echo, dropped, pointMods, stamp, losses, saved>>

\* ApiRespPointList and ApiRespPointPost.
Response(c) ==
  /\ conn[c].reply # "none"
  /\ conn' = [conn EXCEPT ![c] = NoRequest]
  /\ points' = CASE ~conn[c].waiting -> points
                 [] conn[c].waiting /\ conn[c].reply = "error" -> Failed
                 [] conn[c].waiting /\ conn[c].reply = "ok" ->
                      IF conn[c].kind = "GET" THEN Loaded(conn[c].vals) ELSE points
  /\ unsure' = unsure \cup (IF conn[c].reply = "error" THEN LastSaved(conn[c].body) ELSE {})
  /\ UNCHANGED <<holder, payload, web, echo, dropped, pointMods, stamp, losses, saved>>

\* The page hears of a failure; the server may or may not have the request.
Lost(c) ==
  /\ conn[c].waiting
  /\ losses < MaxLosses
  /\ losses' = losses + 1
  /\ conn' = [conn EXCEPT ![c].waiting = FALSE]
  /\ points' = Failed
  /\ unsure' = unsure \cup LastSaved(conn[c].body)
  /\ UNCHANGED <<holder, payload, web, echo, dropped, pointMods, stamp, saved>>

\* EditPoint, from a field that is on the screen.
Edit(s) ==
  /\ points.st = "ok"
  /\ stamp < MaxStamps
  /\ stamp' = stamp + 1
  /\ pointMods' = Updated(pointMods, s, stamp')
  /\ UNCHANGED <<apiVars, points, losses, saved, unsure>>

\* Mutant: the values on the screen are posted instead of the edits.
SavePostsScreen(c) ==
  /\ points.st = "ok"
  /\ conn[c].kind = "none"
  /\ conn' = [conn EXCEPT ![c] =
       Request("POST", SetToSeq({<<s, Changed(points.vals, pointMods)[s]>> : s \in Settings}))]
  /\ points' = Loaded(Changed(points.vals, pointMods))
  /\ pointMods' = <<>>
  /\ saved' = Changed(saved, pointMods)
  /\ unsure' = (unsure \ Touched(pointMods)) \cup (Pending \cap Touched(pointMods))
  /\ UNCHANGED <<holder, payload, web, echo, dropped, stamp, losses>>

\* ApiPostPoints, by the save button or by Enter, edits or none: the screen is
\* taken for what the board has, and the edits are sent and forgotten.
Save(c) ==
  /\ points.st = "ok"
  /\ conn[c].kind = "none"
  /\ conn' = [conn EXCEPT ![c] = Request("POST", pointMods)]
  /\ points' = Loaded(Changed(points.vals, pointMods))
  /\ pointMods' = <<>>
  /\ saved' = Changed(saved, pointMods)
  /\ unsure' = (unsure \ Touched(pointMods)) \cup (Pending \cap Touched(pointMods))
  /\ UNCHANGED <<holder, payload, web, echo, dropped, stamp, losses>>

\* DiscardEdits.
Discard ==
  /\ points.st = "ok"
  /\ pointMods # <<>>
  /\ pointMods' = <<>>
  /\ UNCHANGED <<apiVars, points, stamp, losses, saved, unsure>>

\* The host sets the same setting over the shell.
HostSets(s) ==
  /\ stamp < MaxStamps
  /\ stamp' = stamp + 1
  /\ PublishElsewhere(s, stamp')
  /\ unsure' = unsure \cup {s}
  /\ UNCHANGED <<points, pointMods, losses, saved>>

Next ==
  \/ \E c \in Conns : \/ Tick(c) \/ Response(c) \/ Lost(c) \/ Save(c)
                      \/ Serve(c) /\ UNCHANGED pageVars
  \/ \E s \in Settings : Edit(s) \/ HostSets(s)
  \/ Discard
  \/ WebThread /\ UNCHANGED pageVars

\* The browser keeps polling and queues what it cannot send yet; the server and
\* its threads run.  Nothing is asked of the user, the host or the network.
Fairness ==
  /\ SF_vars(\E c \in Conns : Tick(c))
  /\ \A c \in Conns :
       /\ WF_vars(Serve(c) /\ UNCHANGED pageVars)
       /\ WF_vars(Response(c))
  /\ WF_vars(WebThread /\ UNCHANGED pageVars)

Spec == Init /\ [][Next]_vars /\ Fairness

-----------------------------------------------------------------------------
PageTypeOK ==
  /\ points \in [st : {"loading", "ok", "failed"}, vals : Values]
  /\ pointMods \in Seq(Change)
  /\ \A j, k \in DOMAIN pointMods : pointMods[j][1] = pointMods[k][1] => j = k
  /\ stamp \in Stamps
  /\ losses \in 0..MaxLosses
  /\ saved \in Values
  /\ unsure \subseteq Settings

TypeOK == ApiTypeOK /\ PageTypeOK

\* A save that the page was not told had failed stands: unless another save of
\* the setting was under way, someone else set it since, or the board answered
\* "ok" for what it had not decoded or not published ahead of an older value, what
\* web_points holds in the end is the value last saved here, through split bodies,
\* refused and aborted requests, publications that time out and late echoes.
SavesStand ==
  \A s \in Settings \ (unsure \cup dropped) :
    /\ saved[s] # 0
    /\ \A c \in Conns : s \in Touched(conn[c].body) => conn[c].reply = "ok"
    => Newest[s] = saved[s]

\* Every request is answered or dropped.
RequestsEnd == \A c \in Conns : conn[c].kind # "none" ~> conn[c].kind = "none"

\* Once nobody changes anything the page shows what the board has, whatever was
\* lost, refused or answered out of order before.
PageConverges == <>[](points.st = "ok" /\ points.vals = Newest)
=============================================================================
