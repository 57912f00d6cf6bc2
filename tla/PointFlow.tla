----------------------------- MODULE PointFlow -----------------------------
(***************************************************************************)
(* The path of a point through siot-net: publishers put points on          *)
(* point_chan, and the web server's private cache and the point cache each *)
(* merge what reaches them, and the nvs_store thread saves settings.  The  *)
(* HTTP handler also merges a POSTed point into the web cache itself, and  *)
(* publishes it while still holding web_points_lock                        *)
(* (apps/siot-net/src/web.c, lib/point-cache.c, lib/nvs.c).  The system    *)
(* has booted: nvs_init is done and state_sub is attached.                 *)
(*                                                                         *)
(* zbus is external.  A publisher takes the channel, allocates a buffer    *)
(* from the pool that all message subscribers share, and hands each        *)
(* observer a copy in order of priority: web_sub, then point_cache_sub,    *)
(* then state_sub, which is added at run time.                             *)
(* Every wait of a publish ends after 500 ms; such a wait is taken to      *)
(* expire only where no thread can free what is waited for (Stuck).        *)
(***************************************************************************)
EXTENDS Points, Sequences, Functions

CONSTANTS
  Devices,   \* threads that publish one point at a time: metrics, shell, main
  PostMax,   \* points in a POST, at most (pts[5] in v1_handler); 0: no POSTs
  WebSize,   \* slots of web_points
  CacheSize, \* slots of the point cache
  Pool,      \* buffers in the message subscriber pool
  Ticking,   \* whether the ticker thread is part of the instance
  Settings,  \* types of nvs_pts, all under key "0"
  Traffic,   \* the points that are published, but for their content
  MaxOffers  \* bound: points offered by all publishers together

ASSUME FlowAssumption ==
  /\ MaxOffers \in Nat
  /\ Values = 0..MaxOffers
  /\ PostMax \in Nat
  /\ Settings \subseteq Types
  /\ Traffic \subseteq [type : Types \cup {NoType}, key : Keys \cup {BlankKey}, dt : DataTypes]
  /\ Ticking \in BOOLEAN
  /\ {WebSize, CacheSize, Pool} \subseteq Nat \ {0}
  /\ Devices \cap {"http", "none"} = {}

VARIABLES
  web,      \* web_points
  cache,    \* the point cache's array
  flash,    \* per setting, the record: a point, or Unused
  http,     \* the HTTP server thread: where it is, and what is left of a POST
  dev,      \* what each device thread is publishing
  bus,      \* point_chan: owner, message, observers still to be served
  queue,    \* each subscriber's message queue
  hand,     \* what web_thread dequeued and has not merged: a sequence
  offers,   \* points offered so far; the stamp of the next one
  newest,   \* history: per identity, the last point put on the channel
  missed,   \* history: the <<subscriber, identity>> whose last message was lost
  unsaved,  \* history: settings whose last write to the flash failed
  tick      \* the ticker thread's publish on its own channel

vars == <<web, cache, flash, http, dev, bus, queue, hand, offers, newest, missed, unsaved, tick>>

Subs == <<"web", "cache", "nvs">>
Subscribers == {"web", "cache", "nvs"}
Threads == Devices \cup {"http"}
Ids == (Types \cup {NoType}) \X Keys
FreeBus == [owner |-> "none", pt |-> Unused, left |-> <<>>]

\* A point f of the traffic with content n.  Metrics leave the key blank; a POST
\* may name any type, key and data type, none or an unknown one too.
Fresh(f, n) == [type |-> f.type, key |-> f.key, dt |-> f.dt, val |-> n]

\* zms_write with the length of the point's data: a JSON or untyped point has
\* length 0, and ZMS deletes the record.
Written(p) == IF p.dt \in {"JSN", "UNK"} THEN Unused ELSE p

InUse == Len(queue["web"]) + Len(queue["cache"]) + Len(queue["nvs"])
           + (IF bus.owner # "none" THEN 1 ELSE 0)
           + (IF tick = "publish" THEN 1 ELSE 0)

\* v1_handler holds web_points_lock from before the first merge of a POST until
\* after its last publish.
WebLocked == http.pc \in {"merge", "publish"}

\* Mutant: K_FOREVER.
PublishWaitsForever == FALSE

\* zbus_chan_pub is called with K_MSEC(500).
PublishWaitEnds == TRUE

\* No buffer is free, and none will be: the point cache and the store have drained
\* their queues, the ticker has returned its own, and web_thread waits for the lock.
Stuck ==
  /\ PublishWaitEnds
  /\ InUse >= Pool
  /\ queue["cache"] = <<>> /\ queue["nvs"] = <<>> /\ tick # "publish"
  /\ hand # <<>> /\ WebLocked

Publishing(t) ==
  IF t = "http" THEN http.pc = "publish" ELSE dev[t] # <<>>

Outgoing(t) == IF t = "http" THEN Head(http.todo) ELSE Head(dev[t])

Init ==
  /\ web = [i \in 1..WebSize |-> Unused]
  /\ cache = [i \in 1..CacheSize |-> Unused]
  /\ flash = [t \in Settings |-> Unused]
  /\ http = [pc |-> "idle", todo |-> <<>>]
  /\ dev = [d \in Devices |-> <<>>]
  /\ bus = FreeBus
  /\ queue = [s \in Subscribers |-> <<>>]
  /\ hand = <<>>
  /\ offers = 0
  /\ newest = [i \in Ids |-> Unused]
  /\ missed = {} /\ unsaved = {}
  /\ tick = "idle"

-----------------------------------------------------------------------------
(* Publishers *)

\* A metrics, shell or boot thread decides to publish.  The shell refuses a data
\* type it does not know.
Offer(d) ==
  /\ dev[d] = <<>>
  /\ offers < MaxOffers
  /\ \E f \in Traffic : Known(f) /\ dev' = [dev EXCEPT ![d] = <<Fresh(f, offers + 1)>>]
  /\ offers' = offers + 1
  /\ UNCHANGED <<flash, web, cache, http, bus, queue, hand, newest, missed, unsaved, tick>>

\* The final chunk of a POST: its points are decoded, whatever
\* point_js_to_point returned for each.
PostDecoded ==
  /\ http.pc = "idle"
  /\ \E n \in 1..PostMax : \E fs \in [1..n -> Traffic] :
       /\ offers + n <= MaxOffers
       /\ http' = [pc |-> "lock", todo |-> [i \in 1..n |-> Fresh(fs[i], offers + i)]]
       /\ offers' = offers + n
  /\ UNCHANGED <<flash, web, cache, dev, bus, queue, hand, newest, missed, unsaved, tick>>

\* The handler takes web_points_lock; web_thread holds it only for one merge.
PostLock ==
  /\ http.pc = "lock"
  /\ http' = [http EXCEPT !.pc = "merge"]
  /\ UNCHANGED <<flash, web, cache, dev, bus, queue, hand, offers, newest, missed, unsaved, tick>>

\* points_merge, which also normalises the point that will be published.
PostMerge ==
  /\ http.pc = "merge"
  /\ http.todo # <<>>
  /\ web' = Merged(web, Head(http.todo))
  /\ http' = [pc |-> "publish",
              todo |-> <<Normalised(Head(http.todo))>> \o Tail(http.todo)]
  /\ UNCHANGED <<flash, cache, dev, bus, queue, hand, offers, newest, missed, unsaved, tick>>

\* After the last point the lock is released and the response is ready.
PostRespond ==
  /\ http.pc = "merge"
  /\ http.todo = <<>>
  /\ http' = [http EXCEPT !.pc = "idle"]
  /\ UNCHANGED <<flash, web, cache, dev, bus, queue, hand, offers, newest, missed, unsaved, tick>>

\* The publish of thread t has returned; no caller looks at what it returned.
Returned(t) ==
  IF t = "http"
    THEN /\ http' = [pc |-> "merge", todo |-> Tail(http.todo)]
         /\ UNCHANGED dev
    ELSE /\ dev' = [dev EXCEPT ![t] = <<>>]
         /\ UNCHANGED http

-----------------------------------------------------------------------------
(* zbus_chan_pub *)

Take(t) ==
  /\ Publishing(t)
  /\ bus.owner = "none"
  /\ InUse < Pool
  /\ bus' = [owner |-> t, pt |-> Outgoing(t), left |-> Subs]
  /\ newest' = [newest EXCEPT ![Id(Normalised(Outgoing(t)))] = Outgoing(t)]
  /\ UNCHANGED <<flash, web, cache, http, dev, queue, hand, offers, missed, unsaved, tick>>

Deliver ==
  /\ bus.owner # "none"
  /\ bus.left # <<>>
  /\ InUse < Pool
  /\ queue' = [queue EXCEPT ![Head(bus.left)] = Append(@, bus.pt)]
  /\ bus' = [bus EXCEPT !.left = Tail(@)]
  /\ missed' = missed \ {<<Head(bus.left), Id(Normalised(bus.pt))>>}
  /\ UNCHANGED <<flash, web, cache, http, dev, hand, offers, newest, unsaved, tick>>

Finish ==
  /\ bus.owner # "none"
  /\ bus.left = <<>>
  /\ bus' = FreeBus
  /\ Returned(bus.owner)
  /\ UNCHANGED <<flash, web, cache, queue, hand, offers, newest, missed, unsaved, tick>>

\* No buffer for the copy of the next observer: it and those after it miss the
\* point, and the publish returns -ENOMEM.
CloneTimesOut ==
  /\ bus.owner # "none"
  /\ bus.left # <<>>
  /\ Stuck
  /\ missed' = missed \cup {<<bus.left[i], Id(Normalised(bus.pt))>> : i \in DOMAIN bus.left}
  /\ bus' = FreeBus
  /\ Returned(bus.owner)
  /\ UNCHANGED <<flash, web, cache, queue, hand, offers, newest, unsaved, tick>>

\* The channel stays taken: the publish returns -EAGAIN, nobody gets the point.
TakeTimesOut(t) ==
  /\ Publishing(t)
  /\ bus.owner \notin {t, "none"}
  /\ Stuck
  /\ missed' = missed \cup {<<s, Id(Normalised(Outgoing(t)))>> : s \in Subscribers}
  /\ Returned(t)
  /\ UNCHANGED <<flash, web, cache, bus, queue, hand, offers, newest, unsaved, tick>>

\* ticker_thread: every 500 ms a publish on ticker_chan, which has no message
\* subscriber and takes a buffer all the same.
TickDue ==
  /\ Ticking
  /\ tick = "idle"
  /\ tick' = "wait"
  /\ UNCHANGED <<flash, web, cache, http, dev, bus, queue, hand, offers, newest, missed, unsaved>>

TickPublish ==
  /\ tick = "wait"
  /\ InUse < Pool
  /\ tick' = "publish"
  /\ UNCHANGED <<flash, web, cache, http, dev, bus, queue, hand, offers, newest, missed, unsaved>>

TickDone ==
  /\ tick = "publish"
  /\ tick' = "idle"
  /\ UNCHANGED <<flash, web, cache, http, dev, bus, queue, hand, offers, newest, missed, unsaved>>

-----------------------------------------------------------------------------
(* Subscribers *)

\* web_thread: zbus_sub_wait_msg copies the message out and frees its buffer.
WebReceive ==
  /\ hand = <<>>
  /\ queue["web"] # <<>>
  /\ hand' = <<Head(queue["web"])>>
  /\ queue' = [queue EXCEPT !["web"] = Tail(@)]
  /\ UNCHANGED <<flash, web, cache, http, dev, bus, offers, newest, missed, unsaved, tick>>

\* Mutant: web_thread takes a point it already shows for an echo of a POST.
WebMergeNoEcho ==
  /\ hand # <<>>
  /\ ~WebLocked
  /\ web' = IF Matches(web, Normalised(Head(hand))) # {} THEN web
                                                        ELSE Merged(web, Head(hand))
  /\ hand' = <<>>
  /\ UNCHANGED <<flash, cache, http, dev, bus, queue, offers, newest, missed, unsaved, tick>>

WebMerge ==
  /\ hand # <<>>
  /\ ~WebLocked
  /\ web' = Merged(web, Head(hand))
  /\ hand' = <<>>
  /\ UNCHANGED <<flash, cache, http, dev, bus, queue, offers, newest, missed, unsaved, tick>>

\* point_cache_thread: receive and merge; nothing else writes its array.
CacheMerge ==
  /\ queue["cache"] # <<>>
  /\ cache' = Merged(cache, Head(queue["cache"]))
  /\ queue' = [queue EXCEPT !["cache"] = Tail(@)]
  /\ UNCHANGED <<flash, web, http, dev, bus, hand, offers, newest, missed, unsaved, tick>>

\* zms_write of a point to the record of setting t: a failure is logged, and leaves
\* the record.
Save(t, p, done) ==
  /\ flash' = IF done THEN [flash EXCEPT ![t] = Written(p)] ELSE flash
  /\ unsaved' = IF done THEN unsaved \ {t} ELSE unsaved \cup {t}

\* Mutant: the store takes the first point of a setting and no more.
NvsSaveOnce ==
  /\ queue["nvs"] # <<>>
  /\ queue' = [queue EXCEPT !["nvs"] = Tail(@)]
  /\ LET p == Head(queue["nvs"])
     IN  IF p.type \in Settings /\ p.key = ZeroKey /\ ~Named(flash[p.type])
           THEN \E done \in BOOLEAN : Save(p.type, p, done)
           ELSE UNCHANGED <<flash, unsaved>>
  /\ UNCHANGED <<web, cache, http, dev, bus, hand, offers, newest, missed, tick>>

\* nvs_store_thread: a point of a setting, under the very key the table has for it,
\* is written.
NvsSave ==
  /\ queue["nvs"] # <<>>
  /\ queue' = [queue EXCEPT !["nvs"] = Tail(@)]
  /\ LET p == Head(queue["nvs"])
     IN  IF p.type \in Settings /\ p.key = ZeroKey
           THEN \E done \in BOOLEAN : Save(p.type, p, done)
           ELSE UNCHANGED <<flash, unsaved>>
  /\ UNCHANGED <<web, cache, http, dev, bus, hand, offers, newest, missed, tick>>

-----------------------------------------------------------------------------
\* Everything offered has been published and merged: nothing need happen.
Settled ==
  /\ offers = MaxOffers
  /\ http.pc = "idle" /\ \A d \in Devices : dev[d] = <<>>
  /\ queue = [s \in Subscribers |-> <<>>] /\ hand = <<>>
  /\ UNCHANGED vars

Http == PostLock \/ PostMerge \/ PostRespond
Bus == Deliver \/ Finish \/ CloneTimesOut

Next ==
  \/ \E d \in Devices : Offer(d)
  \/ PostDecoded \/ Http \/ Bus
  \/ \E t \in Threads : Take(t) \/ TakeTimesOut(t)
  \/ WebReceive \/ WebMerge \/ CacheMerge \/ NvsSave
  \/ TickDue \/ TickPublish \/ TickDone
  \/ Settled

\* Every thread that can run eventually does, and the 500 ms do pass.  The waits
\* for the channel and for a buffer are strongly fair: Zephyr hands a released
\* semaphore and a freed buffer to the thread that has waited longest.
Fairness ==
  /\ WF_vars(Http)
  /\ SF_vars(Bus)
  /\ \A t \in Threads : SF_vars(Take(t) \/ TakeTimesOut(t))
  /\ WF_vars(WebReceive \/ WebMerge)
  /\ WF_vars(CacheMerge) /\ WF_vars(NvsSave)
  /\ SF_vars(TickPublish) /\ WF_vars(TickDone)

Spec == Init /\ [][Next]_vars /\ Fairness

-----------------------------------------------------------------------------
TypeOK ==
  /\ InUse <= Pool
  /\ web \in [1..WebSize -> Point] /\ cache \in [1..CacheSize -> Point]
  /\ \A q \in Range(web) \cup Range(cache) : Named(q) => q.key \in Keys
  /\ flash \in [Settings -> Point]
  /\ http \in [pc : {"idle", "lock", "merge", "publish"}, todo : Seq(Point)]
  /\ dev \in [Devices -> Seq(Point)]
  /\ bus \in [owner : Threads \cup {"none"}, pt : Point, left : Seq(Subscribers)]
  /\ queue \in [Subscribers -> Seq(Point)]
  /\ hand \in Seq(Point)
  /\ offers \in 0..MaxOffers
  /\ newest \in [Ids -> Point]
  /\ missed \subseteq Subscribers \X Ids /\ unsaved \subseteq Settings
  /\ tick \in {"idle", "wait", "publish"}

\* What an array shows under identity i: at most one point.
Shown(pts, i) == {q \in Visible(pts) : Id(q) = i}

\* Points of identity i that are still to be merged for subscriber s.
Coming(s, i) ==
  \/ \E k \in DOMAIN queue[s] : Id(Normalised(queue[s][k])) = i
  \/ s = "web" /\ hand # <<>> /\ Id(Normalised(hand[1])) = i
  \/ \E k \in DOMAIN bus.left : bus.left[k] = s /\ Id(Normalised(bus.pt)) = i

\* The handler has merged a point of identity i that is not yet on the channel.
MergedAhead(i) ==
  /\ http.pc = "publish" /\ bus.owner # "http"
  /\ Id(Head(http.todo)) = i

\* The array shows the last value put on the channel: none if that has an unknown
\* data type.  A slot is never freed, so one that is free now says that no merge
\* has been refused; web_points has 40, the cache CONFIG_SIOT_POINT_CACHE_SIZE.
InStep(pts, i) ==
  Free(pts) # {} => Shown(pts, i) = {q \in {Normalised(newest[i])} : Named(q) /\ Known(q)}

\* The flash holds what the last value of a setting leaves there, unless its write
\* failed.  A value published under a blank key is shown and not saved.
Saved(i) ==
  i \in (Settings \ unsaved) \X {ZeroKey} /\ Id(newest[i]) = i
    => flash[i[1]] = Written(newest[i])

\* A cache shows the last value put on the channel unless a message of that
\* identity is on its way, and the flash holds it if it is a setting: the handler's
\* early merge and the late echo of an older message never leave the web cache
\* wrong, the next publication of an identity repairs one that a timeout lost, and
\* the next write of a setting one that the flash refused.
MirrorsWhenDrained ==
  \A i \in Ids :
    /\ ~Coming("cache", i) /\ <<"cache", i>> \notin missed => InStep(cache, i)
    /\ ~Coming("web", i) /\ <<"web", i>> \notin missed /\ ~MergedAhead(i)
         => InStep(web, i)
    /\ ~Coming("nvs", i) /\ <<"nvs", i>> \notin missed => Saved(i)

\* lib/zbus.c:22-29: a thread can wait for a buffer, so no burst of traffic on
\* point_chan keeps the ticker from publishing.
TickServed == tick = "wait" ~> tick = "publish"

\* Every POST is answered, whatever the other publishers and the pool do.
PostAnswered == http.pc # "idle" ~> http.pc = "idle"

\* Once the traffic stops, both caches show, and the flash holds, for good the
\* last value of every identity whose last message reached them, if the write of it
\* succeeded: no point is left in a queue, in a hand or in a publish that never ends.
Converges ==
  <>[](\A i \in Ids :
         /\ <<"cache", i>> \notin missed => InStep(cache, i)
         /\ <<"web", i>> \notin missed => InStep(web, i)
         /\ <<"nvs", i>> \notin missed => Saved(i))
=============================================================================
