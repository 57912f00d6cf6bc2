---------------------------- MODULE PointStream ----------------------------
(***************************************************************************)
(* The point cache and the console: point_cache_thread merges what is      *)
(* published and, while streaming is on, prints it; the shell thread runs  *)
(* `siot dump` and `siot stream` (lib/point-cache.c).  A host reads the    *)
(* console and keeps the last line it saw of every identity.               *)
(***************************************************************************)
EXTENDS Points, Sequences

CONSTANTS
  Size,         \* slots of the cache
  Traffic,      \* what may be published, but for its content
  MaxPublishes  \* bound: points published

ASSUME StreamAssumption ==
  /\ Size \in Nat \ {0}
  /\ MaxPublishes \in Nat
  /\ Values = 0..MaxPublishes
  /\ Traffic \subseteq Point

VARIABLES
  cache,      \* the array, guarded by cache_lock
  queue,      \* messages of point_cache_sub
  thread,     \* point_cache_thread: where it is, and its point p
  shell,      \* the shell thread: the slot a dump has reached, or 0
  streaming,
  publishes,  \* points published so far; the content of the last
  view,       \* the host: per identity, the content last printed, 0 for none
  synced      \* the host has turned streaming on and then finished a dump

vars == <<cache, queue, thread, shell, streaming, publishes, view, synced>>

Slots == 1..Size
Ids == Types \X (Keys \cup {BlankKey})

Init ==
  /\ cache = [i \in Slots |-> Unused]
  /\ queue = <<>>
  /\ thread = [pc |-> "wait", p |-> Unused]
  /\ shell = 0
  /\ streaming = FALSE
  /\ publishes = 0
  /\ view = [i \in Ids |-> 0]
  /\ synced = FALSE

\* point_emit: one `pt` line, unless the data type is unknown.
Emitted(p) ==
  view' = [i \in Ids |-> IF Known(p) /\ Named(p) /\ i = Id(p) THEN p.val ELSE view[i]]

\* cache_lock is held across steps only by a dump.
Locked == shell # 0

-----------------------------------------------------------------------------
Publish(p) ==
  /\ publishes < MaxPublishes
  /\ publishes' = publishes + 1
  /\ queue' = Append(queue, [p EXCEPT !.val = publishes + 1])
  /\ UNCHANGED <<cache, thread, shell, streaming, view, synced>>

(* point_cache_thread *)

\* Mutant: the cache is kept only while streaming.
CacheMergeStreaming ==
  /\ thread.pc = "wait" /\ queue # <<>>
  /\ ~Locked /\ streaming
  /\ cache' = Merged(cache, Head(queue))
  /\ thread' = [pc |-> "merged", p |-> Normalised(Head(queue))]
  /\ queue' = Tail(queue)
  /\ UNCHANGED <<shell, streaming, publishes, view, synced>>

\* A refused point is logged, and streamed all the same.  Merging has
\* normalised the thread's point.
CacheMerge ==
  /\ thread.pc = "wait" /\ queue # <<>>
  /\ ~Locked
  /\ cache' = Merged(cache, Head(queue))
  /\ thread' = [pc |-> "merged", p |-> Normalised(Head(queue))]
  /\ queue' = Tail(queue)
  /\ UNCHANGED <<shell, streaming, publishes, view, synced>>

CheckStreaming ==
  /\ thread.pc = "merged"
  /\ thread' = [thread EXCEPT !.pc = IF streaming THEN "emit" ELSE "wait"]
  /\ UNCHANGED <<cache, queue, shell, streaming, publishes, view, synced>>

StreamEmit ==
  /\ thread.pc = "emit"
  /\ Emitted(thread.p)
  /\ thread' = [thread EXCEPT !.pc = "wait"]
  /\ UNCHANGED <<cache, queue, shell, streaming, publishes, synced>>

(* The shell thread, on behalf of the host *)

StreamOn ==
  /\ shell = 0
  /\ streaming' = TRUE
  /\ UNCHANGED <<cache, queue, thread, shell, publishes, view, synced>>

StreamOff ==
  /\ shell = 0
  /\ streaming' = FALSE
  /\ synced' = FALSE
  /\ UNCHANGED <<cache, queue, thread, shell, publishes, view>>

\* point_cache_foreach takes the lock and holds it for every line.
DumpStart ==
  /\ shell = 0
  /\ shell' = 1
  /\ UNCHANGED <<cache, queue, thread, streaming, publishes, view, synced>>

DumpLine ==
  /\ shell \in Slots
  /\ Emitted(cache[shell])
  /\ shell' = shell + 1
  /\ UNCHANGED <<cache, queue, thread, streaming, publishes, synced>>

\* Mutant: the dump stops before the last slot.
DumpEndEarly ==
  /\ shell >= Size
  /\ shell' = 0
  /\ synced' = streaming
  /\ UNCHANGED <<cache, queue, thread, streaming, publishes, view>>

DumpEnd ==
  /\ shell > Size
  /\ shell' = 0
  /\ synced' = streaming
  /\ UNCHANGED <<cache, queue, thread, streaming, publishes, view>>

\* The host starts afresh and does not know what the board has.
HostRestarts ==
  /\ view' = [i \in Ids |-> 0]
  /\ synced' = FALSE
  /\ shell = 0
  /\ UNCHANGED <<cache, queue, thread, shell, streaming, publishes>>

Shell == DumpLine \/ DumpEnd

Next ==
  \/ \E p \in Traffic : Publish(p)
  \/ CacheMerge \/ CheckStreaming \/ StreamEmit
  \/ StreamOn \/ StreamOff \/ DumpStart \/ Shell
  \/ HostRestarts

\* The threads run.  k_mutex_unlock hands cache_lock to the thread waiting for
\* it, so a host that dumps again and again does not keep the cache out: strong
\* fairness of CacheMerge.
Fairness ==
  /\ SF_vars(CacheMerge)
  /\ WF_vars(CheckStreaming \/ StreamEmit)
  /\ WF_vars(Shell)

Spec == Init /\ [][Next]_vars /\ Fairness

-----------------------------------------------------------------------------
TypeOK ==
  /\ cache \in [Slots -> Point]
  /\ queue \in Seq(Point)
  /\ thread \in [pc : {"wait", "merged", "emit"}, p : Point]
  /\ shell \in 0..(Size + 1)
  /\ streaming \in BOOLEAN
  /\ publishes \in 0..MaxPublishes
  /\ view \in [Ids -> Values]
  /\ synced \in BOOLEAN

\* The cache thread has nothing to print.
Caught == thread.pc = "wait"

\* A host that turned streaming on and then dumped misses nothing: whenever the
\* cache thread is between points, it has every value the cache shows.  A merge
\* that a dump came too early for is always streamed.
HostTracksCache ==
  synced /\ Caught => \A q \in Visible(cache) : view[Id(q)] = q.val

\* The console never shows an old value of an identity after a newer one, even
\* though dumped and streamed lines interleave: a point is streamed after it is
\* merged, and the next is merged after that.
HostNeverGoesBack ==
  [][\A i \in Ids : view'[i] # 0 => view'[i] >= view[i]]_vars

\* Dumping, however often, does not keep published points from the cache.
AllMerged == queue # <<>> ~> queue = <<>>
=============================================================================
