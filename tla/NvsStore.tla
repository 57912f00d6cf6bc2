------------------------------ MODULE NvsStore ------------------------------
(***************************************************************************)
(* Settings kept in flash (lib/nvs.c): nvs_init, run by the main thread at *)
(* boot, reads each setting, publishes it, and counts the boot; the        *)
(* nvs_store thread writes what is later published for a setting.          *)
(*                                                                         *)
(* The main thread has the higher priority, so the other threads run       *)
(* during nvs_init only if a flash operation sleeps (Preempts).  ZMS, the  *)
(* bus and power failures are external: a ZMS write is atomic, and a       *)
(* restart loses everything but the flash.                                 *)
(***************************************************************************)
EXTENDS Points, Sequences

CONSTANTS
  Table,        \* nvs_pts of the application: a sequence of [type, key, dt]
  BootCount,    \* the type "bootCount"
  Traffic,      \* points other threads publish
  Preempts,     \* whether other threads can run while nvs_init is under way
  FlashFails,   \* whether zms_read can fail on a record, and zms_write fail
  MaxPublishes, \* bound: points published by other threads
  MaxRestarts   \* bound: power failures

\* The table of an application lists a setting once, and one boot count.  (A
\* setting of a data type other than these would be passed over by nvs_init.)
ASSUME NvsAssumption ==
  /\ MaxPublishes \in Nat /\ MaxRestarts \in Nat
  /\ Values = 0..(MaxPublishes + MaxRestarts + 1)
  /\ Traffic \subseteq Point
  /\ Table \in Seq([type : Types, key : Keys, dt : {"FLT", "INT", "STR"}])
  /\ \A i, j \in DOMAIN Table :
       \/ Id(Table[i]) = Id(Table[j])
       \/ Table[i].type = BootCount /\ Table[j].type = BootCount
       => i = j
  /\ Preempts \in BOOLEAN /\ FlashFails \in BOOLEAN

VARIABLES
  flash,      \* per setting, the stored [dt, val], or Missing
  main,       \* nvs_init: where it is, at which setting, the value in hand
  table,      \* whether nvs_pts and nvs_pts_count are set
  store,      \* the nvs_store thread: not attached, attached or deaf
  queue,      \* messages of state_sub
  publishes, restarts,  \* bounded counters
  shown,      \* history: per setting, the value every cache shows
  boots,      \* history: the boot counts published, one per boot
  faulted,    \* history: settings of which a read or a write has failed
  unsaved     \* history: settings whose last write since the boot failed

history == <<shown, boots, faulted, unsaved>>
faults == <<faulted, unsaved>>
vars == <<flash, main, table, store, queue, publishes, restarts, history>>

Settings == DOMAIN Table
Missing == [dt |-> "UNK", val |-> 0]
Stored == [dt : KnownTypes, val : Values] \cup {Missing}
ThisBootCount(i) == Table[i].type = BootCount /\ Table[i].dt = "INT"

\* point_type_key_to_nvs_id: exact comparison of type and key.
EntryOf(p) == {i \in Settings : Id(p) = Id(Table[i])}

\* zms_read into a buffer for the setting's type.  A record of another type is
\* read as whatever its bytes say, taken here to be the default.
ReadAs(i, r) == IF r.dt = Table[i].dt THEN r.val ELSE 0

\* Mutant: a string is written with length 0.
WrittenEmpty(p) ==
  IF p.dt \in {"JSN", "UNK", "STR"} THEN Missing ELSE [dt |-> p.dt, val |-> p.val]

\* zms_write with the length of the point's data: a JSON or untyped point has
\* length 0, and ZMS deletes the record.
Written(p) == IF p.dt \in {"JSN", "UNK"} THEN Missing ELSE [dt |-> p.dt, val |-> p.val]

Init ==
  /\ flash = [i \in Settings |-> Missing]
  /\ main = [pc |-> "mount", at |-> 1, val |-> 0]
  /\ table = FALSE
  /\ store = "start"
  /\ queue = <<>>
  /\ publishes = 0 /\ restarts = 0
  /\ shown = [i \in Settings |-> 0]
  /\ boots = <<>>
  /\ faulted = {} /\ unsaved = {}

\* zms_write of setting i: a failure, which the code logs, leaves the record.
Write(i, r, done) ==
  /\ done \/ FlashFails
  /\ flash' = IF done THEN [flash EXCEPT ![i] = r] ELSE flash
  /\ faulted' = IF done THEN faulted ELSE faulted \cup {i}
  /\ unsaved' = IF done THEN unsaved \ {i} ELSE unsaved \cup {i}

\* Observers of point_chan: state_sub once attached, and the caches, which
\* merge under the normalised key.
Publish(p) ==
  /\ queue' = IF store = "attached" THEN Append(queue, p) ELSE queue
  /\ shown' = [i \in Settings |->
                 IF i \in EntryOf(Normalised(p)) /\ Known(p) THEN p.val ELSE shown[i]]

-----------------------------------------------------------------------------
(* nvs_init *)

\* The flash is ready, large enough, and mounts.
Mount ==
  /\ main.pc = "mount"
  /\ main' = [main EXCEPT !.pc = "read"]
  /\ UNCHANGED <<flash, table, store, queue, publishes, restarts, history>>

\* It is not: nvs_init returns -1 and the device runs without persistence.
MountFails ==
  /\ main.pc = "mount"
  /\ main' = [main EXCEPT !.pc = "failed"]
  /\ UNCHANGED <<flash, table, store, queue, publishes, restarts, history>>

AfterRead(val) ==
  main' = [main EXCEPT !.pc = IF ThisBootCount(main.at) THEN "count" ELSE "publish",
                       !.val = val]

\* Mutants: the error code is published as the value; the default is written
\* whether or not the read failed.
ReadErrorCode ==
  /\ main.pc = "read"
  /\ main.at \in Settings
  /\ AfterRead(IF flash[main.at] = Missing THEN -1 ELSE ReadAs(main.at, flash[main.at]))
  /\ UNCHANGED <<flash, table, store, queue, publishes, restarts, history>>

ReadOverwrites ==
  /\ main.pc = "read"
  /\ main.at \in Settings
  /\ Write(main.at, [dt |-> Table[main.at].dt, val |-> 0], TRUE)
  /\ AfterRead(ReadAs(main.at, flash[main.at]))
  /\ UNCHANGED <<table, store, queue, publishes, restarts, shown, boots>>

\* zms_read of the next setting.
Read ==
  /\ main.pc = "read"
  /\ main.at \in Settings
  /\ flash[main.at] # Missing
  /\ AfterRead(ReadAs(main.at, flash[main.at]))
  /\ UNCHANGED <<flash, table, store, queue, publishes, restarts, history>>

\* One that is not there, or cannot be read, is written as zero.
ReadFails ==
  /\ main.pc = "read"
  /\ main.at \in Settings
  /\ flash[main.at] = Missing \/ FlashFails
  /\ \E done \in BOOLEAN :
       /\ done \/ FlashFails
       /\ flash' = IF done THEN [flash EXCEPT ![main.at] = [dt |-> Table[main.at].dt, val |-> 0]]
                           ELSE flash
       /\ faulted' = IF done /\ flash[main.at] = Missing THEN faulted ELSE faulted \cup {main.at}
       /\ unsaved' = IF done THEN unsaved \ {main.at} ELSE unsaved \cup {main.at}
  /\ AfterRead(0)
  /\ UNCHANGED <<table, store, queue, publishes, restarts, shown, boots>>

\* Mutant: the count is written back as it was read.
CountBootSame ==
  /\ main.pc = "count"
  /\ Write(main.at, [dt |-> "INT", val |-> main.val], TRUE)
  /\ main' = [main EXCEPT !.pc = "publish"]
  /\ UNCHANGED <<table, store, queue, publishes, restarts, shown, boots>>

\* The boot count goes up in flash before its old value is published.
CountBoot ==
  /\ main.pc = "count"
  /\ \E done \in BOOLEAN : Write(main.at, [dt |-> "INT", val |-> main.val + 1], done)
  /\ main' = [main EXCEPT !.pc = "publish"]
  /\ UNCHANGED <<table, store, queue, publishes, restarts, shown, boots>>

\* Mutant: the loop does not advance.
BroadcastAgain ==
  /\ main.pc = "publish"
  /\ Publish([type |-> Table[main.at].type, key |-> Table[main.at].key,
              dt |-> Table[main.at].dt, val |-> main.val])
  /\ main' = [main EXCEPT !.pc = "read"]
  /\ UNCHANGED <<flash, table, store, publishes, restarts, boots, faults>>

Broadcast ==
  /\ main.pc = "publish"
  /\ Publish([type |-> Table[main.at].type, key |-> Table[main.at].key,
              dt |-> Table[main.at].dt, val |-> main.val])
  /\ boots' = IF ThisBootCount(main.at) THEN Append(boots, main.val) ELSE boots
  /\ main' = [pc |-> "read", at |-> main.at + 1, val |-> 0]
  /\ UNCHANGED <<flash, table, store, publishes, restarts, faults>>

\* nvs_pts and nvs_pts_count are set last, which opens the store.
OpenTable ==
  /\ main.pc = "read"
  /\ main.at \notin Settings
  /\ table' = TRUE
  /\ main' = [main EXCEPT !.pc = "done"]
  /\ UNCHANGED <<flash, store, queue, publishes, restarts, history>>

NvsInit == Mount \/ MountFails \/ Read \/ ReadFails \/ CountBoot \/ Broadcast \/ OpenTable

-----------------------------------------------------------------------------
(* nvs_store_thread *)

OthersRun == Preempts \/ main.pc \in {"done", "failed"}

Attach ==
  /\ OthersRun
  /\ store = "start"
  /\ store' = "attached"
  /\ UNCHANGED <<flash, main, table, queue, publishes, restarts, history>>

\* zbus_chan_add_obs gives up after 5 s: the thread waits for nothing.
AttachFails ==
  /\ OthersRun
  /\ store = "start"
  /\ store' = "deaf"
  /\ UNCHANGED <<flash, main, table, queue, publishes, restarts, history>>

\* zms_write of a received point, to the setting it is of.
Save(p) ==
  \E i \in EntryOf(p), done \in BOOLEAN : Write(i, Written(p), done)

\* Mutant: points wait until the table is open.
HandleWhenOpen ==
  /\ OthersRun
  /\ queue # <<>> /\ table
  /\ IF EntryOf(Head(queue)) # {} THEN Save(Head(queue)) ELSE UNCHANGED <<flash, faults>>
  /\ queue' = Tail(queue)
  /\ UNCHANGED <<main, table, store, publishes, restarts, shown, boots>>

\* nvs_store_handle_point: a point of no setting, or any point while the table
\* is closed, is dropped.
Handle ==
  /\ OthersRun
  /\ queue # <<>>
  /\ IF table /\ EntryOf(Head(queue)) # {} THEN Save(Head(queue)) ELSE UNCHANGED <<flash, faults>>
  /\ queue' = Tail(queue)
  /\ UNCHANGED <<main, table, store, publishes, restarts, shown, boots>>

-----------------------------------------------------------------------------
(* The rest of the system *)

\* Another thread publishes.  Without preemption the first such point comes
\* after the store thread, which is ready to run from boot, has attached.
PublishOther(p) ==
  /\ OthersRun
  /\ ~Preempts => store # "start"
  /\ publishes < MaxPublishes
  /\ publishes' = publishes + 1
  /\ Publish(p)
  /\ UNCHANGED <<flash, main, table, store, restarts, boots, faults>>

\* Power is lost at any moment.
Restart ==
  /\ restarts < MaxRestarts
  /\ restarts' = restarts + 1
  /\ main' = [pc |-> "mount", at |-> 1, val |-> 0]
  /\ table' = FALSE /\ store' = "start" /\ queue' = <<>>
  /\ shown' = [i \in Settings |-> 0]
  /\ unsaved' = {}
  /\ UNCHANGED <<flash, publishes, boots, faulted>>

Idle ==
  /\ main.pc \in {"done", "failed"} /\ store # "start" /\ queue = <<>>
  /\ UNCHANGED vars

Next ==
  \/ NvsInit
  \/ Attach \/ AttachFails \/ Handle
  \/ \E p \in Traffic : PublishOther(p)
  \/ Restart
  \/ Idle

Fairness == WF_vars(NvsInit) /\ WF_vars(Attach \/ AttachFails \/ Handle)

Spec == Init /\ [][Next]_vars /\ Fairness

-----------------------------------------------------------------------------
TypeOK ==
  /\ flash \in [Settings -> Stored]
  /\ main \in [pc : {"mount", "read", "count", "publish", "done", "failed"},
              at : 1..(Len(Table) + 1), val : Values]
  /\ table \in BOOLEAN
  /\ store \in {"start", "attached", "deaf"}
  /\ queue \in Seq(Point)
  /\ publishes \in 0..MaxPublishes
  /\ restarts \in 0..MaxRestarts
  /\ shown \in [Settings -> Values]
  /\ boots \in Seq(Values)
  /\ unsaved \subseteq faulted /\ faulted \subseteq Settings

\* What the theorems ask of other publishers.  Nobody else publishes the boot count
\* (the shell could; later boots would count on from there), and who publishes a
\* setting names its key and gives it the data type of the table, as the settings
\* page does.
HostLeavesCount == \A p \in Traffic : p.type # BootCount

TrafficFits ==
  \A p \in Traffic, i \in Settings :
    Id(Normalised(p)) = Id(Table[i]) => Normalised(p) = p /\ p.dt = Table[i].dt

\* The store is in service and has dealt with everything it received.
Quiet == main.pc = "done" /\ store = "attached" /\ queue = <<>>

\* apps/siot-net/src/main.c:20-21, "The following points will get persisted in
\* NVS when they show up on zbus point_chan": what the caches show for a setting
\* is what a restart would bring back, unless its own last write failed.
ShownIsSaved ==
  Quiet => \A i \in Settings \ unsaved :
             ~ThisBootCount(i) => ReadAs(i, flash[i]) = shown[i]

\* apps/siot-simple/src/main.c:15-17, "on every boot it reads the stored value,
\* publishes it on point_chan, then increments and writes it back.  So bootCount
\* climbing by one across resets ...": no boot repeats the count of an earlier
\* one, wherever the power failed and whatever became of the other settings.
BootCountClimbs ==
  {i \in faulted : ThisBootCount(i)} = {} =>
    \A k \in DOMAIN boots \ {1} : boots[k - 1] < boots[k]

\* What was saved comes back: no boot changes a setting, one that could not mount
\* and goes on without its store included, unless the flash failed that very
\* setting.
BootRestores ==
  [][\A i \in Settings \ faulted' :
       main.pc # "done" /\ flash[i] # Missing /\ ~ThisBootCount(i)
         => ReadAs(i, flash'[i]) = ReadAs(i, flash[i])]_vars

\* Every message reaches the flash or is dropped, unless the power fails.
QueueDrains == queue # <<>> ~> queue = <<>>

\* Booting ends, whatever was found in flash.
BootEnds == main.pc = "mount" ~> main.pc \in {"done", "failed"}
=============================================================================
