--------------------------- MODULE NvsStoreProofs ---------------------------
(***************************************************************************)
(* Proofs about the settings in flash, for any table of settings, any      *)
(* number of power failures and publications, and a flash that may fail.   *)
(***************************************************************************)
EXTENDS NvsStore, PointsProofs, SequenceTheorems

\* What the entries of the table are.
LEMMA TableEntries ==
  /\ Settings = 1..Len(Table) /\ Len(Table) \in Nat
  /\ \A i \in Settings : /\ Table[i] \in [type : Types, key : Keys, dt : {"FLT", "INT", "STR"}]
                         /\ Table[i].dt \in KnownTypes
  /\ \A i, j \in Settings : Id(Table[i]) = Id(Table[j]) => i = j
  /\ \A i, j \in Settings : ThisBootCount(i) /\ ThisBootCount(j) => i = j
<1>1. Settings = 1..Len(Table) /\ Len(Table) \in Nat
  BY NvsAssumption, LenProperties DEF Settings
<1>2. \A i \in Settings : Table[i] \in [type : Types, key : Keys, dt : {"FLT", "INT", "STR"}]
  BY <1>1, NvsAssumption, ElementOfSeq
<1>3. \A i \in Settings : Table[i].dt \in KnownTypes
  BY <1>2 DEF KnownTypes
<1>4. \A i, j \in Settings : Id(Table[i]) = Id(Table[j]) => i = j
  BY NvsAssumption DEF Settings
<1>5. \A i, j \in Settings : ThisBootCount(i) /\ ThisBootCount(j) => i = j
  BY NvsAssumption DEF Settings, ThisBootCount
<1>6. QED
  BY <1>1, <1>2, <1>3, <1>4, <1>5

(***************************************************************************)
(* A boot changes no setting                                               *)
(***************************************************************************)

\* Where nvs_init is with respect to the table, which opens at its end.
BootShape ==
  /\ DOMAIN flash = Settings
  /\ DOMAIN main = {"pc", "at", "val"}
  /\ main.pc = "count" => main.at \in Settings /\ ThisBootCount(main.at)
  /\ main.pc = "publish" => main.at \in Settings
  /\ table <=> main.pc = "done"

LEMMA BootShapeInit == Init => BootShape
BY DEF Init, BootShape

LEMMA BootShapeStep == BootShape /\ [Next]_vars => BootShape'
<1> SUFFICES ASSUME BootShape, [Next]_vars PROVE BootShape'
  OBVIOUS
<1> USE DEF BootShape
<1>1. CASE Mount \/ MountFails
  BY <1>1 DEF Mount, MountFails
<1>2. CASE Read
  BY <1>2 DEF Read, AfterRead
<1>3. CASE ReadFails
  BY <1>3 DEF ReadFails, AfterRead
<1>4. CASE CountBoot
  BY <1>4 DEF CountBoot, Write
<1>5. CASE Broadcast
  BY <1>5 DEF Broadcast
<1>6. CASE OpenTable
  BY <1>6 DEF OpenTable
<1>7. CASE Attach \/ AttachFails
  BY <1>7 DEF Attach, AttachFails
<1>8. CASE Handle
  BY <1>8 DEF Handle, Save, Write
<1>9. CASE \E p \in Traffic : PublishOther(p)
  BY <1>9 DEF PublishOther
<1>10. CASE Restart
  BY <1>10 DEF Restart
<1>11. CASE Idle \/ UNCHANGED vars
  BY <1>11 DEF Idle, vars
<1>12. QED
  BY <1>1, <1>2, <1>3, <1>4, <1>5, <1>6, <1>7, <1>8, <1>9, <1>10, <1>11 DEF Next, NvsInit

\* The steps of nvs_init leave alone what the flash has of every setting but the
\* boot count and a setting that it could not read or write; the store thread,
\* which finds the table closed, leaves everything alone.
THEOREM NothingLostAtBoot == Spec => BootRestores
<1> DEFINE Kept ==
      \A i \in Settings \ faulted' :
        main.pc # "done" /\ flash[i] # Missing /\ ~ThisBootCount(i)
          => ReadAs(i, flash'[i]) = ReadAs(i, flash[i])
<1>1. ASSUME BootShape, Next PROVE Kept
  <2>1. SUFFICES ASSUME NEW i \in Settings, i \notin faulted',
                        main.pc # "done", flash[i] # Missing, ~ThisBootCount(i)
                 PROVE  flash'[i] = flash[i]
    OBVIOUS
  <2>2. CASE ReadFails
    <3>1. CASE i = main.at
      BY <2>1, <2>2, <3>1 DEF ReadFails
    <3>2. CASE i # main.at
      BY <1>1, <2>2, <3>2 DEF ReadFails, BootShape
    <3>3. QED
      BY <3>1, <3>2
  <2>3. CASE CountBoot
    BY <1>1, <2>1, <2>3 DEF CountBoot, Write, BootShape
  <2>4. CASE Handle
    BY <1>1, <2>1, <2>4 DEF Handle, BootShape
  <2>5. flash' = flash \/ ReadFails \/ CountBoot \/ Handle
    BY <1>1 DEF Next, NvsInit, Mount, MountFails, Read, Broadcast, OpenTable, Attach,
                AttachFails, PublishOther, Restart, Idle, vars
  <2>6. QED
    BY <2>2, <2>3, <2>4, <2>5
<1>2. BootShape /\ [Next]_vars => [Kept]_vars
  BY <1>1
<1>3. QED
  BY <1>2, BootShapeInit, BootShapeStep, PTL DEF Spec, BootRestores

(***************************************************************************)
(* Types, and how high a boot count can be                                 *)
(***************************************************************************)

\* Setting i, the boot count, has been counted in this boot.
Counted(i) ==
  \/ main.pc = "done"
  \/ main.pc \in {"read", "count", "publish"} /\ main.at > i
  \/ main.pc = "publish" /\ main.at = i

\* A boot count is at most the number of boots that have counted, wherever it is:
\* in flash, with nvs_init, or on its way to the store thread.
CountsBounded ==
  /\ \A i \in Settings :
       ThisBootCount(i) => /\ flash[i].val <= restarts + 1
                           /\ ~Counted(i) => flash[i].val <= restarts
  /\ main.pc \in {"count", "publish"} /\ ThisBootCount(main.at) => main.val <= restarts
  /\ \A k \in DOMAIN queue : \A i \in EntryOf(queue[k]) :
       ThisBootCount(i) => queue[k].val <= restarts

TypeInv == BootShape /\ TypeOK /\ CountsBounded

\* The data that the steps work on.
LEMMA DataTypesOf ==
  ASSUME TypeOK
  PROVE  /\ Values \subseteq Nat /\ 0 \in Values /\ 1 \in Values
         /\ \A v \in 0..(restarts + 1) : v \in Values
         /\ restarts \in Nat /\ Missing \in Stored
         /\ \A dt \in KnownTypes, v \in Values : [dt |-> dt, val |-> v] \in Stored
         /\ \A i \in Settings : flash[i] \in Stored /\ flash[i].val \in Values
                                /\ ReadAs(i, flash[i]) \in {0, flash[i].val}
                                /\ ReadAs(i, flash[i]) \in Values
         /\ main.at \in Nat /\ main.val \in Values
<1>1. /\ MaxPublishes \in Nat /\ MaxRestarts \in Nat
      /\ Values = 0..(MaxPublishes + MaxRestarts + 1)
      /\ restarts \in 0..MaxRestarts
  BY NvsAssumption DEF TypeOK
<1>2. /\ Values \subseteq Nat /\ 0 \in Values /\ 1 \in Values /\ restarts \in Nat
      /\ \A v \in 0..(restarts + 1) : v \in Values
  BY <1>1
<1>3. \A dt \in KnownTypes, v \in Values : [dt |-> dt, val |-> v] \in Stored
  BY DEF Stored
<1>4. Missing \in Stored /\ Missing.val \in Values
  BY <1>2 DEF Stored, Missing
<1>5. \A i \in Settings : flash[i] \in Stored /\ flash[i].val \in Values
  BY <1>4 DEF TypeOK, Stored
<1>6. \A i \in Settings : /\ ReadAs(i, flash[i]) \in {0, flash[i].val}
                          /\ ReadAs(i, flash[i]) \in Values
  BY <1>2, <1>5 DEF ReadAs
<1>7. main.at \in Nat /\ main.val \in Values
  BY DEF TypeOK
<1>8. QED
  BY <1>2, <1>3, <1>4, <1>5, <1>6, <1>7

\* A write, done or failed, changes at most the record of its setting.
LEMMA WriteTypes ==
  ASSUME TypeOK, NEW i \in Settings, NEW r \in Stored, NEW done \in BOOLEAN, Write(i, r, done)
  PROVE  /\ flash' \in [Settings -> Stored]
         /\ unsaved' \subseteq faulted' /\ faulted' \subseteq Settings
         /\ \A j \in Settings : j # i => flash'[j] = flash[j]
         /\ flash'[i] = r \/ flash'[i] = flash[i]
<1>1. CASE done
  BY <1>1 DEF Write, TypeOK
<1>2. CASE ~done
  BY <1>2 DEF Write, TypeOK
<1>3. QED
  BY <1>1, <1>2

\* A publication adds at most itself to the queue, and a value to what is shown.
LEMMA PublishTypes ==
  ASSUME TypeOK, NEW p \in Point, Publish(p)
  PROVE  /\ queue' \in Seq(Point)
         /\ shown' \in [Settings -> Values]
         /\ \A k \in DOMAIN queue' : queue'[k] = p \/ (k \in DOMAIN queue /\ queue'[k] = queue[k])
<1>1. queue \in Seq(Point) /\ shown \in [Settings -> Values] /\ p.val \in Values
  BY DEF TypeOK, Point
<1>2. shown' \in [Settings -> Values]
  BY <1>1 DEF Publish
<1>3. CASE queue' = queue
  BY <1>1, <1>2, <1>3
<1>4. CASE queue' = Append(queue, p)
  <2>1. /\ queue' \in Seq(Point) /\ Len(queue') = Len(queue) + 1 /\ Len(queue) \in Nat
        /\ DOMAIN queue = 1..Len(queue) /\ DOMAIN queue' = 1..Len(queue')
        /\ \A k \in 1..Len(queue) : queue'[k] = queue[k]
        /\ queue'[Len(queue) + 1] = p
    BY <1>1, <1>4, AppendProperties, LenProperties
  <2>2. \A k \in DOMAIN queue' : k \in 1..Len(queue) \/ k = Len(queue) + 1
    BY <2>1
  <2>3. QED
    BY <1>2, <2>1, <2>2
<1>5. QED
  BY <1>3, <1>4 DEF Publish

LEMMA TypeInvInit == Init => TypeInv
<1> SUFFICES ASSUME Init PROVE TypeInv
  OBVIOUS
<1>1. /\ MaxPublishes \in Nat /\ MaxRestarts \in Nat /\ 0 \in Values
      /\ Settings = 1..Len(Table) /\ Len(Table) \in Nat
  BY NvsAssumption, TableEntries
<1>2. Missing \in Stored /\ \A i \in Settings : flash[i] = Missing
  BY DEF Init, Stored
<1>3. main \in [pc : {"mount"}, at : 1..(Len(Table) + 1), val : Values]
  BY <1>1 DEF Init
<1>4. <<>> \in Seq(Point) /\ <<>> \in Seq(Values)
  OBVIOUS
<1>5. TypeOK
  <2>1. flash \in [Settings -> Stored] /\ shown \in [Settings -> Values]
    BY <1>1, <1>2 DEF Init
  <2>2. main \in [pc : {"mount", "read", "count", "publish", "done", "failed"},
                 at : 1..(Len(Table) + 1), val : Values]
    BY <1>3
  <2>3. publishes \in 0..MaxPublishes /\ restarts \in 0..MaxRestarts
    BY <1>1 DEF Init
  <2>4. /\ table \in BOOLEAN /\ store \in {"start", "attached", "deaf"}
        /\ unsaved \subseteq faulted /\ faulted \subseteq Settings
    BY DEF Init
  <2>5. QED
    BY <1>4, <2>1, <2>2, <2>3, <2>4 DEF Init, TypeOK
<1>6. \A i \in Settings : flash[i].val = 0
  BY <1>2 DEF Missing
<1>7. restarts = 0 /\ DOMAIN queue = {}
  BY DEF Init
<1>8. CountsBounded
  BY <1>3, <1>6, <1>7 DEF CountsBounded
<1>9. QED
  BY <1>5, <1>8, BootShapeInit DEF TypeInv

\* The steps of nvs_init but for the writes and the publication.
LEMMA InitStepsTyped ==
  ASSUME TypeInv, Mount \/ MountFails \/ Read \/ OpenTable
  PROVE  TypeOK' /\ CountsBounded'
<1>1. /\ UNCHANGED <<flash, store, queue, publishes, restarts, history>>
      /\ table' \in BOOLEAN
      /\ main'.at = main.at
  BY DEF Mount, MountFails, Read, AfterRead, OpenTable, TypeInv, TypeOK
<1>2. /\ main' \in [pc : {"mount", "read", "count", "publish", "done", "failed"},
                    at : 1..(Len(Table) + 1), val : Values]
      /\ main'.pc \in {"count", "publish"} =>
           Read /\ main.at \in Settings /\ main'.val = ReadAs(main.at, flash[main.at])
  <2>1. CASE Read
    <3>1. ReadAs(main.at, flash[main.at]) \in Values
      BY <2>1, DataTypesOf DEF Read, TypeInv
    <3>2. QED
      BY <2>1, <3>1 DEF Read, AfterRead, TypeInv, TypeOK
  <2>2. CASE Mount \/ MountFails \/ OpenTable
    BY <2>2 DEF Mount, MountFails, OpenTable, TypeInv, TypeOK
  <2>3. QED
    BY <2>1, <2>2
<1>3. TypeOK'
  BY <1>1, <1>2 DEF history, TypeInv, TypeOK
<1>4. ASSUME NEW i \in Settings, ThisBootCount(i)
      PROVE  flash'[i].val <= restarts' + 1 /\ (~Counted(i)' => flash'[i].val <= restarts')
  <2>1. Counted(i) => Counted(i)'
    BY <1>1, <1>4 DEF Mount, MountFails, Read, AfterRead, OpenTable, Counted, TypeInv, TypeOK
  <2>2. QED
    BY <1>1, <1>4, <2>1 DEF TypeInv, CountsBounded
<1>5. ASSUME main'.pc \in {"count", "publish"}, ThisBootCount(main'.at)
      PROVE  main'.val <= restarts'
  <2>1. main.pc = "read" /\ main.at \in Nat /\ main.at \in Settings
    BY <1>2, <1>5, DataTypesOf DEF Read, TypeInv
  <2>2. ~Counted(main.at)
    BY <2>1 DEF Counted
  <2>3. flash[main.at].val <= restarts /\ flash[main.at].val \in Nat /\ restarts \in Nat
    BY <1>1, <1>5, <2>1, <2>2, DataTypesOf DEF TypeInv, CountsBounded
  <2>4. main'.val \in {0, flash[main.at].val}
    BY <1>2, <1>5, <2>1, DataTypesOf DEF TypeInv
  <2>5. QED
    BY <1>1, <2>3, <2>4
<1>6. CountsBounded'
  BY <1>1, <1>4, <1>5 DEF TypeInv, CountsBounded
<1>7. QED
  BY <1>3, <1>6

LEMMA ReadFailsTyped ==
  ASSUME TypeInv, ReadFails
  PROVE  TypeOK' /\ CountsBounded'
<1> DEFINE at == main.at
           zero == [dt |-> Table[at].dt, val |-> 0]
<1>1. /\ UNCHANGED <<table, store, queue, publishes, restarts, shown, boots>>
      /\ main.pc = "read" /\ at \in Settings /\ at \in Nat
      /\ main' = [main EXCEPT !.pc = IF ThisBootCount(at) THEN "count" ELSE "publish", !.val = 0]
  BY DataTypesOf DEF ReadFails, AfterRead, TypeInv
<1>2. zero \in Stored /\ 0 \in Values /\ zero.val = 0 /\ restarts \in Nat
  BY <1>1, DataTypesOf, TableEntries DEF TypeInv
<1> HIDE DEF zero
<1>3. /\ flash' \in [Settings -> Stored]
      /\ unsaved' \subseteq faulted' /\ faulted' \subseteq Settings
      /\ \A i \in Settings : flash'[i] = flash[i] \/ flash'[i] = zero
  <2>1. PICK done \in BOOLEAN :
          /\ flash' = IF done THEN [flash EXCEPT ![at] = zero] ELSE flash
          /\ faulted' = IF done /\ flash[at] = Missing THEN faulted ELSE faulted \cup {at}
          /\ unsaved' = IF done THEN unsaved \ {at} ELSE unsaved \cup {at}
    BY DEF ReadFails, zero
  <2>2. CASE done
    BY <1>1, <1>2, <2>1, <2>2 DEF TypeInv, TypeOK
  <2>3. CASE ~done
    BY <1>1, <1>2, <2>1, <2>3 DEF TypeInv, TypeOK
  <2>4. QED
    BY <2>2, <2>3
<1>4. /\ main' \in [pc : {"mount", "read", "count", "publish", "done", "failed"},
                    at : 1..(Len(Table) + 1), val : Values]
      /\ main'.val = 0 /\ main'.at = at
      /\ main'.pc = IF ThisBootCount(at) THEN "count" ELSE "publish"
  BY <1>1, <1>2 DEF TypeInv, TypeOK
<1>5. TypeOK'
  BY <1>1, <1>3, <1>4 DEF TypeInv, TypeOK
<1>6. ASSUME NEW i \in Settings, ThisBootCount(i)
      PROVE  flash'[i].val <= restarts' + 1 /\ (~Counted(i)' => flash'[i].val <= restarts')
  <2>1. Counted(i) => Counted(i)'
    BY <1>1, <1>4, <1>6 DEF Counted
  <2>2. CASE flash'[i] = flash[i]
    BY <1>1, <1>6, <2>1, <2>2 DEF TypeInv, CountsBounded
  <2>3. CASE flash'[i] = zero
    BY <1>1, <1>2, <2>3
  <2>4. QED
    BY <1>3, <2>2, <2>3
<1>7. CountsBounded'
  BY <1>1, <1>2, <1>4, <1>6 DEF TypeInv, CountsBounded
<1>8. QED
  BY <1>5, <1>7

LEMMA CountBootTyped ==
  ASSUME TypeInv, CountBoot
  PROVE  TypeOK' /\ CountsBounded'
<1> DEFINE at == main.at
           next == [dt |-> "INT", val |-> main.val + 1]
<1>1. /\ UNCHANGED <<table, store, queue, publishes, restarts, shown, boots>>
      /\ main.pc = "count" /\ at \in Settings /\ at \in Nat /\ ThisBootCount(at)
      /\ main' = [main EXCEPT !.pc = "publish"]
  BY DataTypesOf DEF CountBoot, TypeInv, BootShape
<1>2. main.val \in Nat /\ main.val <= restarts /\ restarts \in Nat
  BY <1>1, DataTypesOf DEF TypeInv, CountsBounded
<1>3. main.val + 1 \in 0..(restarts + 1)
  BY <1>2
<1>4. next \in Stored /\ next.val <= restarts + 1
  BY <1>2, <1>3, DataTypesOf DEF TypeInv, KnownTypes
<1> HIDE DEF next
<1>5. /\ flash' \in [Settings -> Stored]
      /\ unsaved' \subseteq faulted' /\ faulted' \subseteq Settings
      /\ \A j \in Settings : j # at => flash'[j] = flash[j]
      /\ flash'[at] = next \/ flash'[at] = flash[at]
  BY <1>1, <1>4, WriteTypes DEF CountBoot, TypeInv, next
<1>6. /\ main' \in [pc : {"mount", "read", "count", "publish", "done", "failed"},
                    at : 1..(Len(Table) + 1), val : Values]
      /\ main'.val = main.val /\ main'.at = at /\ main'.pc = "publish"
  BY <1>1 DEF TypeInv, TypeOK
<1>7. TypeOK'
  BY <1>1, <1>5, <1>6 DEF TypeInv, TypeOK
<1>8. ASSUME NEW i \in Settings, ThisBootCount(i)
      PROVE  flash'[i].val <= restarts' + 1 /\ (~Counted(i)' => flash'[i].val <= restarts')
  <2>1. i = at
    BY <1>1, <1>8, TableEntries
  <2>2. Counted(i)'
    BY <1>6, <2>1 DEF Counted
  <2>3. flash[i].val <= restarts + 1
    BY <1>8 DEF TypeInv, CountsBounded
  <2>4. QED
    BY <1>1, <1>4, <1>5, <2>1, <2>2, <2>3
<1>9. CountsBounded'
  BY <1>1, <1>2, <1>6, <1>8 DEF TypeInv, CountsBounded
<1>10. QED
  BY <1>7, <1>9

\* The point that nvs_init publishes for a setting, and of which setting it is.
LEMMA SettingPoint ==
  ASSUME TypeOK, NEW i \in Settings, NEW v \in Values
  PROVE  LET p == [type |-> Table[i].type, key |-> Table[i].key, dt |-> Table[i].dt, val |-> v]
         IN  /\ p \in Point /\ Known(p) /\ Normalised(p) = p
             /\ p.val = v /\ EntryOf(p) = {i}
<1> DEFINE p == [type |-> Table[i].type, key |-> Table[i].key, dt |-> Table[i].dt, val |-> v]
<1>1. /\ Table[i].type \in Types /\ Table[i].key \in Keys /\ Table[i].dt \in KnownTypes
  BY TableEntries
<1>2. p \in Point /\ Known(p) /\ p.val = v
  BY <1>1 DEF Point, DataTypes, Known
<1>3. Normalised(p) = p
  BY <1>1, PointsAssumption DEF Normalised
<1>4. Id(p) = Id(Table[i])
  BY DEF Id
<1>5. EntryOf(p) = {i}
  BY <1>4, TableEntries DEF EntryOf
<1>6. QED
  BY <1>2, <1>3, <1>5

LEMMA BroadcastTyped ==
  ASSUME TypeInv, Broadcast
  PROVE  TypeOK' /\ CountsBounded'
<1> DEFINE at == main.at
           p == [type |-> Table[at].type, key |-> Table[at].key,
                 dt |-> Table[at].dt, val |-> main.val]
<1>1. /\ UNCHANGED <<flash, table, store, publishes, restarts, faults>>
      /\ main.pc = "publish" /\ at \in Settings /\ at \in Nat /\ main.val \in Values
      /\ Publish(p)
      /\ main' = [pc |-> "read", at |-> at + 1, val |-> 0]
  BY DataTypesOf DEF Broadcast, TypeInv, BootShape
<1>2. p \in Point /\ p.val = main.val /\ EntryOf(p) = {at}
  BY <1>1, SettingPoint DEF TypeInv
<1> HIDE DEF p
<1>3. /\ queue' \in Seq(Point) /\ shown' \in [Settings -> Values]
      /\ \A k \in DOMAIN queue' : queue'[k] = p \/ (k \in DOMAIN queue /\ queue'[k] = queue[k])
  BY <1>1, <1>2, PublishTypes DEF TypeInv
<1>4. boots' \in Seq(Values)
  BY <1>1, AppendProperties DEF Broadcast, TypeInv, TypeOK
<1>5. main' \in [pc : {"mount", "read", "count", "publish", "done", "failed"},
                 at : 1..(Len(Table) + 1), val : Values]
  BY <1>1, TableEntries, DataTypesOf DEF TypeInv
<1>6. TypeOK'
  BY <1>1, <1>3, <1>4, <1>5 DEF faults, TypeInv, TypeOK
<1>7. ASSUME NEW i \in Settings, ThisBootCount(i)
      PROVE  flash'[i].val <= restarts' + 1 /\ (~Counted(i)' => flash'[i].val <= restarts')
  <2>1. i \in Nat
    BY TableEntries
  <2>2. Counted(i) => Counted(i)'
    BY <1>1, <2>1 DEF Counted
  <2>3. QED
    BY <1>1, <1>7, <2>2 DEF TypeInv, CountsBounded
<1>8. ASSUME NEW k \in DOMAIN queue', NEW i \in EntryOf(queue'[k]), ThisBootCount(i)
      PROVE  queue'[k].val <= restarts'
  <2>1. CASE queue'[k] = p
    BY <1>1, <1>2, <1>8, <2>1 DEF TypeInv, CountsBounded
  <2>2. CASE k \in DOMAIN queue /\ queue'[k] = queue[k]
    BY <1>1, <1>8, <2>2 DEF TypeInv, CountsBounded
  <2>3. QED
    BY <1>3, <2>1, <2>2
<1>9. CountsBounded'
  BY <1>1, <1>7, <1>8 DEF CountsBounded
<1>10. QED
  BY <1>6, <1>9

LEMMA HandleTyped ==
  ASSUME TypeInv, Handle
  PROVE  TypeOK' /\ CountsBounded'
<1> DEFINE p == Head(queue)
<1>1. /\ UNCHANGED <<main, table, store, publishes, restarts, shown, boots>>
      /\ queue # <<>> /\ queue' = Tail(queue)
  BY DEF Handle
<1>2. /\ p = queue[1] /\ 1 \in DOMAIN queue /\ p \in Point /\ queue' \in Seq(Point)
      /\ \A k \in DOMAIN queue' : k + 1 \in DOMAIN queue /\ queue'[k] = queue[k + 1]
  <2>1. queue \in Seq(Point)
    BY DEF TypeInv, TypeOK
  <2>2. /\ Len(queue) \in Nat \ {0} /\ Len(queue') = Len(queue) - 1
        /\ p \in Point /\ queue' \in Seq(Point) /\ p = queue[1]
        /\ DOMAIN queue = 1..Len(queue) /\ DOMAIN queue' = 1..Len(queue')
        /\ \A k \in 1..Len(queue') : queue'[k] = queue[k + 1]
    BY <1>1, <2>1, HeadTailProperties, LenProperties, EmptySeq
  <2>3. QED
    BY <2>2
<1>3. restarts \in Nat /\ Written(p) \in Stored /\ Written(p).val \in {0, p.val}
  <2>1. p.dt \in DataTypes /\ p.val \in Values /\ restarts \in Nat
    BY <1>2, DataTypesOf DEF Point, TypeInv
  <2>2. CASE p.dt \in {"JSN", "UNK"}
    BY <2>1, <2>2, DataTypesOf DEF Written, Missing, TypeInv
  <2>3. CASE p.dt \notin {"JSN", "UNK"}
    BY <2>1, <2>3 DEF Written, Stored, DataTypes
  <2>4. QED
    BY <2>1, <2>2, <2>3
<1>4. CASE UNCHANGED <<flash, faults>>
  BY <1>1, <1>2, <1>4 DEF faults, TypeInv, TypeOK, CountsBounded, Counted
<1>5. ASSUME table, NEW i \in EntryOf(p), NEW done \in BOOLEAN, Write(i, Written(p), done)
      PROVE  TypeOK' /\ CountsBounded'
  <2>1. i \in Settings
    BY DEF EntryOf
  <2>2. /\ flash' \in [Settings -> Stored]
        /\ unsaved' \subseteq faulted' /\ faulted' \subseteq Settings
        /\ \A j \in Settings : j # i => flash'[j] = flash[j]
        /\ flash'[i] = Written(p) \/ flash'[i] = flash[i]
    BY <1>3, <1>5, <2>1, WriteTypes DEF TypeInv
  <2>3. TypeOK'
    BY <1>1, <1>2, <2>2 DEF TypeInv, TypeOK
  <2>4. ASSUME NEW j \in Settings, ThisBootCount(j) PROVE Counted(j)' /\ flash'[j].val <= restarts' + 1
    <3>1. Counted(j)'
      BY <1>1, <1>5 DEF Counted, TypeInv, BootShape
    <3>2. CASE flash'[j] = flash[j]
      BY <1>1, <2>4, <3>1, <3>2 DEF TypeInv, CountsBounded
    <3>3. CASE j = i /\ flash'[j] = Written(p)
      <4>1. p.val <= restarts
        BY <1>2, <1>5, <2>4, <3>3 DEF TypeInv, CountsBounded
      <4>2. p.val \in Nat
        BY <1>2, DataTypesOf DEF Point, TypeInv
      <4>3. QED
        BY <1>1, <1>3, <3>1, <3>3, <4>1, <4>2
    <3>4. QED
      BY <2>2, <3>2, <3>3
  <2>5. CountsBounded'
    BY <1>1, <1>2, <2>4 DEF TypeInv, CountsBounded
  <2>6. QED
    BY <2>3, <2>5
<1>6. QED
  BY <1>4, <1>5 DEF Handle, Save

LEMMA PublishOtherTyped ==
  ASSUME HostLeavesCount, TypeInv, NEW p \in Traffic, PublishOther(p)
  PROVE  TypeOK' /\ CountsBounded'
<1>1. /\ UNCHANGED <<flash, main, table, store, restarts, boots, faults>>
      /\ Publish(p) /\ publishes' \in 0..MaxPublishes
  BY NvsAssumption DEF PublishOther, TypeInv, TypeOK
<1>2. p \in Point
  BY NvsAssumption
<1>3. /\ queue' \in Seq(Point) /\ shown' \in [Settings -> Values]
      /\ \A k \in DOMAIN queue' : queue'[k] = p \/ (k \in DOMAIN queue /\ queue'[k] = queue[k])
  BY <1>1, <1>2, PublishTypes DEF TypeInv
<1>4. TypeOK'
  BY <1>1, <1>3 DEF faults, TypeInv, TypeOK
<1>5. \A i \in EntryOf(p) : ~ThisBootCount(i)
  BY <1>2 DEF HostLeavesCount, EntryOf, Id, ThisBootCount
<1>6. CountsBounded'
  BY <1>1, <1>3, <1>5 DEF TypeInv, CountsBounded, Counted
<1>7. QED
  BY <1>4, <1>6

LEMMA RestartTyped ==
  ASSUME TypeInv, Restart
  PROVE  TypeOK' /\ CountsBounded'
<1>1. /\ UNCHANGED <<flash, publishes, boots, faulted>>
      /\ main' = [pc |-> "mount", at |-> 1, val |-> 0]
      /\ ~table' /\ table' \in BOOLEAN /\ store' = "start" /\ queue' = <<>> /\ unsaved' = {}
      /\ shown' = [i \in Settings |-> 0]
  BY DEF Restart
<1>2. /\ restarts \in Nat /\ restarts' = restarts + 1 /\ restarts' \in 0..MaxRestarts
      /\ 0 \in Values /\ Len(Table) \in Nat
  BY NvsAssumption, DataTypesOf, TableEntries DEF Restart, TypeInv
<1>3. TypeOK'
  BY <1>1, <1>2 DEF TypeInv, TypeOK
<1>4. CountsBounded'
  <2>1. \A i \in Settings : ThisBootCount(i) => flash[i].val <= restarts + 1 /\ flash[i].val \in Nat
    BY DataTypesOf DEF TypeInv, CountsBounded
  <2>2. DOMAIN queue' = {} /\ main'.pc \notin {"count", "publish"}
    BY <1>1
  <2>3. QED
    BY <1>1, <1>2, <2>1, <2>2 DEF CountsBounded
<1>5. QED
  BY <1>3, <1>4

LEMMA TypeInvStep ==
  ASSUME HostLeavesCount
  PROVE  TypeInv /\ [Next]_vars => TypeInv'
<1> SUFFICES ASSUME TypeInv, [Next]_vars PROVE TypeOK' /\ CountsBounded'
  BY BootShapeStep DEF TypeInv
<1>1. CASE NvsInit
  BY <1>1, InitStepsTyped, ReadFailsTyped, CountBootTyped, BroadcastTyped DEF NvsInit
<1>2. CASE Handle
  BY <1>2, HandleTyped
<1>3. CASE \E p \in Traffic : PublishOther(p)
  BY <1>3, PublishOtherTyped
<1>4. CASE Restart
  BY <1>4, RestartTyped
<1>5. CASE Attach \/ AttachFails \/ Idle \/ UNCHANGED vars
  <2>1. UNCHANGED <<flash, main, table, queue, publishes, restarts, history>>
        /\ store' \in {"start", "attached", "deaf"}
    BY <1>5 DEF Attach, AttachFails, Idle, vars, TypeInv, TypeOK
  <2>2. QED
    BY <2>1 DEF history, TypeInv, TypeOK, CountsBounded, Counted
<1>6. QED
  BY <1>1, <1>2, <1>3, <1>4, <1>5 DEF Next

\* Whatever is stored, published and lost, the variables keep their types: no
\* boot count exceeds the number of boots.
THEOREM TypeCorrect ==
  ASSUME HostLeavesCount
  PROVE  Spec => []TypeOK
<1>1. Init => TypeInv
  BY TypeInvInit
<1>2. TypeInv /\ [Next]_vars => TypeInv'
  BY TypeInvStep
<1>3. TypeInv => TypeOK
  BY DEF TypeInv
<1>4. QED
  BY <1>1, <1>2, <1>3, PTL DEF Spec

(***************************************************************************)
(* No boot repeats a boot count                                            *)
(***************************************************************************)

\* Without preemption the store thread starts when nvs_init has returned, and is
\* sent nothing but what other threads publish.
Alone ==
  /\ main.pc \notin {"done", "failed"} => store = "start"
  /\ store = "start" => queue = <<>>
  /\ \A k \in DOMAIN queue : queue[k] \in Traffic

\* What zms_read would give for setting i.
Kept(i) == ReadAs(i, flash[i])

\* The point taken from the queue, and those that are left.
LEMMA HandledPoint ==
  ASSUME TypeOK, Handle
  PROVE  /\ Head(queue) = queue[1] /\ 1 \in DOMAIN queue /\ Head(queue) \in Point
         /\ DOMAIN queue \subseteq Nat \ {0}
         /\ \A k \in DOMAIN queue' : k + 1 \in DOMAIN queue /\ queue'[k] = queue[k + 1]
         /\ \A k \in DOMAIN queue : k = 1 \/ k - 1 \in DOMAIN queue'
<1>1. queue \in Seq(Point) /\ queue # <<>> /\ queue' = Tail(queue)
  BY DEF Handle, TypeOK
<1>2. /\ Len(queue) \in Nat \ {0} /\ Len(queue') = Len(queue) - 1
      /\ Head(queue) \in Point /\ Head(queue) = queue[1]
      /\ DOMAIN queue = 1..Len(queue) /\ DOMAIN queue' = 1..Len(queue')
      /\ \A k \in 1..Len(queue') : queue'[k] = queue[k + 1]
  BY <1>1, HeadTailProperties, LenProperties, EmptySeq
<1>3. QED
  BY <1>2

\* The point that another thread adds to the queue comes last.
LEMMA AppendedPoint ==
  ASSUME TypeOK, NEW p \in Point, queue' = Append(queue, p)
  PROVE  /\ Len(queue) \in Nat /\ DOMAIN queue = 1..Len(queue)
         /\ DOMAIN queue' = 1..(Len(queue) + 1)
         /\ queue'[Len(queue) + 1] = p
         /\ \A k \in DOMAIN queue : queue'[k] = queue[k]
<1>1. queue \in Seq(Point)
  BY DEF TypeOK
<1>2. QED
  BY <1>1, AppendProperties, LenProperties

LEMMA AloneStep ==
  ASSUME ~Preempts, Alone, TypeOK, Next
  PROVE  Alone'
<1>1. CASE Mount \/ MountFails \/ Read \/ ReadFails \/ CountBoot \/ OpenTable
  BY <1>1 DEF Alone, TypeOK, Mount, MountFails, Read, ReadFails, CountBoot, OpenTable, AfterRead
<1>2. CASE Broadcast
  <2>1. store' = store /\ main'.pc = "read" /\ queue' = queue
    BY <1>2 DEF Broadcast, Publish, Alone, TypeOK
  <2>2. store = "start" /\ queue = <<>>
    BY <1>2 DEF Broadcast, Alone
  <2>3. QED
    BY <2>1, <2>2 DEF Alone
<1>3. CASE Attach \/ AttachFails
  BY <1>3 DEF Attach, AttachFails, OthersRun, Alone
<1>4. CASE Handle
  <2>1. UNCHANGED <<main, store>> /\ queue # <<>>
    BY <1>4 DEF Handle
  <2>2. \A k \in DOMAIN queue' : queue'[k] \in Traffic
    BY <1>4, HandledPoint DEF Alone
  <2>3. QED
    BY <2>1, <2>2 DEF Alone
<1>5. CASE \E p \in Traffic : PublishOther(p)
  <2>1. PICK p \in Traffic : PublishOther(p)
    BY <1>5
  <2>2. UNCHANGED <<main, store>> /\ store # "start" /\ p \in Point
    BY <2>1, NvsAssumption DEF PublishOther
  <2>3. CASE queue' = queue
    BY <2>2, <2>3 DEF Alone
  <2>4. CASE queue' = Append(queue, p)
    <3>1. \A k \in DOMAIN queue' : k \in DOMAIN queue \/ queue'[k] = p
      BY <2>2, <2>4, AppendedPoint
    <3>2. \A k \in DOMAIN queue' : queue'[k] \in Traffic
      BY <2>2, <2>4, <3>1, AppendedPoint DEF Alone
    <3>3. QED
      BY <2>2, <3>2 DEF Alone
  <2>5. QED
    BY <2>1, <2>3, <2>4 DEF PublishOther, Publish
<1>6. CASE Restart
  BY <1>6 DEF Restart, Alone
<1>7. CASE Idle
  BY <1>7 DEF Idle, vars, Alone
<1>8. QED
  BY <1>1, <1>2, <1>3, <1>4, <1>5, <1>6, <1>7 DEF Next, NvsInit

\* The boot counts published so far climb, and stay below what the flash has for b,
\* until that, in turn, is published.
Climbs(b) ==
  /\ \A k \in DOMAIN boots \ {1} : boots[k - 1] < boots[k]
  /\ \A k \in DOMAIN boots : boots[k] < Kept(b)
  /\ main.pc = "count" => main.val = Kept(b)
  /\ main.pc = "publish" /\ main.at = b =>
       main.val + 1 = Kept(b) /\ \A k \in DOMAIN boots : boots[k] < main.val

LEMMA BootCountsTyped ==
  ASSUME TypeOK
  PROVE  /\ Len(boots) \in Nat /\ DOMAIN boots = 1..Len(boots)
         /\ \A k \in DOMAIN boots : boots[k] \in Nat
         /\ main.val \in Nat
<1>1. boots \in Seq(Values) /\ Values \subseteq Nat /\ main.val \in Values
  BY DataTypesOf DEF TypeOK
<1>2. QED
  BY <1>1, LenProperties, ElementOfSeq

\* A boot count that is read, or found missing, is not below any earlier one; it
\* goes up in flash, and then its old value is published.
LEMMA ClimbsStep ==
  ASSUME HostLeavesCount, ~Preempts, TypeOK, BootShape, Alone, Next,
         NEW b \in Settings, ThisBootCount(b), b \notin faulted', Climbs(b)
  PROVE  Climbs(b)'
<1>1. b \in Nat /\ Table[b].dt = "INT"
  BY TableEntries DEF ThisBootCount
<1>2. /\ Len(boots) \in Nat /\ DOMAIN boots = 1..Len(boots)
      /\ \A k \in DOMAIN boots : boots[k] \in Nat
      /\ main.val \in Nat
  BY BootCountsTyped
<1>3. DOMAIN flash = Settings /\ DOMAIN main = {"pc", "at", "val"}
  BY DEF BootShape
<1>4. CASE Read
  <2>1. /\ UNCHANGED <<flash, boots>>
        /\ main.at \in Settings /\ main'.at = main.at
        /\ main'.val = Kept(main.at)
        /\ main'.pc = IF ThisBootCount(main.at) THEN "count" ELSE "publish"
    BY <1>3, <1>4 DEF Read, AfterRead, history, Kept
  <2>2. Kept(b)' = Kept(b)
    BY <2>1 DEF Kept, ReadAs
  <2>3. main'.pc = "count" => main.at = b
    BY <2>1, TableEntries
  <2>4. ~(main'.pc = "publish" /\ main'.at = b)
    BY <2>1
  <2>5. QED
    BY <2>1, <2>2, <2>3, <2>4 DEF Climbs
<1>5. CASE ReadFails
  <2>1. /\ UNCHANGED boots /\ main.pc = "read"
        /\ main.at \in Settings /\ main'.at = main.at /\ main'.val = 0
        /\ main'.pc = IF ThisBootCount(main.at) THEN "count" ELSE "publish"
    BY <1>3, <1>5 DEF ReadFails, AfterRead
  <2>2. CASE main.at = b
    <3>1. flash[b] = Missing /\ flash'[b] = [dt |-> "INT", val |-> 0]
      BY <1>1, <1>3, <1>5, <2>2 DEF ReadFails
    <3>2. Kept(b) = 0 /\ Kept(b)' = 0
      BY <1>1, <3>1 DEF Kept, ReadAs, Missing
    <3>3. QED
      BY <2>1, <2>2, <3>2 DEF Climbs
  <2>3. CASE main.at # b
    <3>1. flash'[b] = flash[b]
      BY <1>3, <1>5, <2>3 DEF ReadFails
    <3>2. Kept(b)' = Kept(b)
      BY <3>1 DEF Kept, ReadAs
    <3>3. main'.pc # "count"
      BY <2>1, <2>3, TableEntries
    <3>4. QED
      BY <2>1, <2>3, <3>2, <3>3 DEF Climbs
  <2>4. QED
    BY <2>2, <2>3
<1>6. CASE CountBoot
  <2>1. /\ UNCHANGED boots /\ main.pc = "count" /\ main.at \in Settings
        /\ ThisBootCount(main.at)
        /\ main'.at = main.at /\ main'.val = main.val /\ main'.pc = "publish"
    BY <1>3, <1>6 DEF CountBoot, BootShape
  <2>2. main.at = b
    BY <2>1, TableEntries
  <2>3. flash'[b] = [dt |-> "INT", val |-> main.val + 1]
    BY <1>3, <1>6, <2>2 DEF CountBoot, Write
  <2>4. main.val = Kept(b) /\ Kept(b)' = main.val + 1
    BY <1>1, <2>1, <2>3 DEF Climbs, Kept, ReadAs
  <2>5. \A k \in DOMAIN boots : boots[k] < main.val /\ boots[k] < main.val + 1
    BY <1>2, <2>4 DEF Climbs
  <2>6. QED
    BY <2>1, <2>4, <2>5 DEF Climbs
<1>7. CASE Broadcast
  <2>1. /\ UNCHANGED flash /\ main.pc = "publish" /\ main.at \in Settings
        /\ main'.pc = "read"
        /\ boots' = IF ThisBootCount(main.at) THEN Append(boots, main.val) ELSE boots
    BY <1>7 DEF Broadcast, BootShape
  <2>2. Kept(b)' = Kept(b)
    BY <2>1 DEF Kept, ReadAs
  <2>3. CASE boots' = boots
    BY <2>1, <2>2, <2>3 DEF Climbs
  <2>4. CASE ThisBootCount(main.at)
    <3>1. main.at = b
      BY <2>1, <2>4, TableEntries
    <3>2. /\ main.val + 1 = Kept(b)
          /\ \A k \in DOMAIN boots : boots[k] < main.val /\ boots[k] < Kept(b)
      BY <2>1, <3>1 DEF Climbs
    <3>3. boots \in Seq(Values) /\ main.val \in Values
      BY DEF TypeOK
    <3>4. /\ DOMAIN boots' = 1..(Len(boots) + 1)
          /\ \A k \in 1..Len(boots) : boots'[k] = boots[k]
          /\ boots'[Len(boots) + 1] = main.val
      BY <2>1, <2>4, <3>3, AppendProperties, LenProperties
    <3>5. ASSUME NEW k \in DOMAIN boots' PROVE boots'[k] < Kept(b)
      <4>1. CASE k = Len(boots) + 1
        BY <1>2, <3>2, <3>4, <4>1
      <4>2. CASE k \in 1..Len(boots)
        BY <1>2, <3>2, <3>4, <4>2
      <4>3. QED
        BY <1>2, <3>4, <4>1, <4>2
    <3>6. ASSUME NEW k \in DOMAIN boots' \ {1} PROVE boots'[k - 1] < boots'[k]
      <4>1. k - 1 \in 1..Len(boots)
        BY <1>2, <3>4
      <4>2. CASE k = Len(boots) + 1
        BY <1>2, <3>2, <3>4, <4>1, <4>2
      <4>3. CASE k \in 1..Len(boots)
        BY <1>2, <3>4, <4>1, <4>3 DEF Climbs
      <4>4. QED
        BY <1>2, <3>4, <4>2, <4>3
    <3>7. QED
      BY <2>1, <2>2, <3>5, <3>6 DEF Climbs
  <2>5. QED
    BY <2>1, <2>3, <2>4
<1>8. CASE Handle
  <2>1. UNCHANGED <<main, boots>>
    BY <1>8 DEF Handle
  <2>2. Head(queue) \in Traffic
    BY <1>8, HandledPoint DEF Alone
  <2>3. b \notin EntryOf(Head(queue))
    BY <2>2 DEF HostLeavesCount, EntryOf, Id, ThisBootCount
  <2>4. flash'[b] = flash[b]
    BY <1>3, <1>8, <2>3 DEF Handle, Save, Write
  <2>5. Kept(b)' = Kept(b)
    BY <2>4 DEF Kept, ReadAs
  <2>6. QED
    BY <2>1, <2>5 DEF Climbs
<1>9. CASE UNCHANGED <<flash, boots>> /\ main'.pc \notin {"count", "publish"}
  <2>1. Kept(b)' = Kept(b)
    BY <1>9 DEF Kept, ReadAs
  <2>2. QED
    BY <1>9, <2>1 DEF Climbs
<1>10. CASE UNCHANGED <<flash, boots, main>>
  <2>1. Kept(b)' = Kept(b)
    BY <1>10 DEF Kept, ReadAs
  <2>2. QED
    BY <1>10, <2>1 DEF Climbs
<1>11. CASE Mount \/ MountFails \/ OpenTable \/ Restart
  <2>1. UNCHANGED <<flash, boots>> /\ main'.pc \notin {"count", "publish"}
    BY <1>3, <1>11 DEF Mount, MountFails, OpenTable, Restart, history
  <2>2. QED
    BY <1>9, <2>1
<1>12. CASE Attach \/ AttachFails \/ Idle \/ \E p \in Traffic : PublishOther(p)
  <2>1. UNCHANGED <<flash, boots, main>>
    BY <1>12 DEF Attach, AttachFails, Idle, PublishOther, history, vars
  <2>2. QED
    BY <1>10, <2>1
<1>13. QED
  BY <1>4, <1>5, <1>6, <1>7, <1>8, <1>11, <1>12 DEF Next, NvsInit

CountsClimb ==
  /\ boots # <<>> => \E b \in Settings : ThisBootCount(b)
  /\ \A b \in Settings \ faulted : ThisBootCount(b) => Climbs(b)

ClimbInv == TypeInv /\ Alone /\ CountsClimb

LEMMA ClimbInvInit == Init => ClimbInv
<1> SUFFICES ASSUME Init PROVE ClimbInv
  OBVIOUS
<1>1. TypeInv
  BY TypeInvInit
<1>2. Alone
  BY DEF Init, Alone
<1>3. boots = <<>> /\ DOMAIN boots = {} /\ main.pc = "mount"
  BY DEF Init
<1>4. CountsClimb
  BY <1>3 DEF CountsClimb, Climbs
<1>5. QED
  BY <1>1, <1>2, <1>4 DEF ClimbInv

LEMMA ClimbInvStep ==
  ASSUME HostLeavesCount, ~Preempts
  PROVE  ClimbInv /\ [Next]_vars => ClimbInv'
<1> SUFFICES ASSUME ClimbInv, [Next]_vars PROVE ClimbInv'
  OBVIOUS
<1>1. TypeInv'
  BY TypeInvStep DEF ClimbInv
<1>2. CASE Next
  <2>1. Alone'
    BY <1>2, AloneStep DEF ClimbInv, TypeInv
  <2>2. faulted \subseteq faulted'
    BY <1>2 DEF Next, NvsInit, Mount, MountFails, Read, ReadFails, CountBoot, Write, Broadcast,
                OpenTable, Attach, AttachFails, Handle, Save, PublishOther, Restart, Idle,
                vars, history, faults
  <2>3. \A b \in Settings \ faulted' : ThisBootCount(b) => Climbs(b)'
    BY <1>2, <2>2, ClimbsStep DEF ClimbInv, TypeInv, CountsClimb
  <2>4. boots' = boots \/ \E b \in Settings : ThisBootCount(b)
    BY <1>2 DEF Next, NvsInit, Mount, MountFails, Read, ReadFails, CountBoot, Broadcast,
                OpenTable, Attach, AttachFails, Handle, PublishOther, Restart, Idle,
                vars, history, faults, ClimbInv, TypeInv, BootShape
  <2>5. QED
    BY <1>1, <2>1, <2>3, <2>4 DEF ClimbInv, CountsClimb
<1>3. CASE UNCHANGED vars
  BY <1>1, <1>3 DEF vars, history, ClimbInv, Alone, CountsClimb, Climbs, Kept, ReadAs
<1>4. QED
  BY <1>2, <1>3

\* If nobody else publishes the boot count, and other threads do not run while
\* nvs_init waits for the flash, then no boot publishes the count of an earlier
\* one, wherever the power failed, unless reading or writing it did.
THEOREM CountsNeverRepeat ==
  ASSUME HostLeavesCount, ~Preempts
  PROVE  Spec => []BootCountClimbs
<1>1. ClimbInv => BootCountClimbs
  <2> SUFFICES ASSUME ClimbInv, {i \in faulted : ThisBootCount(i)} = {},
                      NEW k \in DOMAIN boots \ {1}
               PROVE  boots[k - 1] < boots[k]
    BY DEF BootCountClimbs
  <2>1. boots # <<>>
    OBVIOUS
  <2>2. PICK b \in Settings : ThisBootCount(b)
    BY <2>1 DEF ClimbInv, CountsClimb
  <2>3. Climbs(b)
    BY <2>2 DEF ClimbInv, CountsClimb
  <2>4. QED
    BY <2>3 DEF Climbs
<1>2. Init => ClimbInv
  BY ClimbInvInit
<1>3. ClimbInv /\ [Next]_vars => ClimbInv'
  BY ClimbInvStep
<1>4. QED
  BY <1>1, <1>2, <1>3, PTL DEF Spec

(***************************************************************************)
(* What is shown is what is saved                                          *)
(***************************************************************************)

\* What every cache shows for setting i is in flash, or its last write failed.
KeptAsShown(i) == i \in unsaved \/ Kept(i) = shown[i]

Waiting(i) == {k \in DOMAIN queue : Id(queue[k]) = Id(Table[i])}

\* The last point waiting for setting i brings what is shown.
Brings(i) == \E k \in Waiting(i) : queue[k].val = shown[i] /\ \A m \in Waiting(i) : m <= k

\* The settings that nvs_init has published are kept as shown; the one in hand will
\* be; and once the store is in service one is kept as shown, or will be when what
\* waits for it has been written.
SavedFor(i) ==
  /\ main.pc \in {"read", "count", "publish"} /\ i < main.at => KeptAsShown(i)
  /\ main.pc = "publish" /\ i = main.at => i \in unsaved \/ main.val = Kept(i)
  /\ main.pc = "done" /\ store # "deaf" =>
       (IF Waiting(i) = {} THEN KeptAsShown(i) ELSE Brings(i))

AllSaved ==
  /\ main.pc = "mount" => main.at = 1
  /\ \A i \in Settings : ~ThisBootCount(i) => SavedFor(i)

SavedInv == TypeInv /\ Alone /\ AllSaved

\* The steps that touch neither what is stored, shown, nor waiting.
LEMMA KeptAsShownStays ==
  ASSUME NEW i \in Settings, flash'[i] = flash[i], shown'[i] = shown[i],
         i \in unsaved => i \in unsaved'
  PROVE  KeptAsShown(i) => KeptAsShown(i)'
BY DEF KeptAsShown, Kept, ReadAs

\* A setting while nvs_init runs.
LEMMA SavedForBoot ==
  ASSUME TypeInv, Alone, AllSaved, NvsInit,
         NEW i \in Settings, ~ThisBootCount(i)
  PROVE  SavedFor(i)'
<1>1. /\ DOMAIN flash = Settings /\ DOMAIN main = {"pc", "at", "val"}
      /\ main.at \in Nat /\ i \in 1..Len(Table) /\ Len(Table) \in Nat
      /\ main.at \in 1..(Len(Table) + 1) /\ Settings = 1..Len(Table)
  BY TableEntries, DataTypesOf DEF TypeInv, BootShape, TypeOK
<1>2. SavedFor(i)
  BY DEF AllSaved
<1>3. CASE Mount \/ MountFails
  BY <1>1, <1>3 DEF Mount, MountFails, AllSaved, SavedFor
<1>4. CASE Read
  <2>1. /\ UNCHANGED <<flash, shown, unsaved>> /\ main.pc = "read"
        /\ main'.at = main.at /\ main'.val = Kept(main.at)
        /\ main'.pc \in {"count", "publish"}
    BY <1>1, <1>4 DEF Read, AfterRead, history, Kept
  <2>2. Kept(i)' = Kept(i)
    BY <2>1 DEF Kept, ReadAs
  <2>3. QED
    BY <1>2, <2>1, <2>2 DEF SavedFor, KeptAsShown
<1>5. CASE ReadFails
  <2>1. /\ UNCHANGED shown /\ main.pc = "read"
        /\ main'.at = main.at /\ main'.val = 0
        /\ main'.pc \in {"count", "publish"}
    BY <1>1, <1>5 DEF ReadFails, AfterRead
  <2>2. CASE i = main.at
    <3>1. i \in unsaved' \/ flash'[i] = [dt |-> Table[i].dt, val |-> 0]
      BY <1>1, <1>5, <2>2 DEF ReadFails
    <3>2. i \in unsaved' \/ Kept(i)' = 0
      BY <3>1 DEF Kept, ReadAs
    <3>3. QED
      BY <1>1, <2>1, <2>2, <3>2 DEF SavedFor
  <2>3. CASE i # main.at
    <3>1. flash'[i] = flash[i] /\ (i \in unsaved => i \in unsaved')
      BY <1>1, <1>5, <2>3 DEF ReadFails
    <3>2. i < main.at => KeptAsShown(i)'
      BY <1>2, <2>1, <3>1, KeptAsShownStays DEF SavedFor
    <3>3. QED
      BY <2>1, <2>3, <3>2 DEF SavedFor
  <2>4. QED
    BY <2>2, <2>3
<1>6. CASE CountBoot
  <2>1. /\ UNCHANGED shown /\ main.pc = "count" /\ ThisBootCount(main.at)
        /\ main'.at = main.at /\ main'.pc = "publish"
    BY <1>1, <1>6 DEF CountBoot, TypeInv, BootShape
  <2>2. i # main.at
    BY <2>1
  <2>3. flash'[i] = flash[i] /\ (i \in unsaved => i \in unsaved')
    BY <1>1, <1>6, <2>2 DEF CountBoot, Write
  <2>4. i < main.at => KeptAsShown(i)'
    BY <1>2, <2>1, <2>3, KeptAsShownStays DEF SavedFor
  <2>5. QED
    BY <2>1, <2>2, <2>4 DEF SavedFor
<1>7. CASE Broadcast
  <2> DEFINE p == [type |-> Table[main.at].type, key |-> Table[main.at].key,
                   dt |-> Table[main.at].dt, val |-> main.val]
  <2>1. /\ UNCHANGED <<flash, unsaved>> /\ main.pc = "publish" /\ main.at \in Settings
        /\ main'.pc = "read" /\ main'.at = main.at + 1
        /\ Publish(p)
    BY <1>7 DEF Broadcast, faults, TypeInv, BootShape
  <2>2. /\ Known(p) /\ Normalised(p) = p /\ p.val = main.val /\ EntryOf(p) = {main.at}
    BY <2>1, SettingPoint, DataTypesOf DEF TypeInv
  <2> HIDE DEF p
  <2>3. shown'[i] = IF i = main.at THEN main.val ELSE shown[i]
    BY <2>1, <2>2 DEF Publish
  <2>4. Kept(i)' = Kept(i)
    BY <2>1 DEF Kept, ReadAs
  <2>5. CASE i = main.at
    BY <1>1, <1>2, <2>1, <2>3, <2>4, <2>5 DEF SavedFor, KeptAsShown
  <2>6. CASE i # main.at
    <3>1. i < main.at + 1 => i < main.at
      BY <1>1, <2>6
    <3>2. QED
      BY <1>2, <2>1, <2>3, <2>4, <2>6, <3>1 DEF SavedFor, KeptAsShown
  <2>7. QED
    BY <2>5, <2>6
<1>8. CASE OpenTable
  <2>1. /\ UNCHANGED <<flash, shown, unsaved, queue>> /\ main.pc = "read" /\ main'.pc = "done"
        /\ main.at \notin Settings
    BY <1>1, <1>8 DEF OpenTable, history
  <2>2. i < main.at
    BY <1>1, <2>1
  <2>3. KeptAsShown(i)'
    BY <1>2, <2>1, <2>2, KeptAsShownStays DEF SavedFor
  <2>4. queue' = <<>>
    BY <2>1 DEF Alone
  <2>5. Waiting(i)' = {}
    BY <2>4 DEF Waiting
  <2>6. QED
    BY <2>1, <2>3, <2>5 DEF SavedFor
<1>9. QED
  BY <1>3, <1>4, <1>5, <1>6, <1>7, <1>8 DEF NvsInit

\* A point that another thread publishes for a setting is that setting's, and what
\* the store writes of it is what it shows.
LEMMA FittingPoint ==
  ASSUME TrafficFits, NEW p \in Traffic, NEW i \in Settings
  PROVE  /\ i \in EntryOf(Normalised(p)) <=> Id(p) = Id(Table[i])
         /\ Id(p) = Id(Table[i]) => Known(p) /\ ReadAs(i, Written(p)) = p.val
<1>1. p \in Point /\ Table[i].key \in Keys /\ Table[i].dt \in {"FLT", "INT", "STR"}
  BY NvsAssumption, TableEntries
<1>2. Id(p) = Id(Table[i]) => Normalised(p) = p
  BY <1>1, PointsAssumption DEF Id, Normalised, Point
<1>3. Id(Normalised(p)) = Id(Table[i]) => Normalised(p) = p /\ p.dt = Table[i].dt
  BY DEF TrafficFits
<1>4. i \in EntryOf(Normalised(p)) <=> Id(p) = Id(Table[i])
  BY <1>2, <1>3 DEF EntryOf
<1>5. Id(p) = Id(Table[i]) => p.dt = Table[i].dt
  BY <1>2, <1>3
<1>6. Id(p) = Id(Table[i]) => Known(p) /\ ReadAs(i, Written(p)) = p.val
  BY <1>1, <1>5 DEF Known, KnownTypes, ReadAs, Written
<1>7. QED
  BY <1>4, <1>6

\* The store thread writes the last point of a setting last.
LEMMA SavedForHandle ==
  ASSUME TrafficFits, ~Preempts, TypeInv, Alone, AllSaved, Handle,
         NEW i \in Settings, ~ThisBootCount(i)
  PROVE  SavedFor(i)'
<1> DEFINE p == Head(queue)
<1>1. /\ UNCHANGED <<main, store, shown>> /\ main.pc \in {"done", "failed"}
      /\ DOMAIN flash = Settings
  BY DEF Handle, OthersRun, TypeInv, BootShape
<1>2. /\ p = queue[1] /\ 1 \in DOMAIN queue /\ p \in Traffic
      /\ DOMAIN queue \subseteq Nat \ {0}
      /\ \A k \in DOMAIN queue' : k + 1 \in DOMAIN queue /\ queue'[k] = queue[k + 1]
      /\ \A k \in DOMAIN queue : k = 1 \/ k - 1 \in DOMAIN queue'
  BY HandledPoint DEF Alone, TypeInv
<1>3. SUFFICES ASSUME main.pc = "done", store # "deaf"
               PROVE  (IF Waiting(i) = {} THEN KeptAsShown(i) ELSE Brings(i))'
  BY <1>1 DEF SavedFor
<1>4. IF Waiting(i) = {} THEN KeptAsShown(i) ELSE Brings(i)
  BY <1>3 DEF AllSaved, SavedFor
<1>5. table \/ UNCHANGED <<flash, faults>>
  BY DEF Handle
<1>6. i \notin EntryOf(p) => flash'[i] = flash[i] /\ (i \in unsaved => i \in unsaved')
  BY <1>1 DEF Handle, Save, Write, faults
<1>7. CASE \E k \in Waiting(i)' : TRUE
  <2>1. PICK k \in DOMAIN queue' : Id(queue'[k]) = Id(Table[i])
    BY <1>7 DEF Waiting
  <2>2. k + 1 \in Waiting(i)
    BY <1>2, <2>1 DEF Waiting
  <2>3. PICK n \in Waiting(i) : queue[n].val = shown[i] /\ \A m \in Waiting(i) : m <= n
    BY <1>4, <2>2 DEF Brings
  <2>4. n \in Nat /\ k \in Nat /\ n # 1 /\ n - 1 \in DOMAIN queue' /\ (n - 1) + 1 = n
    <3>1. n \in DOMAIN queue /\ n \in Nat /\ k + 1 <= n
      BY <1>2, <2>2, <2>3 DEF Waiting
    <3>2. k \in DOMAIN queue' /\ k + 1 \in Nat \ {0} /\ k \in Nat \ {0}
      <4>1. queue' \in Seq(Point)
        BY HandledPoint, HeadTailProperties DEF Handle, TypeInv, TypeOK
      <4>2. QED
        BY <2>1, <4>1, LenProperties
    <3>3. QED
      BY <1>2, <3>1, <3>2
  <2>5. n - 1 \in Waiting(i)' /\ queue'[n - 1].val = shown'[i]
    BY <1>1, <1>2, <2>3, <2>4 DEF Waiting
  <2>6. ASSUME NEW m \in Waiting(i)' PROVE m <= n - 1
    <3>1. m + 1 \in Waiting(i) /\ m \in DOMAIN queue'
      BY <1>2, <2>6 DEF Waiting
    <3>2. m \in Nat
      <4>1. queue' \in Seq(Point)
        BY HandledPoint, HeadTailProperties DEF Handle, TypeInv, TypeOK
      <4>2. QED
        BY <3>1, <4>1, LenProperties
    <3>3. m + 1 <= n
      BY <2>3, <3>1
    <3>4. QED
      BY <2>4, <3>2, <3>3
  <2>7. Brings(i)' /\ Waiting(i)' # {}
    BY <2>5, <2>6 DEF Brings
  <2>8. QED
    BY <2>7
<1>8. CASE Waiting(i)' = {} /\ i \in EntryOf(p)
  <2>1. 1 \in Waiting(i) /\ Id(p) = Id(Table[i])
    BY <1>2, <1>8 DEF EntryOf, Waiting
  <2>2. \A k \in Waiting(i) : k = 1
    BY <1>2, <1>8 DEF Waiting
  <2>3. shown[i] = p.val
    BY <1>2, <1>4, <2>1, <2>2 DEF Brings
  <2>4. EntryOf(p) = {i}
    BY <1>8, TableEntries DEF EntryOf
  <2>5. PICK done \in BOOLEAN : Write(i, Written(p), done)
    BY <1>3, <1>8, <2>4 DEF Handle, Save, TypeInv, BootShape
  <2>6. i \in unsaved' \/ flash'[i] = Written(p)
    BY <1>1, <2>5 DEF Write
  <2>7. ReadAs(i, Written(p)) = p.val
    BY <1>2, <2>1, FittingPoint
  <2>8. KeptAsShown(i)'
    BY <1>1, <2>3, <2>6, <2>7 DEF KeptAsShown, Kept, ReadAs
  <2>9. QED
    BY <1>8, <2>8
<1>9. CASE Waiting(i)' = {} /\ i \notin EntryOf(p)
  <2>1. 1 \notin Waiting(i)
    BY <1>2, <1>9 DEF EntryOf, Waiting
  <2>2. Waiting(i) = {}
    BY <1>2, <1>9, <2>1 DEF Waiting
  <2>3. KeptAsShown(i)'
    BY <1>1, <1>4, <1>6, <1>9, <2>2, KeptAsShownStays
  <2>4. QED
    BY <1>9, <2>3
<1>10. QED
  BY <1>7, <1>8, <1>9

\* What another thread publishes for a setting waits last, if the store hears it.
LEMMA SavedForPublish ==
  ASSUME TrafficFits, ~Preempts, TypeInv, Alone, AllSaved,
         NEW p \in Traffic, PublishOther(p),
         NEW i \in Settings, ~ThisBootCount(i)
  PROVE  SavedFor(i)'
<1>1. /\ UNCHANGED <<flash, main, store, unsaved>> /\ main.pc \in {"done", "failed"}
      /\ Publish(p) /\ store # "start" /\ p \in Point
      /\ store \in {"start", "attached", "deaf"}
  BY NvsAssumption DEF PublishOther, OthersRun, faults, TypeInv, TypeOK
<1>2. SUFFICES ASSUME main.pc = "done", store = "attached"
               PROVE  (IF Waiting(i) = {} THEN KeptAsShown(i) ELSE Brings(i))'
  BY <1>1 DEF SavedFor
<1>3. IF Waiting(i) = {} THEN KeptAsShown(i) ELSE Brings(i)
  BY <1>2 DEF AllSaved, SavedFor
<1>4. queue' = Append(queue, p)
  BY <1>1, <1>2 DEF Publish
<1>5. /\ Len(queue) \in Nat /\ DOMAIN queue = 1..Len(queue)
      /\ DOMAIN queue' = 1..(Len(queue) + 1)
      /\ queue'[Len(queue) + 1] = p
      /\ \A k \in DOMAIN queue : queue'[k] = queue[k]
  BY <1>1, <1>4, AppendedPoint DEF TypeInv
<1>6. i \in EntryOf(Normalised(p)) <=> Id(p) = Id(Table[i])
  BY FittingPoint
<1>7. CASE Id(p) = Id(Table[i])
  <2>1. shown'[i] = p.val
    BY <1>1, <1>6, <1>7, FittingPoint DEF Publish, EntryOf
  <2>2. Len(queue) + 1 \in Waiting(i)'
    BY <1>5, <1>7 DEF Waiting
  <2>3. \A m \in Waiting(i)' : m <= Len(queue) + 1
    BY <1>5 DEF Waiting
  <2>4. QED
    BY <1>5, <2>1, <2>2, <2>3 DEF Brings
<1>8. CASE Id(p) # Id(Table[i])
  <2>1. shown'[i] = shown[i]
    BY <1>1, <1>6, <1>8 DEF Publish
  <2>2. Waiting(i)' = Waiting(i)
    <3>1. Len(queue) + 1 \notin Waiting(i)' /\ Len(queue) + 1 \notin Waiting(i)
      BY <1>5, <1>8 DEF Waiting
    <3>2. \A k \in DOMAIN queue' : k \in DOMAIN queue \/ k = Len(queue) + 1
      BY <1>5
    <3>3. QED
      BY <1>5, <3>1, <3>2 DEF Waiting
  <2>3. CASE Waiting(i) = {}
    BY <1>1, <1>3, <2>1, <2>2, <2>3, KeptAsShownStays
  <2>4. CASE Waiting(i) # {}
    <3>1. Brings(i)
      BY <1>3, <2>4
    <3>2. \A k \in Waiting(i) : queue'[k] = queue[k]
      BY <1>5 DEF Waiting
    <3>3. Brings(i)'
      BY <2>1, <2>2, <3>1, <3>2 DEF Brings
    <3>4. QED
      BY <2>2, <2>4, <3>3
  <2>5. QED
    BY <2>3, <2>4
<1>9. QED
  BY <1>7, <1>8

LEMMA SavedInvStep ==
  ASSUME HostLeavesCount, TrafficFits, ~Preempts
  PROVE  SavedInv /\ [Next]_vars => SavedInv'
<1> SUFFICES ASSUME SavedInv, [Next]_vars PROVE SavedInv'
  OBVIOUS
<1>1. TypeInv'
  BY TypeInvStep DEF SavedInv
<1>2. CASE Next
  <2>1. Alone'
    BY <1>2, AloneStep DEF SavedInv, TypeInv
  <2>2. main'.pc = "mount" => main'.at = 1
    <3>1. CASE NvsInit
      <4>1. DOMAIN main = {"pc", "at", "val"}
        BY DEF SavedInv, TypeInv, BootShape
      <4>2. main'.pc # "mount"
        <5>1. CASE Read \/ ReadFails
          BY <4>1, <5>1 DEF Read, ReadFails, AfterRead
        <5>2. CASE Mount \/ MountFails \/ CountBoot \/ Broadcast \/ OpenTable
          BY <4>1, <5>2 DEF Mount, MountFails, CountBoot, Broadcast, OpenTable
        <5>3. QED
          BY <3>1, <5>1, <5>2 DEF NvsInit
      <4>3. QED
        BY <4>2
    <3>2. CASE Restart
      BY <3>2 DEF Restart
    <3>3. CASE Attach \/ AttachFails \/ Handle \/ Idle \/ \E p \in Traffic : PublishOther(p)
      <4>1. main' = main
        BY <3>3 DEF Attach, AttachFails, Handle, PublishOther, Idle, vars
      <4>2. QED
        BY <4>1 DEF SavedInv, AllSaved
    <3>4. QED
      BY <1>2, <3>1, <3>2, <3>3 DEF Next
  <2>3. ASSUME NEW i \in Settings, ~ThisBootCount(i) PROVE SavedFor(i)'
    <3>1. CASE NvsInit
      BY <2>3, <3>1, SavedForBoot DEF SavedInv
    <3>2. CASE Handle
      BY <2>3, <3>2, SavedForHandle DEF SavedInv
    <3>3. CASE \E p \in Traffic : PublishOther(p)
      BY <2>3, <3>3, SavedForPublish DEF SavedInv
    <3>4. CASE Restart
      BY <3>4 DEF Restart, SavedFor
    <3>5. CASE Attach \/ AttachFails \/ Idle
      <4>1. UNCHANGED <<flash, main, queue, shown, unsaved>>
            /\ (store' # "deaf" => store # "deaf")
        BY <3>5 DEF Attach, AttachFails, Idle, history, vars
      <4>2. SavedFor(i)
        BY <2>3 DEF SavedInv, AllSaved
      <4>3. QED
        BY <4>1, <4>2 DEF SavedFor, KeptAsShown, Kept, ReadAs, Waiting, Brings
    <3>6. QED
      BY <1>2, <3>1, <3>2, <3>3, <3>4, <3>5 DEF Next
  <2>4. QED
    BY <1>1, <2>1, <2>2, <2>3 DEF SavedInv, AllSaved
<1>3. CASE UNCHANGED vars
  BY <1>1, <1>3 DEF vars, history, SavedInv, Alone, AllSaved, SavedFor, KeptAsShown, Kept,
                    ReadAs, Waiting, Brings
<1>4. QED
  BY <1>2, <1>3

\* If publishers name the key of a setting and give it its data type, and other
\* threads do not run while nvs_init waits for the flash, then once the store has
\* dealt with what it received, every cache shows what a restart would bring back,
\* but for a setting whose last write failed.
THEOREM ShownIsKept ==
  ASSUME HostLeavesCount, TrafficFits, ~Preempts
  PROVE  Spec => []ShownIsSaved
<1>1. Init => SavedInv
  BY TypeInvInit DEF Init, SavedInv, Alone, AllSaved, SavedFor
<1>2. SavedInv /\ [Next]_vars => SavedInv'
  BY SavedInvStep
<1>3. SavedInv => ShownIsSaved
  <2> SUFFICES ASSUME SavedInv, Quiet, NEW i \in Settings \ unsaved, ~ThisBootCount(i)
               PROVE  Kept(i) = shown[i]
    BY DEF ShownIsSaved, Kept
  <2>1. SavedFor(i)
    BY DEF SavedInv, AllSaved
  <2>2. Waiting(i) = {}
    BY DEF Quiet, Waiting
  <2>3. QED
    BY <2>1, <2>2 DEF SavedFor, KeptAsShown, Quiet
<1>4. QED
  BY <1>1, <1>2, <1>3, PTL DEF Spec
=============================================================================
