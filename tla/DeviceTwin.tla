----------------------------- MODULE DeviceTwin -----------------------------
(***************************************************************************)
(* The device twin module of an edge node (edge/pkg/devicetwin): the       *)
(* goroutines MemWorker, TwinWorker and DeviceWorker, each with a channel  *)
(* of messages, the list of devices in memory, its copy in sqlite, and the *)
(* locks of DTContext.  The fourth goroutine, CommWorker, takes what the   *)
(* others send, and is left out.                                           *)
(*                                                                         *)
(* DTContext.Lock takes a read lock of the whole context and the mutex of  *)
(* the device, each time looked up in DeviceMutex; a membership detail     *)
(* takes the write lock.  Membership updates take no lock.                 *)
(*                                                                         *)
(* All goroutines use one ormer of the beego ORM, so there is one          *)
(* transaction at a time, and Begin, Commit and Rollback act on it whoever *)
(* began it.  The errors of Begin, Commit and Rollback are ignored: after  *)
(* a failed Commit or Rollback the ormer keeps a transaction that is over, *)
(* and every statement fails until edgecore is started again.              *)
(*                                                                         *)
(* runDeviceTwin starts a worker again whose last answer to a heartbeat is *)
(* over two minutes old, whether its goroutine is gone or only busy, but   *)
(* not one that never answered.                                            *)
(***************************************************************************)
EXTENDS TwinState, Sequences, FiniteSets, TLC

CONSTANTS Devices, States,
          ChannelSize,
          RetryTimes,
          Over,            \* the ormer's transaction is over, and the ormer keeps it
          MaxGoroutines,   \* bound on the goroutines of a worker at one time
          MaxMutex,        \* bound on the mutexes made for added devices
          MaxFaults        \* bound on the times sqlite starts to fail, edgecore ends or a worker is slow

ASSUME TwinBounds ==
  {ChannelSize, RetryTimes, MaxGoroutines, MaxMutex} \subseteq Nat \ {0} /\ MaxFaults \in Nat

Workers == {"mem", "twin", "dev"}

\* DTModule.Start of a worker, each time it is called.
Goroutines == Workers \X (1..MaxGoroutines)
Name(w) == w[1]
Mem == {w \in Goroutines : Name(w) = "mem"}

VARIABLES
  list,      \* DeviceList: the devices in memory
  db,        \* sqlite as the ormer sees it
  tx,        \* the open transaction (sqlite when it began, and who wrote since), None or Over
  mutex,     \* DeviceMutex: the mutex of a device
  locked,    \* the mutexes that are locked
  made,      \* mutexes made so far
  readers,   \* read locks of DTContext.Mutex
  work,      \* work[w]: what goroutine w is doing
  chan,      \* CommChan[w]
  comm,      \* CommChan of CommWorker: what is to be told to the cloud
  health,    \* ModulesHealth: the workers that have answered a heartbeat
  full,      \* HeartBeatToModule of a worker is full, and runDeviceTwin waits for it
  lost,      \* mutexes no worker will unlock; with each of them a read lock is lost
  raced,     \* devices that MemWorker and another worker had at once
  unsaved,   \* devices of which a write was lost
  faults

sqlite == <<db, tx>>
locks == <<mutex, locked, made, readers>>
chans == <<chan, comm>>
beats == <<health, full>>
marks == <<lost, raced, unsaved>>
dtVars == <<list, sqlite, locks, work, chans, beats, marks, faults>>

NoTwins == [p \in Properties |-> None]
NoAttrs == [a \in Attributes |-> None]

\* sqlite: the tables device, device_attr and device_twin.
Empty == [dev |-> [d \in Devices |-> None],
          attr |-> [d \in Devices |-> NoAttrs],
          twin |-> [d \in Devices |-> NoTwins]]

Idle == [pc |-> "idle", msg |-> None,
         mutex |-> None,   \* the mutex Lock found
         todo |-> {}, task |-> None, swept |-> FALSE,   \* MemWorker: devices to add and remove
         stmt |-> None, rest |-> {}, tries |-> 0,       \* the transaction at hand
         out |-> None]                                  \* what the cloud is told at the end

\* Start has returned, or was not called.
Dead == [Idle EXCEPT !.pc = "dead"]

\* The workers as runDeviceTwin starts them.
Started == [w \in Goroutines |-> IF w[2] = 1 THEN Idle ELSE Dead]

\* A device as it is read from sqlite.
Loaded(d, tables) ==
  IF tables.dev[d] = None THEN None
  ELSE [state |-> tables.dev[d], attr |-> tables.attr[d], twin |-> tables.twin[d]]

\* edgecore starts on what is in sqlite: SyncSqlite loads the devices.
DTInit(tables) ==
  /\ list = [d \in Devices |-> Loaded(d, tables)] /\ db = tables /\ tx = None
  /\ mutex = [d \in Devices |-> IF tables.dev[d] = None THEN None ELSE d]
  /\ locked = {} /\ made = 0 /\ readers = 0
  /\ work = Started
  /\ chan = [n \in Workers |-> << >>] /\ comm = << >>
  /\ health = {} /\ full = FALSE
  /\ lost = {} /\ raced = {} /\ unsaved = {} /\ faults = 0

\* What is in sqlite when edgecore is started again.
Durable == IF tx \in {None, Over} THEN db ELSE tx.base

\* The devices that are being removed; without the row of the device, others have
\* committed a part of it, or there was no transaction.
Removing ==
  {work[w].stmt.d : w \in {w \in Mem : /\ work[w].stmt # None /\ work[w].stmt.op = "remove"
                                       /\ work[w].pc \in {"begin", "write"}}}

\* edgecore ends and is started again: what was not committed is gone, and
\* SyncSqlite loads the devices.
Crash ==
  LET kept == Durable
  IN  /\ db' = kept /\ tx' = None
      /\ list' = [d \in Devices |-> Loaded(d, kept)]
      /\ mutex' = [d \in Devices |-> IF kept.dev[d] = None THEN None ELSE d]
      /\ locked' = {} /\ made' = 0 /\ readers' = 0
      /\ work' = Started
      /\ chan' = [n \in Workers |-> << >>] /\ comm' = << >>
      /\ health' = {} /\ full' = FALSE
      /\ lost' = {} /\ raced' = {}
      /\ unsaved' = {d \in raced \cup unsaved \cup Removing : kept.dev[d] = None}   \* rows without a device
-----------------------------------------------------------------------------
(* Messages: distributeMsg puts them into the channel of the worker that   *)
(* has their action.                                                       *)

Target(m) ==
  CASE m.kind \in {"add", "remove", "detail"} -> "mem"
    [] m.kind \in {"sync", "rest"} -> "twin"
    [] m.kind \in {"state", "attr"} -> "dev"

DistributeMsg(m) ==
  /\ Len(chan[Target(m)]) < ChannelSize
  /\ chan' = [chan EXCEPT ![Target(m)] = Append(@, m)]
  /\ UNCHANGED <<list, sqlite, locks, work, comm, beats, marks, faults>>

\* A worker other than MemWorker has looked up the mutex of the device.
Uses(w, d) == w \notin Mem /\ work[w].pc \notin {"idle", "dead"} /\ work[w].msg.d = d

\* MemWorker is adding or removing the device.
Changes(w, d) == w \in Mem /\ work[w].task # None /\ work[w].task.d = d /\ work[w].pc # "done"

\* A membership detail has the write lock of DTContext.Mutex or waits for it.
Detail(w) == w \in Mem /\ work[w].msg # None /\ work[w].msg.kind = "detail"
Details == {w \in Mem : Detail(w)}

\* A worker takes a message.  Lock first looks the mutex of the device up;
\* without one the worker goes on without any lock.
Take(w) ==
  /\ work[w].pc = "idle" /\ chan[Name(w)] # << >>
  /\ LET m == Head(chan[Name(w)])
     IN  /\ work' = [work EXCEPT ![w] =
              IF w \in Mem
              THEN [Idle EXCEPT !.msg = m, !.pc = IF m.kind = "detail" THEN "lockall" ELSE "done",
                                !.todo = IF m.kind = "detail" THEN {} ELSE {m}]
              ELSE [Idle EXCEPT !.msg = m, !.pc = IF mutex[m.d] = None THEN "deal" ELSE "rlock",
                                !.mutex = mutex[m.d]]]
         /\ raced' = IF w \notin Mem /\ \E v \in Mem : Changes(v, m.d) /\ ~Detail(v)
                     THEN raced \cup {m.d} ELSE raced
  /\ chan' = [chan EXCEPT ![Name(w)] = Tail(@)]
  /\ UNCHANGED <<list, sqlite, locks, comm, beats, lost, unsaved, faults>>

Goto(w, pc) == work' = [work EXCEPT ![w].pc = pc]

\* (a read lock that does not wait for the writer)
RLockAnytime(w) ==
  /\ work[w].pc = "rlock"
  /\ readers' = readers + 1
  /\ Goto(w, "mutex")
  /\ UNCHANGED <<list, sqlite, mutex, locked, made, chans, beats, marks, faults>>

\* The read lock of DTContext.Mutex: a writer that has it or waits for it
\* keeps new readers out.
RLock(w) ==
  /\ work[w].pc = "rlock" /\ Details = {}
  /\ readers' = readers + 1
  /\ Goto(w, "mutex")
  /\ UNCHANGED <<list, sqlite, mutex, locked, made, chans, beats, marks, faults>>

MutexLock(w) ==
  /\ work[w].pc = "mutex" /\ work[w].mutex \notin locked
  /\ locked' = locked \cup {work[w].mutex}
  /\ Goto(w, "deal")
  /\ UNCHANGED <<list, sqlite, mutex, made, readers, chans, beats, marks, faults>>

\* Unlock looks the mutex up again: it does nothing when the device is gone,
\* and Go ends the process when the mutex found is not locked.
Unlock(w) ==
  LET id == mutex[work[w].msg.d]
  IN  /\ w \notin Mem /\ work[w].pc = "done"
      /\ IF id # None /\ (id \notin locked \/ readers = 0) THEN Crash
         ELSE /\ locked' = locked \ {id}
              /\ readers' = IF id = None THEN readers ELSE readers - 1
              /\ lost' = IF id = None THEN lost \cup ({work[w].mutex} \ {None}) ELSE lost
              /\ work' = [work EXCEPT ![w] = Idle]
              /\ UNCHANGED <<list, sqlite, mutex, made, chans, beats, raced, unsaved>>
      /\ UNCHANGED faults
-----------------------------------------------------------------------------
(* Transactions.  stmt is what a transaction writes, and rest the rows that *)
(* are still to be written.                                                *)

\* The ormer has a transaction that can be committed.
Open == tx \notin {None, Over}

\* Sqlite fails, anew or as it did before.
Fault(again) ==
  IF again /\ faults > 0 THEN UNCHANGED faults
  ELSE faults < MaxFaults /\ faults' = faults + 1

Rows(s) ==
  CASE s.op = "add" -> {"dev"}
    [] s.op = "remove" -> {"dev", "attr", "twin"}
    [] OTHER -> DOMAIN s.rows

\* A device is deleted before its attributes, and these before its twin; other
\* rows are in the order of a Go map.
FirstOf(rest) ==
  IF "dev" \in rest THEN {"dev"} ELSE IF "attr" \in rest THEN {"attr"} ELSE rest

Written(s, row, tables) ==
  CASE s.op = "add" -> [tables EXCEPT !.dev[s.d] = s.state]
    [] s.op = "remove" /\ row = "dev" -> [tables EXCEPT !.dev[s.d] = None]
    [] s.op = "remove" /\ row = "attr" -> [tables EXCEPT !.attr[s.d] = NoAttrs]
    [] s.op = "remove" /\ row = "twin" -> [tables EXCEPT !.twin[s.d] = NoTwins]
    [] s.op = "attrs" -> [tables EXCEPT !.attr[s.d][row] = s.rows[row]]
    [] s.op = "twins" -> [tables EXCEPT !.twin[s.d][row] = s.rows[row]]

\* An error, also that a transaction has begun, is ignored: without a
\* transaction the statements are on their own.
Begin(w) ==
  /\ work[w].pc = "begin"
  /\ \/ tx' = (IF tx = None THEN [base |-> db, by |-> {}] ELSE tx) /\ UNCHANGED faults
     \/ tx = None /\ Fault(work[w].tries > 0) /\ UNCHANGED tx
  /\ work' = [work EXCEPT ![w].pc = "write", ![w].rest = Rows(work[w].stmt)]
  /\ UNCHANGED <<list, db, locks, chans, beats, marks>>

\* A write is part of whatever transaction is open.
Joined(w, d) == IF Open THEN [tx EXCEPT !.by = @ \cup {<<w, d>>}] ELSE tx

\* The primary key of a device is taken.
Duplicate(w) == work[w].stmt.op = "add" /\ db.dev[work[w].stmt.d] # None

Write(w) ==
  /\ work[w].pc = "write" /\ tx # Over /\ ~Duplicate(w)
  /\ \E row \in FirstOf(work[w].rest) :
       /\ db' = Written(work[w].stmt, row, db)
       /\ work' = [work EXCEPT ![w].rest = @ \ {row},
                               ![w].pc = IF work[w].rest = {row} THEN "commit" ELSE "write"]
  /\ tx' = Joined(w, work[w].stmt.d)
  /\ UNCHANGED <<list, locks, chans, beats, marks, faults>>

\* An error of Commit is ignored: nothing is written, for anybody in the
\* transaction, and the ormer keeps the transaction.
Commit(w) ==
  /\ work[w].pc = "commit"
  /\ \/ tx' = (IF Open THEN None ELSE tx) /\ UNCHANGED <<db, unsaved, faults>>
     \/ /\ Open /\ Fault(FALSE)
        /\ db' = tx.base /\ tx' = Over
        /\ unsaved' = unsaved \cup {b[2] : b \in tx.by}
  /\ Goto(w, "after")
  /\ UNCHANGED <<list, locks, chans, beats, lost, raced>>

\* What a statement that fails does to the transaction: Rollback takes the
\* writes of everybody in it back.  Rollback fails too when sqlite has ended
\* the transaction by itself, and the ormer keeps the transaction.
Undo(w) ==
  /\ work[w].pc = "write"
  /\ \/ (Duplicate(w) \/ tx = Over) /\ UNCHANGED faults /\ tx' = (IF Open THEN None ELSE tx)
     \/ /\ ~Duplicate(w) /\ tx # Over /\ Fault(work[w].tries > 0 \/ tx = None)
        /\ tx' \in (IF Open THEN {None, Over} ELSE {tx})
  /\ db' = Durable
  /\ unsaved' = unsaved \cup (IF Open THEN {b[2] : b \in {b \in tx.by : b[1] # w}} ELSE {})
  /\ UNCHANGED <<list, locks, chans, beats, lost, raced>>

\* (retries without end)
RollbackForever(w) ==
  Undo(w) /\ work' = [work EXCEPT ![w].tries = @ + 1, ![w].rest = {}, ![w].pc = "begin"]

\* A statement fails: Rollback, then the next attempt.
Rollback(w) ==
  /\ Undo(w)
  /\ work' = [work EXCEPT ![w].tries = @ + 1, ![w].rest = {},
                          ![w].pc = IF work[w].tries + 1 = RetryTimes THEN "failed" ELSE "begin"]

Start(w, stmt) == [work[w] EXCEPT !.pc = "begin", !.tries = 0, !.stmt = stmt]

\* SyncDeviceFromSqlite, after an error: the device is read from sqlite again.
\* A device that is not in memory gets a new mutex first.
SyncDeviceFromSqlite(d, again) ==
  /\ list[d] = None => made < MaxMutex
  /\ mutex' = IF list[d] = None THEN [mutex EXCEPT ![d] = made + 1] ELSE mutex
  /\ made' = IF list[d] = None THEN made + 1 ELSE made
  /\ \/ /\ tx # Over
        /\ list' = [list EXCEPT ![d] = IF Loaded(d, db) = None THEN @ ELSE Loaded(d, db)]
        /\ UNCHANGED <<unsaved, faults>>
     \/ /\ IF tx = Over THEN UNCHANGED faults ELSE Fault(again)
        /\ unsaved' = unsaved \cup {d} /\ UNCHANGED list
-----------------------------------------------------------------------------
(* DealDeviceTwin, for TwinWorker and for the devices MemWorker adds.      *)

TwinMsg(w) == IF w \in Mem THEN work[w].task ELSE work[w].msg
TwinType(w) == IF work[w].msg.kind = "rest" THEN "rest" ELSE "sync"

\* HeartBeat: the worker has answered a heartbeat while it waited for a message.
\* Nobody looks at ModulesHealth before a worker panics or is slow, so that the
\* answer is not a step of its own.
Answered(n) == health' = health \cup {n}

\* A nil pointer dereference: Start recovers and returns, and the worker is
\* gone with the locks it had.
Panic(w, d) ==
  /\ work' = [work EXCEPT ![w] = Dead]
  /\ lost' = lost \cup ({work[w].mutex} \ {None})
  /\ unsaved' = unsaved \cup {d}
  /\ Answered(Name(w)) \/ UNCHANGED health
  /\ UNCHANGED <<mutex, made, raced, faults>>

DealDeviceTwin(w) ==
  LET m == TwinMsg(w)
      d == m.d
      old == list[d].twin
  IN  /\ work[w].pc = "deal" /\ Name(w) # "dev"
      /\ IF list[d] = None
         THEN Goto(w, "done") /\ UNCHANGED <<list, mutex, made, health, marks, faults>>
         ELSE \E done \in Dealt(old, m.twin, TwinType(w)) :
           LET res == DealMsgTwin(old, m.twin, TwinType(w), done)
               new == [p \in done |-> res[p].twin] @@ old
               changed == {p \in done : res[p].change}
               told == {p \in done : res[p].reply # {}}
               out == [kind |-> "twin", d |-> d,
                       twin |-> [p \in told |-> CHOOSE v \in res[p].reply : TRUE]]
           IN  \/ /\ \E p \in done : res[p].panic
                  /\ Panic(w, d)
                  /\ list' = [list EXCEPT ![d].twin = new]
               \/ /\ TwinType(w) = "rest" /\ Erroneous(old, m.twin, "rest", done)
                  /\ SyncDeviceFromSqlite(d, FALSE)
                  /\ Goto(w, "done") /\ UNCHANGED <<health, lost, raced>>
               \/ /\ ~\E p \in done : res[p].panic
                  /\ ~(TwinType(w) = "rest" /\ Erroneous(old, m.twin, "rest", done))
                  /\ list' = [list EXCEPT ![d].twin = new]
                  /\ work' = [work EXCEPT ![w] =
                       [Start(w, [op |-> "twins", d |-> d,
                                  rows |-> [p \in changed |-> TwinRow(res[p].twin)]])
                        EXCEPT !.out = IF told = {} THEN None ELSE out,
                               !.pc = IF changed = {} THEN "reply" ELSE "begin"]]
                  /\ UNCHANGED <<mutex, made, health, marks, faults>>
      /\ UNCHANGED <<sqlite, locked, readers, chans, full>>

\* (the device is not read again)
AfterTwinsUnread(w) ==
  /\ work[w].stmt # None /\ work[w].stmt.op = "twins"
  /\ \/ /\ work[w].pc = "after"
        /\ Goto(w, "reply")
        /\ UNCHANGED <<list, mutex, made, unsaved, faults>>
     \/ /\ work[w].pc = "failed"
        /\ UNCHANGED <<list, mutex, made, unsaved, faults>>
        /\ Goto(w, IF TwinType(w) = "rest" THEN "done" ELSE "reply")
  /\ UNCHANGED <<sqlite, locked, readers, chans, beats, lost, raced>>

AfterTwins(w) ==
  /\ work[w].stmt # None /\ work[w].stmt.op = "twins"
  /\ \/ /\ work[w].pc = "after"
        /\ Goto(w, "reply")
        /\ UNCHANGED <<list, mutex, made, unsaved, faults>>
     \/ /\ work[w].pc = "failed"
        /\ SyncDeviceFromSqlite(work[w].stmt.d, TRUE)
        /\ Goto(w, IF TwinType(w) = "rest" THEN "done" ELSE "reply")
  /\ UNCHANGED <<sqlite, locked, readers, chans, beats, lost, raced>>

\* dealSyncResult
Reply(w) ==
  /\ work[w].pc = "reply"
  /\ IF work[w].out = None THEN UNCHANGED comm
     ELSE Len(comm) < ChannelSize /\ comm' = Append(comm, work[w].out)
  /\ work' = [work EXCEPT ![w].pc = "done", ![w].out = None]
  /\ UNCHANGED <<list, sqlite, locks, chan, beats, marks, faults>>
-----------------------------------------------------------------------------
(* DeviceWorker                                                            *)

\* The two columns are updated one after the other, outside any transaction of
\* its own; only the error of the second is looked at, and memory is changed
\* in any case.
DealDeviceStateUpdate(w) ==
  LET m == work[w].msg
      d == m.d
  IN  /\ Name(w) = "dev" /\ work[w].pc = "deal" /\ m.kind = "state"
      /\ IF list[d] = None
         THEN Goto(w, "done") /\ UNCHANGED <<list, sqlite, unsaved, faults>>
         ELSE /\ list' = [list EXCEPT ![d].state = m.state]
              /\ work' = [work EXCEPT ![w].pc = "reply",
                            ![w].out = [kind |-> "state", d |-> d, state |-> m.state]]
              /\ \/ /\ tx # Over
                    /\ db' = [db EXCEPT !.dev[d] = IF @ = None THEN None ELSE m.state]
                    /\ tx' = Joined(w, d)
                    /\ UNCHANGED <<unsaved, faults>>
                 \/ /\ IF tx = Over THEN UNCHANGED faults ELSE Fault(FALSE)
                    /\ unsaved' = unsaved \cup {d} /\ UNCHANGED sqlite
      /\ UNCHANGED <<locks, chans, beats, lost, raced>>

\* UpdateDeviceAttr: an update from the edge, or the attributes of a device
\* that is added again, of which the cloud sends none.
UpdateDeviceAttr(w) ==
  LET m == TwinMsg(w)
      d == m.d
      old == list[d].attr
      attrs == IF w \in Mem THEN << >> ELSE m.attr
      res == [a \in DOMAIN attrs |-> DealAttr(old[a], attrs[a])]
      bad == {a \in DOMAIN res : res[a].panic}
      next == IF w \in Mem THEN "deal" ELSE "done"
  IN  /\ \/ Name(w) = "dev" /\ work[w].pc = "deal" /\ m.kind = "attr"
         \/ w \in Mem /\ work[w].pc = "attr"
      /\ IF list[d] = None
         THEN Goto(w, next) /\ UNCHANGED <<list, mutex, made, health, marks, faults>>
         ELSE \E done \in UpTo(DOMAIN res, bad) :
           LET new == IF w \in Mem THEN NoAttrs ELSE [a \in done |-> res[a].attr] @@ old
               changed == {a \in Attributes : new[a] # old[a]}
           IN  /\ list' = [list EXCEPT ![d].attr = new]
               /\ \/ bad # {} /\ Panic(w, d)
                  \/ /\ bad = {}
                     /\ work' = [work EXCEPT ![w] = IF changed = {} THEN [@ EXCEPT !.pc = next]
                          ELSE Start(w, [op |-> "attrs", d |-> d,
                                         rows |-> [a \in changed |-> AttrRow(new[a])]])]
                     /\ UNCHANGED <<mutex, made, health, marks, faults>>
      /\ UNCHANGED <<sqlite, locked, readers, chans, full>>

AfterAttrs(w) ==
  /\ work[w].stmt # None /\ work[w].stmt.op = "attrs"
  /\ Goto(w, IF w \in Mem THEN "deal" ELSE "done")
  /\ \/ work[w].pc = "after" /\ UNCHANGED <<list, mutex, made, unsaved, faults>>
     \/ work[w].pc = "failed" /\ SyncDeviceFromSqlite(work[w].stmt.d, TRUE)
  /\ UNCHANGED <<sqlite, locked, readers, chans, beats, lost, raced>>
-----------------------------------------------------------------------------
(* MemWorker                                                               *)

LockAll(w) ==
  /\ work[w].pc = "lockall" /\ readers = 0
  /\ \A v \in Details : work[v].pc = "lockall"
  /\ work' = [work EXCEPT ![w].pc = "done",
                ![w].todo = {[kind |-> "add", d |-> d, state |-> work[w].msg.state,
                              twin |-> work[w].msg.devs[d]] : d \in DOMAIN work[w].msg.devs}]
  /\ UNCHANGED <<list, sqlite, locks, chans, beats, marks, faults>>

\* getRemoveList, after the devices of a membership detail were added.
GetRemoveList(w) ==
  /\ Detail(w) /\ work[w].pc = "done" /\ work[w].todo = {} /\ ~work[w].swept
  /\ work' = [work EXCEPT ![w].swept = TRUE, ![w].task = None,
                ![w].todo = {[kind |-> "remove", d |-> d] :
                    d \in {d \in Devices : list[d] # None} \ DOMAIN work[w].msg.devs}]
  /\ UNCHANGED <<list, sqlite, locks, chans, beats, marks, faults>>

\* The message is done with; a membership detail gives the write lock back.
MemDone(w) ==
  /\ w \in Mem /\ work[w].pc = "done" /\ work[w].todo = {} /\ (Detail(w) => work[w].swept)
  /\ work' = [work EXCEPT ![w] = Idle]
  /\ UNCHANGED <<list, sqlite, locks, chans, beats, marks, faults>>

\* Another worker has the device, or is about to use a mutex it looked up.
Racing(w, t) ==
  \E v \in Goroutines \ {w} :
    \/ Changes(v, t.d)
    \/ Uses(v, t.d) /\ ~(Detail(w) /\ list[t.d] # None /\ work[v].pc = "rlock")

AddDevice(w, t) ==
  /\ t.kind = "add"
  /\ IF list[t.d] # None
     THEN /\ work' = [work EXCEPT ![w].pc = "attr", ![w].task = t, ![w].todo = @ \ {t}]
          /\ UNCHANGED <<list, mutex, made>>
     ELSE /\ made < MaxMutex
          /\ made' = made + 1 /\ mutex' = [mutex EXCEPT ![t.d] = made + 1]
          /\ list' = [list EXCEPT ![t.d] = [state |-> t.state, attr |-> NoAttrs, twin |-> NoTwins]]
          /\ work' = [work EXCEPT ![w] =
               [Start(w, [op |-> "add", d |-> t.d, state |-> t.state])
                EXCEPT !.task = t, !.todo = @ \ {t}]]

RemoveDevice(w, t) ==
  /\ t.kind = "remove"
  /\ work' = [work EXCEPT ![w] =
       IF list[t.d] = None THEN [@ EXCEPT !.todo = @ \ {t}, !.task = None]
       ELSE [Start(w, [op |-> "remove", d |-> t.d]) EXCEPT !.task = t, !.todo = @ \ {t}]]
  /\ UNCHANGED <<list, mutex, made>>

MemNext(w) ==
  \E t \in work[w].todo :
    /\ work[w].pc = "done"
    /\ AddDevice(w, t) \/ RemoveDevice(w, t)
    /\ raced' = IF Racing(w, t) THEN raced \cup {t.d} ELSE raced
    /\ UNCHANGED <<sqlite, locked, readers, chans, beats, lost, unsaved, faults>>

\* The row was written, or it failed for good: the device is taken out of
\* memory and unlocked, although it was not locked.
AfterAdd(w) ==
  LET d == work[w].stmt.d
      id == mutex[d]
  IN  /\ work[w].stmt # None /\ work[w].stmt.op = "add"
      /\ \/ /\ work[w].pc = "after" /\ Goto(w, "deal")
            /\ UNCHANGED <<list, sqlite, locks, chans, beats, marks>>
         \/ /\ work[w].pc = "failed"
            /\ IF id # None /\ (id \notin locked \/ readers = 0) THEN Crash
               ELSE /\ list' = [list EXCEPT ![d] = None]
                    /\ locked' = locked \ {id}
                    /\ readers' = IF id = None THEN readers ELSE readers - 1
                    /\ Goto(w, "done")
                    /\ UNCHANGED <<sqlite, mutex, made, chans, beats, marks>>
      /\ UNCHANGED faults

\* The device leaves memory even when it could not be deleted from sqlite.
AfterRemove(w) ==
  LET d == work[w].stmt.d
  IN  /\ work[w].stmt # None /\ work[w].stmt.op = "remove"
      /\ work[w].pc \in {"after", "failed"}
      /\ list' = [list EXCEPT ![d] = None] /\ mutex' = [mutex EXCEPT ![d] = None]
      /\ unsaved' = IF work[w].pc = "failed" THEN unsaved \cup {d} ELSE unsaved
      /\ Goto(w, "done")
      /\ UNCHANGED <<sqlite, locked, made, readers, chans, beats, lost, raced, faults>>
-----------------------------------------------------------------------------
(* The heartbeat.                                                          *)

Gone(n) == \A w \in Goroutines : Name(w) = n => work[w].pc = "dead"

\* Workers that panicked before they answered a heartbeat: runDeviceTwin does not
\* start them again, and nobody takes their heartbeats.
Abandoned == {n \in Workers \ health : Gone(n)}

\* runDeviceTwin waits until it can send a heartbeat, and starts nobody any more.
HeartBeatFull ==
  /\ Abandoned # {} /\ ~full /\ full' = TRUE
  /\ UNCHANGED <<list, sqlite, locks, work, chans, health, marks, faults>>

\* Another goroutine of the worker.
StartAgain(n) ==
  /\ ~full
  /\ \E w \in Goroutines : /\ Name(w) = n /\ work[w].pc = "dead"
                           /\ work' = [work EXCEPT ![w] = Idle]
  /\ UNCHANGED <<list, sqlite, locks, chans, full, marks>>

\* (the age of the answer compared the other way round)
HealthCheckFresh(n) == ~Gone(n) /\ Fault(FALSE) /\ Answered(n) /\ StartAgain(n)

\* runDeviceTwin calls Start for a worker whose last answer is over two minutes
\* old: it is gone, or slow.
HealthCheck(n) ==
  /\ IF Gone(n) THEN n \in health /\ UNCHANGED <<health, faults>> ELSE Answered(n) /\ Fault(FALSE)
  /\ StartAgain(n)

Restart == Fault(FALSE) /\ Crash

Step(w) ==
  \/ Take(w) \/ RLock(w) \/ MutexLock(w) \/ Unlock(w)
  \/ Begin(w) \/ Write(w) \/ Commit(w) \/ Rollback(w)
  \/ DealDeviceTwin(w) \/ AfterTwins(w) \/ Reply(w)
  \/ UpdateDeviceAttr(w) \/ AfterAttrs(w) \/ DealDeviceStateUpdate(w)
  \/ LockAll(w) \/ GetRemoveList(w) \/ MemDone(w) \/ MemNext(w) \/ AfterAdd(w) \/ AfterRemove(w)
-----------------------------------------------------------------------------
(* Properties                                                              *)

\* Every table, list and lock holds what its Go type and the code allow.
TypeOK ==
  /\ \A d \in Devices : list[d] = None \/
       (list[d].state \in States /\ list[d].attr \in [Attributes -> Attr \cup {None}]
         /\ list[d].twin \in [Properties -> Twin \cup {None}])
  /\ \A d \in Devices : /\ db.dev[d] \in States \cup {None}
                        /\ db.attr[d] \in [Attributes -> Attr \cup {None}]
                        /\ db.twin[d] \in [Properties -> Twin \cup {None}]
  /\ Open => tx.by \subseteq Goroutines \X Devices
  /\ mutex \in [Devices -> 1..MaxMutex \cup Devices \cup {None}]
  /\ locked \subseteq 1..MaxMutex \cup Devices
  /\ made \in 0..MaxMutex /\ readers \in Nat /\ faults \in 0..MaxFaults
  /\ \A n \in Workers : Len(chan[n]) <= ChannelSize
  /\ \A w \in Goroutines : work[w].tries \in 0..RetryTimes
  /\ Len(comm) <= ChannelSize /\ health \subseteq Workers /\ full \in BOOLEAN
  /\ lost \subseteq 1..MaxMutex \cup Devices /\ raced \subseteq Devices /\ unsaved \subseteq Devices

\* A worker is between Take and the end of what it does with the device.
Busy(d) == \E w \in Goroutines : Uses(w, d) \/ Changes(w, d)

\* Memory and sqlite agree on a device that no worker is dealing with: after a
\* refused message, an error that made DealDeviceTwin read the device again, or
\* a transaction that was tried several times.  The exceptions: a device that was
\* added or removed while another worker had it, and one of which the code lost a
\* write: Commit failed, the device could not be read again or deleted, the
\* rollback of another worker took the write back, or the worker panicked.
MemoryIsSqlite ==
  \A d \in Devices \ (raced \cup unsaved) :
    ~Busy(d) =>
      /\ (list[d] = None) = (db.dev[d] = None)
      /\ list[d] = None => mutex[d] = None /\ db.attr[d] = NoAttrs /\ db.twin[d] = NoTwins
      /\ list[d] # None => /\ list[d].state = db.dev[d]
                           /\ db.attr[d] = [a \in Attributes |-> AttrRow(list[d].attr[a])]
                           /\ db.twin[d] = [p \in Properties |-> TwinRow(list[d].twin[p])]

\* The workers inside DTContext.Lock ... Unlock.
Inside == {w \in Goroutines \ Mem : work[w].mutex # None /\ work[w].pc \notin {"idle", "dead", "rlock", "mutex"}}

\* Every error path of the callbacks gives back the locks it took, and a
\* membership detail runs alone.  Lost are only the locks of a worker that
\* panicked, or whose device a membership detail removed before Unlock looked
\* for its mutex.
LocksHeld ==
  raced = {} =>
    /\ locked = {work[w].mutex : w \in Inside} \cup lost
    /\ Cardinality(locked) = Cardinality(Inside) + Cardinality(lost)
    /\ readers = Cardinality(locked) + Cardinality({w \in Goroutines : work[w].pc = "mutex"})
    /\ (\E w \in Details : work[w].pc # "lockall") => readers = 0

\* The cloud version of the expected value and the edge version of the actual
\* value a restart would find never go back while the device is there, whatever
\* fails and whenever edgecore ends; those in memory only go back when a write
\* failed or edgecore ended.
VersionsGrow ==
  [][\A d \in Devices, p \in Properties :
       LET Grows(a, b) == (a # None /\ b # None) =>
             /\ Filled(a.ev).cloud <= Filled(b.ev).cloud
             /\ Filled(a.av).edge <= Filled(b.av).edge
       IN  d \in raced \cup raced' \cup unsaved \/
             /\ Grows(Durable.twin[d][p], Durable'.twin[d][p])
             /\ (faults' = 0 /\ list[d] # None /\ list'[d] # None)
                  => Grows(list[d].twin[p], list'[d].twin[p])]_dtVars
=============================================================================
