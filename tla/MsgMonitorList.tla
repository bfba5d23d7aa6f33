--------------------------- MODULE MsgMonitorList ---------------------------
(***************************************************************************)
(* A MsgMonitorList: the array of callbacks registered for messages or     *)
(* events, and the passes that call them.  A callback is script code: it   *)
(* may register and remove callbacks of the list, and let other messages   *)
(* arrive, whose passes nest in its own.  Each pass keeps its position in  *)
(* a MsgMonitorInstance, which Add, Delete and Dispose correct.            *)
(*                                                                         *)
(* Lists are of two kinds.  "monitor" is g_MsgMonitor, iterated by         *)
(* MsgMonitor(): OnMessage callbacks, each in a thread of its own, and the *)
(* entries that stand for a Gui or control with callbacks of its own.      *)
(* "events" is a control's list, iterated by MsgMonitorList::Call.  (The    *)
(* lists of OnExit, OnClipboardChange and OnError are iterated by Call as  *)
(* well, one pass at a time: their behaviours are among these.)            *)
(*                                                                         *)
(* The fields key, gone and todo of a pass are history: they say what it   *)
(* is really calling, for the properties to compare with its position.     *)
(***************************************************************************)
EXTENDS Integers, Sequences, FiniteSets, SequencesExt

CONSTANTS
  Lists,       \* the lists to look at: [kind : "monitor" or "events",
               \*   keys : registrations, [msg, func, gui : whether a Gui entry],
               \*   placements : where callbacks are added, "first", "last" or both,
               \*   limits : max_instances the script gives]
  NoKey,       \* stands for no registration
  MaxThreads,  \* bound on the callbacks on the stack (#MaxThreads)
  MinCount     \* bound: Delete may take a pass's count down to this

ASSUME MonitorsAssumption ==
  /\ \A l \in Lists :
       /\ l.kind \in {"monitor", "events"}
       /\ NoKey \notin l.keys
       /\ \A k \in l.keys : k.gui \in BOOLEAN /\ (k.gui => l.kind = "monitor")
       /\ l.placements \subseteq {"first", "last"}
       /\ l.limits \subseteq Nat \ {0}
  /\ MaxThreads \in Nat /\ MinCount \in Int

VARIABLES
  list,       \* which of Lists it is; never changes
  mMonitor,   \* the array, its first mCount elements
  mTop,       \* the passes, innermost last: the chain from mTop, reversed
  disposed    \* the list's owner has been destroyed

vars == <<list, mMonitor, mTop, disposed>>

Kind == list.kind
Keys == list.keys
Msgs == {k.msg : k \in Keys}

MsgMonitorStruct == [key : Keys, instance_count : Nat, max_instances : list.limits]

MsgMonitorInstance ==
  [msg : Msgs, index : Int, count : Int, deleted : BOOLEAN,
   at : {"scan", "run"}, key : Keys \cup {NoKey}, gone : BOOLEAN,
   todo : SUBSET Keys]

mCount == Len(mMonitor)
At(index) == mMonitor[index + 1]
Registered == {mMonitor[i].key : i \in 1 .. mCount}
Find(key) == CHOOSE i \in 0 .. mCount - 1 : At(i).key = key

Depth == Len(mTop)
Top == mTop[Depth]
SetTop(inst) == mTop' = [mTop EXCEPT ![Depth] = inst]
RunningAt == {i \in 1 .. Depth : mTop[i].at = "run"}

\* Script code is running: a callback, or whatever the first pass interrupts.
InScript == Depth > 0 => Top.at = "run"

(***************************************************************************)
(* OnMessage, OnEvent, OnExit...: script code changes the list             *)
(***************************************************************************)

\* (Mutant) The end of a pass stays where it was.
ShiftedIndex(inst) == [inst EXCEPT !.index = @ + 1]

\* AddInternal corrects the passes when it shifts the array.
Shifted(inst) ==
  [inst EXCEPT !.index = @ + 1, !.count = @ + 1]

Add(key, placement, limit) ==
  /\ InScript /\ ~disposed
  /\ key \notin Registered
  /\ LET new == [key |-> key, instance_count |-> 0, max_instances |-> limit]
     IN  IF placement = "last"
         THEN /\ mMonitor' = Append(mMonitor, new)
              /\ UNCHANGED mTop
         ELSE /\ mMonitor' = <<new>> \o mMonitor
              /\ mTop' = [i \in 1 .. Depth |-> Shifted(mTop[i])]
  /\ UNCHANGED disposed

\* An existing callback is given another limit.
Update(key, limit) ==
  /\ InScript /\ key \in Registered
  /\ mMonitor' = [mMonitor EXCEPT ![Find(key) + 1].max_instances = limit]
  /\ UNCHANGED <<mTop, disposed>>

\* (Mutant) The deletion of the current item itself is not noticed.
CorrectedAfter(inst, index) ==
  IF inst.index > index
  THEN [inst EXCEPT !.index = @ - 1, !.count = @ - 1]
  ELSE [inst EXCEPT !.count = @ - 1]

\* MsgMonitorInstance::Delete.
Corrected(inst, index) ==
  IF inst.index >= index /\ inst.index >= 0
  THEN [inst EXCEPT !.deleted = @ \/ inst.index = index,
                    !.index = @ - 1, !.count = @ - 1]
  ELSE [inst EXCEPT !.count = @ - 1]

Delete(key) ==
  /\ InScript /\ key \in Registered
  /\ \A i \in 1 .. Depth : mTop[i].count > MinCount
  /\ mMonitor' = RemoveAt(mMonitor, Find(key) + 1)
  /\ mTop' = [i \in 1 .. Depth |->
       [Corrected(mTop[i], Find(key)) EXCEPT
          !.gone = @ \/ mTop[i].key = key,
          !.todo = @ \ {key}]]
  /\ UNCHANGED disposed

\* The window is destroyed, by a callback or not.
Dispose ==
  /\ Kind = "events"
  /\ InScript /\ ~disposed
  /\ mMonitor' = <<>>
  /\ mTop' = [i \in 1 .. Depth |->
       [mTop[i] EXCEPT !.count = 0, !.deleted = TRUE, !.gone = TRUE,
                       !.todo = {}]]
  /\ disposed' = TRUE

(***************************************************************************)
(* MsgMonitor and MsgMonitorList::Call                                     *)
(***************************************************************************)

\* (Mutant) The position is looked at whether or not the item was deleted.
IsRunningByIndex(msg) ==
  \E i \in 1 .. Depth :
    mTop[i].index \in 0 .. mCount - 1 /\ At(mTop[i].index).key.msg = msg

IsRunning(msg) ==
  \E i \in 1 .. Depth :
    ~mTop[i].deleted /\ At(mTop[i].index).key.msg = msg

\* Whether a message starts a pass: MsgSleep discards an event of a control
\* that is being handled, or that finds the thread limit reached.
MayBegin(msg) ==
  Kind = "events" => ~IsRunning(msg) /\ Cardinality(RunningAt) < MaxThreads

Begin(msg) ==
  /\ InScript
  /\ MayBegin(msg)
  /\ mTop' = Append(mTop,
       [msg |-> msg, index |-> 0, count |-> mCount, deleted |-> FALSE,
        at |-> "scan", key |-> NoKey, gone |-> FALSE,
        todo |-> {k \in Registered : k.msg = msg}])
  /\ UNCHANGED <<mMonitor, disposed>>

Scanning == Depth > 0 /\ Top.at = "scan"

\* (Mutant) A pass goes on to the end of the array as it is now.
AtAnyItem == Scanning /\ Top.index < mCount

AtItem == Scanning /\ Top.index < Top.count
Item == At(Top.index)

\* The item is of another message, or it is refused: the limits are reached,
\* the running thread has a high priority, or the Gui's window is not aWnd.
Skip ==
  /\ AtItem
  /\ Item.key.msg = Top.msg => Kind = "monitor"
  /\ SetTop([Top EXCEPT !.index = @ + 1, !.todo = @ \ {Item.key}])
  /\ UNCHANGED <<mMonitor, disposed>>

InstancesLeft(item) == item.key.gui \/ item.instance_count < item.max_instances

\* The callback of the item is called.
Launch ==
  /\ AtItem
  /\ Item.key.msg = Top.msg
  /\ IF Kind = "monitor"
     THEN /\ Cardinality(RunningAt) < MaxThreads
          /\ InstancesLeft(Item)
          /\ mMonitor' = IF Item.key.gui THEN mMonitor
                         ELSE [mMonitor EXCEPT
                                 ![Top.index + 1].instance_count = @ + 1]
     ELSE UNCHANGED mMonitor
  /\ SetTop([Top EXCEPT !.at = "run", !.key = Item.key, !.gone = FALSE,
                        !.todo = @ \ {Item.key}])
  /\ UNCHANGED disposed

\* What follows an OnMessage callback: its monitor is found again, unless it
\* has been deleted.  The other callers leave the flag as it is.
CountsInstances == Kind = "monitor" /\ ~Top.key.gui

\* (Mutant) The position is looked at whether or not the item was deleted.
MonitorsByIndex ==
  IF CountsInstances /\ Top.index \in 0 .. mCount - 1
  THEN [mMonitor EXCEPT ![Top.index + 1].instance_count = @ - 1]
  ELSE mMonitor

MonitorsAfterReturn ==
  IF CountsInstances /\ ~Top.deleted /\ Item.instance_count > 0
  THEN [mMonitor EXCEPT ![Top.index + 1].instance_count = @ - 1]
  ELSE mMonitor

\* The callback returns; the pass goes on to the next item, or ends when the
\* callback has handled the message.
Return(handled) ==
  /\ Depth > 0 /\ Top.at = "run"
  /\ mMonitor' = MonitorsAfterReturn
  /\ IF handled
     THEN mTop' = Front(mTop)
     ELSE SetTop([Top EXCEPT !.at = "scan", !.index = @ + 1, !.key = NoKey,
                             !.gone = FALSE,
                             !.deleted = @ /\ ~CountsInstances])
  /\ UNCHANGED disposed

EndPass ==
  /\ Scanning /\ Top.index >= Top.count
  /\ mTop' = Front(mTop)
  /\ UNCHANGED <<mMonitor, disposed>>

----------------------------------------------------------------------------

Init == list \in Lists /\ mMonitor = <<>> /\ mTop = <<>> /\ disposed = FALSE

Steps ==
  \/ \E k \in Keys :
       \/ \E p \in list.placements, m \in list.limits : Add(k, p, m)
       \/ \E m \in list.limits : Update(k, m)
       \/ Delete(k)
  \/ Dispose
  \/ \E msg \in Msgs : Begin(msg)
  \/ Skip \/ Launch \/ EndPass
  \/ \E handled \in BOOLEAN : Return(handled)

Next == Steps /\ UNCHANGED list

Spec == Init /\ [][Next]_vars

----------------------------------------------------------------------------
(***************************************************************************)
(* Properties                                                              *)
(***************************************************************************)

\* Every variable has its type.
TypeOK ==
  /\ mMonitor \in Seq(MsgMonitorStruct)
  /\ mTop \in Seq(MsgMonitorInstance)
  /\ disposed \in BOOLEAN

\* A pass never looks beyond the array, and after any mixture of additions
\* and deletions by nested passes its index is that of the callback it calls.
PositionsCorrect ==
  \A i \in 1 .. Depth :
    LET inst == mTop[i]
    IN  /\ inst.at = "scan" /\ inst.index < inst.count
             => inst.index \in 0 .. mCount - 1
        /\ inst.at = "run" /\ ~inst.gone
             => /\ inst.index \in 0 .. mCount - 1
                /\ At(inst.index).key = inst.key
        /\ inst.at = "run" /\ inst.gone => inst.deleted

\* Every thread of a monitor is counted in instance_count, although additions
\* and deletions move the monitor while its threads run: max_instances really
\* limits them.  (A Gui entry deleted during its pass leaves the flag deleted
\* set, and the pass's next monitor is not counted down: the count may be too
\* high.)
InstancesCounted ==
  Kind = "monitor" =>
    \A i \in 1 .. mCount : mMonitor[i].instance_count >=
      Cardinality({j \in RunningAt : /\ ~mTop[j].key.gui /\ ~mTop[j].gone
                                     /\ mTop[j].key = mMonitor[i].key})

\* A pass calls only callbacks that were registered when its message arrived,
\* and none of them twice; none at all once the list has been disposed of.
OnlyItemsFromTheStart ==
  [][Launch => Item.key \in Top.todo /\ ~disposed]_vars

\* A pass that comes to its end has looked at every callback of its message
\* that was registered when it began and is registered still.  (Not so if callbacks
\* are appended: deleting one of those shortens every pass.)
SameItemsVisited ==
  "last" \notin list.placements =>
    \A i \in 1 .. Depth :
      mTop[i].at = "scan" /\ mTop[i].index >= mTop[i].count => mTop[i].todo = {}

\* A callback of the message that is still registered is running.
ReallyRunning(msg) ==
  \E i \in RunningAt : mTop[i].msg = msg /\ ~mTop[i].gone

\* IsRunning never claims that a message is being handled when it is not:
\* the events it discards really meet a running handler.
RunningIsTrue ==
  InScript => \A msg \in Msgs : IsRunning(msg) => ReallyRunning(msg)

============================================================================
