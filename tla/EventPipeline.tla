---------------------------- MODULE EventPipeline ----------------------------
(***************************************************************************)
(* The way of a key press through the main thread.  The X server records   *)
(* it (RECORD extension); EventMonitorX11::eventCallback turns the record  *)
(* into a raw event; EventFilter::processEvents takes all raw events there *)
(* are and resolves the window of each key press with the window cache;    *)
(* and only then Daemon::run dispatches the events one by one, counting    *)
(* key presses and invalidating cache entries of destroyed windows.        *)
(*                                                                         *)
(* The X server goes on meanwhile, and gives the id of a destroyed window  *)
(* to a new one.  A window id has a life: an odd number while a window has *)
(* the id, an even one while none has.  The class of a window without      *)
(* WM_CLASS is that of the nearest window above it which has one, its      *)
(* owner.  What the cache knows of a window is the owner's id and life.    *)
(***************************************************************************)
EXTENDS Integers, SequencesExt, FiniteSets

CONSTANTS Windows,       \* ids of windows
          Root,          \* the root window
          Places,        \* pairs of a window and one that it may be created in
          KeyCodes,      \* codes of keys
          Receivers,     \* how many clients may get one event: a record for each
          Selectors,     \* how many may have selected the DestroyNotify of a window
          MaxPresses,    \* bound: key presses
          MaxChanges     \* bound: creations and destructions of windows

ASSUME PipelineAssumption == /\ KeyCodes \subseteq Nat \ {0}
                             /\ Receivers \subseteq Nat \ {0}
                             /\ Selectors \subseteq Nat
                             /\ Root \notin Windows
                             /\ IsFiniteSet(Windows)
                             /\ Places \subseteq Windows \X (Windows \cup {Root})
                             /\ MaxPresses \in Nat /\ MaxChanges \in Nat

VARIABLES life,       \* X server: window id -> its life
          parent,     \* X server: window id -> the window above it
          owner,      \* X server: window id -> id and life of its owner
          records,    \* X server: intercepted, not yet given to eventCallback
          pc,         \* the static variable of eventCallback: the last key code
          events,     \* EventMonitorX11: raw events
          m_events,   \* EventFilter: events
          m_cache,    \* KfWindowCache: window id -> owners its class and pid are of
          phase,      \* what the main thread is at
          current,    \* the key press that setGroupId works on
          walk,       \* winId of a resolve loop, and its next request
          counted,    \* key presses that reached Daemon::run
          typed,      \* history: the keys that were pressed, one after the other
          missed      \* history: windows that were destroyed without a record

windowVars == <<life, parent, owner, missed>>
serverVars == <<windowVars, records, typed>>
mainVars == <<pc, events, m_events, m_cache, phase, current, walk, counted>>
vars == <<serverVars, mainVars>>

Unknown == <<>>                 \* m_classNameOk or m_clientPidOk is FALSE
Nobody == <<Root, 0>>           \* the empty class name
NoEvent == [type |-> "none"]
NoWalk == [at |-> Root, request |-> "none"]

Exists(w) == life[w] % 2 = 1
HasClassHint(w) == Exists(w) /\ owner[w] = <<w, life[w]>>

\* Life and owner are not in the record: they say which window the press was for.
Press(w, k) ==
    [type |-> "KeyPress", window |-> w, key |-> k, life |-> life[w], owner |-> owner[w]]
Notify(w) == [type |-> "DestroyNotify", window |-> w]

Copies(n, item) == [i \in 1..n |-> item]

-----------------------------------------------------------------------------
(* X server                                                                *)

PressKey(w, k) ==
    /\ Exists(w)
    /\ Len(typed) < MaxPresses
    /\ \E n \in Receivers : records' = records \o Copies(n, Press(w, k))
    /\ typed' = Append(typed, k)
    /\ UNCHANGED <<windowVars, mainVars>>

\* Every creation and every destruction begins another life of an id.
Changes == SumFunction(life) - Cardinality(Windows)

Inherited(w) == IF parent[w] = Root THEN Nobody ELSE owner[parent[w]]

Parents(w) == {above \in Windows \cup {Root} :
                  <<w, above>> \in Places /\ (above = Root \/ Exists(above))}

\* A window with WM_CLASS owns itself.  Another one belongs to the owner of its
\* parent, and neither changes: properties are set before a window is mapped.
CreateWindow(w, above) ==
    /\ ~Exists(w)
    /\ Changes < MaxChanges
    /\ life' = [life EXCEPT ![w] = @ + 1]
    /\ parent' = [parent EXCEPT ![w] = above]
    /\ owner' \in {[owner EXCEPT ![w] = <<w, life[w] + 1>>],
                   [owner EXCEPT ![w] = IF above = Root THEN Nobody ELSE owner[above]]}
    /\ UNCHANGED <<missed, records, typed, mainVars>>

Children(w) == {v \in Windows : Exists(v) /\ parent[v] = w}

\* A window is destroyed after those below it, which a client that destroys it
\* destroys with it.
DestroyWindow(w) ==
    /\ Exists(w)
    /\ Children(w) = {}
    /\ Changes < MaxChanges
    /\ life' = [life EXCEPT ![w] = @ + 1]
    /\ \E n \in Selectors :
           /\ records' = records \o Copies(n, Notify(w))
           /\ missed' = IF n = 0 THEN missed \cup {w} ELSE missed
    /\ UNCHANGED <<parent, owner, typed, mainVars>>

-----------------------------------------------------------------------------
(* EventMonitorX11                                                         *)

\* Slip: a repeated key is recognised, and remembered only if it is one.
CallbackForgets ==
    /\ phase = "wait"
    /\ records # <<>>
    /\ LET record == Head(records)
           repeated == record.type = "KeyPress" /\ record.key = pc
       IN  /\ pc' = pc
           /\ events' = IF record.type = "StartOfData" \/ repeated THEN events
                        ELSE Append(events, record)
    /\ records' = Tail(records)
    /\ UNCHANGED <<windowVars, typed, m_events, m_cache, phase, current, walk, counted>>

\* eventCallback, from XRecordProcessReplies: what does not come FromServer is
\* dropped, and so is a press of the key that was pressed last.
eventCallback ==
    /\ phase = "wait"
    /\ records # <<>>
    /\ LET record == Head(records)
           repeated == record.type = "KeyPress" /\ record.key = pc
       IN  /\ pc' = IF record.type = "KeyPress" THEN record.key ELSE pc
           /\ events' = IF record.type = "StartOfData" \/ repeated THEN events
                        ELSE Append(events, record)
    /\ records' = Tail(records)
    /\ UNCHANGED <<windowVars, typed, m_events, m_cache, phase, current, walk, counted>>

\* waitForEvents has some: it returns once the replies are processed, those that
\* were there by then.
WaitEnds ==
    /\ phase = "wait"
    /\ events # <<>>
    /\ phase' = "process"
    /\ UNCHANGED <<serverVars, pc, events, m_events, m_cache, current, walk, counted>>

-----------------------------------------------------------------------------
(* EventFilter                                                             *)

Walk(w) == [at |-> w, request |-> "hint"]

\* processEvents takes the next raw event.  Of a key press the window is used
\* (findAndUseWindow adds it to the cache if need be), then resolved.
ProcessEvent ==
    /\ phase = "process"
    /\ events # <<>>
    /\ events' = Tail(events)
    /\ IF Head(events).type = "KeyPress"
       THEN /\ current' = Head(events)
            /\ phase' = "fetchClassName"
            /\ walk' = Walk(Head(events).window)
            /\ UNCHANGED m_events
       ELSE /\ m_events' = Append(m_events, Head(events))
            /\ UNCHANGED <<current, phase, walk>>
    /\ UNCHANGED <<serverVars, pc, m_cache, counted>>

Entry == m_cache[current.window]

\* The loops of resolveClassName and resolveClientPid run until their result is
\* in the cache, one request to the X server after the other.
Asks(request) ==
    /\ \/ phase = "fetchClassName" /\ Entry.class = Unknown
       \/ phase \in {"fetchTermPid", "fetchClientPid"} /\ Entry.pid = Unknown
    /\ walk.request = request

\* XGetClassHint fails: the window has no WM_CLASS, or it is gone (BadWindow).
NoClassHint ==
    /\ Asks("hint")
    /\ ~HasClassHint(walk.at)
    /\ walk' = [walk EXCEPT !.request = "parent"]
    /\ UNCHANGED <<serverVars, pc, events, m_events, m_cache, phase, current, counted>>

\* getWindowParent: XQueryTree, and the loop goes on with the parent.
MoveUp ==
    /\ Asks("parent")
    /\ Exists(walk.at) /\ parent[walk.at] # Root
    /\ walk' = Walk(parent[walk.at])
    /\ UNCHANGED <<serverVars, pc, events, m_events, m_cache, phase, current, counted>>

\* The end of both loops without a result: that was the root, or the window is gone.
AtTheTop == Asks("parent") /\ (~Exists(walk.at) \/ parent[walk.at] = Root)

\* fetchClassName returns a name.  The names of terminals end in "term" and the
\* like; the empty one does not.
ClassFetched(class) ==
    /\ m_cache' = [m_cache EXCEPT ![current.window].class = class]
    /\ phase' \in {"fetchClientPid"} \cup (IF class = Nobody THEN {} ELSE {"fetchTermPid"})
    /\ walk' = Walk(current.window)
    /\ UNCHANGED <<serverVars, pc, events, m_events, current, counted>>

\* ... from the cache, or from the window the walk is at; a name that nobody has
\* is cached as any other.
FetchClassName ==
    /\ phase = "fetchClassName"
    /\ \/ Entry.class # Unknown /\ ClassFetched(Entry.class)
       \/ Asks("hint") /\ HasClassHint(walk.at) /\ ClassFetched(owner[walk.at])
       \/ AtTheTop /\ ClassFetched(Nobody)

\* The first window with WM_CLASS is the one that is asked for its _NET_WM_PID.
PidHint ==
    /\ phase # "fetchClassName"
    /\ Asks("hint")
    /\ HasClassHint(walk.at)
    /\ walk' = [walk EXCEPT !.request = "pid"]
    /\ UNCHANGED <<serverVars, pc, events, m_events, m_cache, phase, current, counted>>

\* What fetchClientPid returns, Unknown for 0: from the cache, or from the window
\* the walk is at, which may have none, or be another one by now.
Pids == IF Entry.pid # Unknown THEN {Entry.pid}
        ELSE IF AtTheTop THEN {Unknown}
        ELSE IF ~Asks("pid") THEN {}
        ELSE {Unknown} \cup (IF Exists(walk.at) THEN {<<walk.at, life[walk.at]>>} ELSE {})

\* A pid is cached only if there is one.
Cached(pid) == m_cache' = [m_cache EXCEPT ![current.window].pid = pid]

\* The end of setGroupId: it has what it matches, and the event is queued.
QueueEvent == /\ m_events' = Append(m_events, current)
              /\ current' = NoEvent
              /\ walk' = NoWalk
              /\ phase' = "process"

\* Of a terminal the pid is fetched for matchTermProc, and if that finds no
\* group, or there is no pid, once more.
FetchTermPid ==
    /\ phase = "fetchTermPid"
    /\ \E pid \in Pids :
           /\ Cached(pid)
           /\ \/ pid # Unknown /\ QueueEvent
              \/ /\ phase' = "fetchClientPid"
                 /\ walk' = Walk(current.window)
                 /\ UNCHANGED <<m_events, current>>
    /\ UNCHANGED <<serverVars, pc, events, counted>>

\* Slip: the event is queued and stays the current one.
FetchPidOnly ==
    /\ phase = "fetchClientPid"
    /\ \E pid \in Pids : Cached(pid)
    /\ m_events' = Append(m_events, current)
    /\ phase' = "process"
    /\ UNCHANGED <<serverVars, pc, events, current, walk, counted>>

\* Slip: without a pid the event is not queued.
FetchKnownPid ==
    /\ phase = "fetchClientPid"
    /\ \E pid \in Pids :
           /\ Cached(pid)
           /\ m_events' = IF pid = Unknown THEN m_events ELSE Append(m_events, current)
    /\ current' = NoEvent
    /\ walk' = NoWalk
    /\ phase' = "process"
    /\ UNCHANGED <<serverVars, pc, events, counted>>

\* The pid for matchProc.  Whatever comes of it, matchWindowClass asks nobody.
FetchClientPid ==
    /\ phase = "fetchClientPid"
    /\ \E pid \in Pids : Cached(pid)
    /\ QueueEvent
    /\ UNCHANGED <<serverVars, pc, events, counted>>

\* All raw events are processed: nextEvent has something to return.
ProcessEnds ==
    /\ phase = "process"
    /\ events = <<>>
    /\ phase' = "loop"
    /\ UNCHANGED <<serverVars, pc, events, m_events, m_cache, current, walk, counted>>

-----------------------------------------------------------------------------
(* Daemon::run                                                             *)

Forget(w) == [m_cache EXCEPT ![w] = [class |-> Unknown, pid |-> Unknown]]

\* Slip: DestroyNotify is not handled.
DispatchKeyPressOnly ==
    /\ phase = "loop"
    /\ m_events # <<>>
    /\ counted' = IF Head(m_events).type = "KeyPress" THEN counted + 1 ELSE counted
    /\ m_events' = Tail(m_events)
    /\ UNCHANGED <<serverVars, pc, events, m_cache, phase, current, walk>>

\* Slip: the loop waits for the X server before it takes the event.
WaitFirst ==
    /\ phase = "loop"
    /\ m_events # <<>>
    /\ phase' = "wait"
    /\ UNCHANGED <<serverVars, pc, events, m_events, m_cache, current, walk, counted>>

\* One turn of the loop: a key press goes to the storage, a DestroyNotify
\* invalidates the entry of its window.
Dispatch ==
    /\ phase = "loop"
    /\ m_events # <<>>
    /\ IF Head(m_events).type = "KeyPress"
       THEN counted' = counted + 1 /\ UNCHANGED m_cache
       ELSE m_cache' = Forget(Head(m_events).window) /\ UNCHANGED counted
    /\ m_events' = Tail(m_events)
    /\ UNCHANGED <<serverVars, pc, events, phase, current, walk>>

\* nextEvent has nothing left: wait for the X server.
LoopWaits ==
    /\ phase = "loop"
    /\ m_events = <<>>
    /\ phase' = "wait"
    /\ UNCHANGED <<serverVars, pc, events, m_events, m_cache, current, walk, counted>>

-----------------------------------------------------------------------------

\* XRecordEnableContextAsync has just been called, and there are some windows.
Init == /\ life = [w \in Windows |-> 1]
        /\ parent \in {above \in [Windows -> Windows \cup {Root}] :
                           \A w \in Windows : <<w, above[w]>> \in Places}
        /\ owner \in [Windows -> {Nobody} \cup (Windows \X {1})]
        /\ \A w \in Windows : owner[w] \in {<<w, 1>>, Inherited(w)}
        /\ missed = {}
        /\ records = <<[type |-> "StartOfData"]>>
        /\ pc = 0
        /\ events = <<>>
        /\ m_events = <<>>
        /\ m_cache = [w \in Windows |-> [class |-> Unknown, pid |-> Unknown]]
        /\ phase = "loop"
        /\ current = NoEvent
        /\ walk = NoWalk
        /\ counted = 0
        /\ typed = <<>>

XServer == \E w \in Windows : \/ \E above \in Parents(w) : CreateWindow(w, above)
                              \/ DestroyWindow(w)
                              \/ \E k \in KeyCodes : PressKey(w, k)

MainThread == \/ eventCallback \/ WaitEnds
              \/ ProcessEvent \/ NoClassHint \/ MoveUp \/ FetchClassName
              \/ PidHint \/ FetchTermPid \/ FetchClientPid
              \/ ProcessEnds
              \/ Dispatch \/ LoopWaits

Next == XServer \/ MainThread

Spec == Init /\ [][Next]_vars

\* The main thread does nothing else; XRecordProcessReplies returns.
FairSpec == Spec /\ WF_vars(MainThread) /\ WF_vars(WaitEnds)

-----------------------------------------------------------------------------
(* Properties                                                              *)

Lives == 1..(MaxChanges + 1)
Owners == {Nobody} \cup (Windows \X Lives)
FetchPhases == {"fetchClassName", "fetchTermPid", "fetchClientPid"}

Owning == {Nobody} \cup (Windows \X Nat)
Presses == [type : {"KeyPress"}, window : Windows, key : KeyCodes, life : Nat, owner : Owning]
Records == Presses \cup [type : {"DestroyNotify"}, window : Windows]
                   \cup {[type |-> "StartOfData"]}

\* The types of the variables.  There is a current key press, and a walk for it,
\* exactly while setGroupId works on one.
TypeOK == /\ life \in [Windows -> Lives]
          /\ parent \in [Windows -> Windows \cup {Root}]
          /\ owner \in [Windows -> Owners]
          /\ records \in Seq(Records) /\ events \in Seq(Records) /\ m_events \in Seq(Records)
          /\ pc \in KeyCodes \cup {0}
          /\ \A w \in Windows : /\ m_cache[w].class \in Owners \cup {Unknown}
                                /\ m_cache[w].pid \in Owners \cup {Unknown}
          /\ phase \in {"loop", "wait", "process"} \cup FetchPhases
          /\ IF phase \in FetchPhases
             THEN /\ current \in Presses
                  /\ walk \in [at : Windows, request : {"hint", "parent", "pid"}]
             ELSE current = NoEvent /\ walk = NoWalk
          /\ counted \in 0..MaxPresses
          /\ typed \in Seq(KeyCodes) /\ missed \subseteq Windows

NoticeOnItsWay(w) ==
    \E queue \in {records, events, m_events} : Contains(queue, Notify(w))

\* What the cache has of another window than the one with the id is on its way
\* out: the notice of the destruction is in one of the three queues, unless it
\* was none that any client had asked for.  That holds in the middle of a walk
\* too, whatever becomes of the windows that it comes by.
StaleHasNotice ==
    \A w \in Windows :
        \/ /\ m_cache[w].class \in {Unknown, owner[w]} /\ Exists(w)
           /\ m_cache[w].pid \in {Unknown, owner[w]}
        \/ m_cache[w] = [class |-> Unknown, pid |-> Unknown]
        \/ NoticeOnItsWay(w)
        \/ w \in missed

\* Why StaleHasNotice holds: the windows form a tree, in which each belongs to itself
\* or to the owner of its parent.
WindowsInv ==
    \A w \in Windows : Exists(w) =>
        /\ parent[w] = Root \/ Exists(parent[w])
        /\ owner[w] \in {<<w, life[w]>>, Inherited(w)}

\* The window that was pressed in is there, or it is gone without any notice.
StillThere(press) == life[press.window] = press.life \/ press.window \in missed

NoticeAfter(queue, i) == \E j \in i + 1 .. Len(queue) : queue[j] = Notify(queue[i].window)

\* A notice overtakes no press: until a press is resolved, the notice that its window
\* was destroyed is behind it.
PressesInv ==
    /\ \A i \in 1..Len(records) : records[i].type = "KeyPress" =>
           StillThere(records[i]) \/ NoticeAfter(records, i)
    /\ \A i \in 1..Len(events) : events[i].type = "KeyPress" =>
           \/ StillThere(events[i]) \/ NoticeAfter(events, i)
           \/ Contains(records, Notify(events[i].window))
    /\ phase \in FetchPhases =>
           \/ StillThere(current)
           \/ \E queue \in {records, events} : Contains(queue, Notify(current.window))

\* Windows on the way up from one that is pressed in: none of them can be destroyed
\* before the one below it.
Path(below) ==
    {windows \in SUBSET Windows :
        /\ below \in windows
        /\ \A v \in windows : /\ Exists(v) /\ owner[v] = owner[below]
                              /\ v = below \/ \E u \in windows : parent[u] = v}

\* As long as the window of the press is there, the walk stays with its owner.
WalkInv ==
    phase \in FetchPhases /\ life[current.window] = current.life =>
        /\ \E windows \in Path(current.window) : walk.at \in windows
        /\ walk.request = "parent" => ~HasClassHint(walk.at)
        /\ walk.request = "pid" => HasClassHint(walk.at)

AllDispatched == records = <<>> /\ events = <<>> /\ m_events = <<>> /\ current = NoEvent

KeyChanges(keys) == {i \in 1..Len(keys) : i = 1 \/ keys[i] # keys[i - 1]}

\* A key press is counted at most once, however many clients it was delivered to and
\* however the records were batched; and a press of another key than the one before
\* is not missed, whatever became of its window.  EventMonitorX11.h has more in mind,
\* "every keypress": of one key pressed again and again the code may take one press
\* only, for it tells a second press from the record of a second client by the key.
CountsPresses ==
    /\ counted <= Len(typed)
    /\ AllDispatched => Cardinality(KeyChanges(typed)) <= counted

\* Every record is dispatched in the end, and the thread waits for the next.
QueuesDrain == (records # <<>>) ~> (AllDispatched /\ phase = "wait")

\* EventMonitorX11.cpp on the recorded events: "Also we must record DestroyNotify
\* to keep window information cache actual".  What setGroupId knows of a window
\* that is still there is about that window.
UsesActualEntry ==
    phase \in {"fetchTermPid", "fetchClientPid"} /\ life[current.window] = current.life =>
        Entry.class = current.owner
=============================================================================
