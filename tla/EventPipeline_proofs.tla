------------------------ MODULE EventPipeline_proofs ------------------------
(***************************************************************************)
(* Proofs about EventPipeline, for every set of windows, however deep they *)
(* are below one another, every number of clients that get or select an    *)
(* event, and every number of key presses and changes: what the window     *)
(* cache has of another window than the one with the id has its notice on  *)
(* the way, and each change from one key to another is counted once.       *)
(***************************************************************************)
EXTENDS EventPipeline, Sums_proofs, SequenceTheorems

-----------------------------------------------------------------------------
(* Queues                                                                  *)

LEMMA CopiesProperties ==
    ASSUME NEW n \in Nat, NEW S, NEW item \in S
    PROVE  /\ Copies(n, item) \in Seq(S)
           /\ Len(Copies(n, item)) = n
           /\ \A i \in 1..n : Copies(n, item)[i] = item
BY DEF Copies

\* longer is queue with n times item behind it.
Grown(longer, queue, n, item) ==
    /\ Len(longer) = Len(queue) + n
    /\ \A i \in 1..Len(queue) : longer[i] = queue[i]
    /\ \A i \in Len(queue) + 1 .. Len(queue) + n : longer[i] = item

LEMMA ConcatCopies ==
    ASSUME NEW S, NEW queue \in Seq(S), NEW n \in Nat, NEW item \in S
    PROVE  /\ queue \o Copies(n, item) \in Seq(S)
           /\ Grown(queue \o Copies(n, item), queue, n, item)
<1>1. /\ Copies(n, item) \in Seq(S)
      /\ Len(Copies(n, item)) = n
      /\ \A i \in 1..n : Copies(n, item)[i] = item
  BY CopiesProperties
<1>2. Len(queue) \in Nat
  BY LenProperties
<1> DEFINE longer == queue \o Copies(n, item)
<1>3. /\ longer \in Seq(S)
      /\ Len(longer) = Len(queue) + n
      /\ \A i \in 1 .. Len(queue) + n :
            longer[i] = IF i <= Len(queue) THEN queue[i] ELSE Copies(n, item)[i - Len(queue)]
  BY <1>1, ConcatProperties
<1>4. \A i \in Len(queue) + 1 .. Len(queue) + n : i - Len(queue) \in 1..n
  BY <1>2
<1> QED BY <1>1, <1>2, <1>3, <1>4 DEF Grown

LEMMA AppendProperty ==
    ASSUME NEW S, NEW queue \in Seq(S), NEW item \in S
    PROVE  /\ Append(queue, item) \in Seq(S)
           /\ Len(Append(queue, item)) = Len(queue) + 1
           /\ \A i \in 1..Len(queue) : Append(queue, item)[i] = queue[i]
           /\ Append(queue, item)[Len(queue) + 1] = item
BY AppendProperties

\* What is in a queue is its head or in its tail.
LEMMA ContainsTail ==
    ASSUME NEW S, NEW queue \in Seq(S), NEW item, Contains(queue, item)
    PROVE  queue # <<>> /\ (item = Head(queue) \/ Contains(Tail(queue), item))
<1>1. PICK i \in 1..Len(queue) : queue[i] = item
  BY DEF Contains
<1>2. Len(queue) \in Nat /\ queue # <<>>
  BY <1>1, LenProperties
<1>3. /\ Head(queue) = queue[1]
      /\ Len(Tail(queue)) = Len(queue) - 1
      /\ \A j \in 1..Len(Tail(queue)) : Tail(queue)[j] = queue[j + 1]
  BY <1>2, HeadTailProperties
<1>4. CASE i = 1
  BY <1>1, <1>2, <1>3, <1>4
<1>5. CASE i # 1
  <2>1. i - 1 \in 1..Len(Tail(queue))
    BY <1>2, <1>3, <1>5
  <2>2. Tail(queue)[i - 1] = item
    BY <1>1, <1>3, <2>1
  <2> QED BY <1>2, <2>1, <2>2 DEF Contains
<1> QED BY <1>4, <1>5

-----------------------------------------------------------------------------
(* The inductive invariant                                                 *)

\* TypeOK without its bounds.
Types == /\ life \in [Windows -> Nat]
         /\ parent \in [Windows -> Windows \cup {Root}]
         /\ owner \in [Windows -> Owning]
         /\ records \in Seq(Records)
         /\ events \in Seq(Records)
         /\ m_events \in Seq(Records)
         /\ m_cache \in [Windows -> [class : Owning \cup {Unknown},
                                    pid : Owning \cup {Unknown}]]
         /\ walk \in [at : Windows \cup {Root}, request : {"none", "hint", "parent", "pid"}]
         /\ phase \in {"loop", "wait", "process"} \cup FetchPhases
         /\ phase \in FetchPhases => current \in Presses /\ walk.at \in Windows

\* A press was in a window that there was, and lives only go on.
WasThere(press) == press.life % 2 = 1 /\ press.life <= life[press.window]

LivesInv ==
    /\ \A i \in 1..Len(records) : records[i].type = "KeyPress" => WasThere(records[i])
    /\ \A i \in 1..Len(events) : events[i].type = "KeyPress" => WasThere(events[i])
    /\ phase \in FetchPhases => WasThere(current)

PipelineInv == Types /\ LivesInv /\ WindowsInv /\ PressesInv /\ WalkInv /\ StaleHasNotice

LEMMA RecordTypes ==
    /\ \A r \in Records : r.type = "KeyPress" => r \in Presses
    /\ \A r \in Presses : r \in Records /\ r.type = "KeyPress" /\ r.window \in Windows
                         /\ r.life \in Nat
    /\ \A w \in Windows : Notify(w) \in Records /\ Notify(w).type = "DestroyNotify"
                          /\ Notify(w).window = w
BY DEF Records, Presses, Notify

LEMMA PressTypes ==
    ASSUME Types, NEW w \in Windows, NEW k \in KeyCodes
    PROVE  /\ Press(w, k) \in Presses
           /\ Press(w, k).window = w /\ Press(w, k).life = life[w]
BY DEF Types, Press, Presses

LEMMA PipelineInit == Init => PipelineInv
<1> SUFFICES ASSUME Init
             PROVE  PipelineInv
  OBVIOUS
<1>1. Types
  <2>1. owner \in [Windows -> Owning]
    BY DEF Init, Owning
  <2>2. records \in Seq(Records)
    BY DEF Init, Records
  <2> QED BY <2>1, <2>2 DEF Init, Types, NoWalk, FetchPhases
<1>2. LivesInv /\ PressesInv /\ WalkInv
  BY DEF Init, LivesInv, PressesInv, WalkInv, FetchPhases
<1>3. WindowsInv
  <2>1. \A w \in Windows : Exists(w)
    BY DEF Init, Exists
  <2> QED BY <2>1 DEF Init, WindowsInv
<1>4. StaleHasNotice
  BY DEF Init, StaleHasNotice
<1> QED BY <1>1, <1>2, <1>3, <1>4 DEF PipelineInv

-----------------------------------------------------------------------------
(* What the steps of the pipeline have in common                           *)

\* A step that leaves the windows and the cache alone, and lets no notice drop.
LEMMA StaleKept ==
    ASSUME StaleHasNotice, UNCHANGED <<life, owner, missed, m_cache>>,
           \A w \in Windows : NoticeOnItsWay(w) => NoticeOnItsWay(w)'
    PROVE  StaleHasNotice'
BY DEF StaleHasNotice, Exists

\* A step that leaves the windows and the press alone.
LEMMA WalkKept ==
    ASSUME WalkInv, UNCHANGED <<life, parent, owner, phase, current, walk>>
    PROVE  WalkInv'
BY DEF WalkInv, Path, Exists, HasClassHint

LEMMA WindowsKept ==
    ASSUME WindowsInv, UNCHANGED <<life, parent, owner>>
    PROVE  WindowsInv'
BY DEF WindowsInv, Exists, Inherited

\* A walk begins at the window of the press.
LEMMA WalkBegins ==
    ASSUME Types, NEW w \in Windows, current'.window = w, WasThere(current)', walk' = Walk(w),
           UNCHANGED <<life, parent, owner>>
    PROVE  WalkInv'
<1>1. walk'.at = w /\ walk'.request = "hint"
  BY DEF Walk
<1>2. ASSUME life'[w] = current'.life
      PROVE  {w} \in Path(w)'
  <2>1. Exists(w)'
    BY <1>2 DEF Exists, WasThere
  <2> QED BY <2>1 DEF Path, Exists
<1>3. ASSUME phase' \in FetchPhases, life'[current'.window] = current'.life
      PROVE  \E windows \in Path(current.window)' : walk'.at \in windows
  <2>1. {w} \in Path(w)'
    BY <1>2, <1>3
  <2>2. Path(current.window)' = Path(w)'
    BY DEF Path
  <2> QED BY <1>1, <2>1, <2>2
<1> QED BY <1>1, <1>3 DEF WalkInv

\* What a walk comes by while the window of the press is there.
LEMMA WalkAnswers ==
    ASSUME PipelineInv, phase \in FetchPhases, life[current.window] = current.life
    PROVE  /\ Exists(current.window) /\ Exists(walk.at)
           /\ owner[walk.at] = owner[current.window]
           /\ AtTheTop => owner[current.window] = Nobody
           /\ walk.request = "pid" => owner[current.window] = <<walk.at, life[walk.at]>>
<1>1. current.window \in Windows /\ walk.at \in Windows
  BY RecordTypes DEF PipelineInv, Types
<1>2. Exists(current.window)
  BY DEF PipelineInv, LivesInv, WasThere, Exists
<1>3. Exists(walk.at) /\ owner[walk.at] = owner[current.window]
  BY DEF PipelineInv, WalkInv, Path
<1>4. ASSUME AtTheTop
      PROVE  owner[walk.at] = Nobody
  <2>1. walk.request = "parent" /\ parent[walk.at] = Root
    BY <1>3, <1>4 DEF AtTheTop, Asks
  <2>2. owner[walk.at] # <<walk.at, life[walk.at]>>
    BY <1>3, <2>1 DEF PipelineInv, WalkInv, HasClassHint
  <2> QED BY <1>1, <1>3, <2>1, <2>2 DEF PipelineInv, WindowsInv, Inherited
<1>5. ASSUME walk.request = "pid"
      PROVE  owner[walk.at] = <<walk.at, life[walk.at]>>
  BY <1>5 DEF PipelineInv, WalkInv, HasClassHint
<1> QED BY <1>2, <1>3, <1>4, <1>5

\* When only records come in, whatever is known of a press stays known.
LEMMA RecordsGrow ==
    ASSUME PipelineInv, NEW n \in Nat, NEW item \in Records,
           records' = records \o Copies(n, item),
           UNCHANGED <<events, m_events>>
    PROVE  /\ records' \in Seq(Records)
           /\ \A i \in 1..Len(records') :
                 \/ records'[i] = item
                 \/ /\ i \in 1..Len(records)
                    /\ records'[i] = records[i]
                    /\ NoticeAfter(records, i) => NoticeAfter(records', i)
                    /\ n > 0 /\ item = Notify(records[i].window) => NoticeAfter(records', i)
           /\ \A other : Contains(records, other) => Contains(records', other)
           /\ n > 0 => Contains(records', item)
           /\ \A w \in Windows : NoticeOnItsWay(w) => NoticeOnItsWay(w)'
<1>1. records \in Seq(Records) /\ Len(records) \in Nat
  BY LenProperties DEF PipelineInv, Types
<1>2. records' \in Seq(Records) /\ Grown(records', records, n, item)
  BY <1>1, ConcatCopies
<1>3. ASSUME NEW i \in 1..Len(records), NoticeAfter(records, i)
      PROVE  NoticeAfter(records', i)
  BY <1>1, <1>2, <1>3 DEF NoticeAfter, Grown
<1>4. \A other : Contains(records, other) => Contains(records', other)
  BY <1>1, <1>2 DEF Contains, Grown
<1>5. n > 0 => /\ Len(records) + 1 \in 1..Len(records')
               /\ records'[Len(records) + 1] = item
  BY <1>1, <1>2 DEF Grown
<1>6. n > 0 => Contains(records', item)
  BY <1>5 DEF Contains
<1>7. ASSUME NEW i \in 1..Len(records), n > 0, item = Notify(records[i].window)
      PROVE  NoticeAfter(records', i)
  <2>1. records'[i] = records[i]
    BY <1>2 DEF Grown
  <2>2. Len(records) + 1 \in i + 1 .. Len(records')
    BY <1>1, <1>5, <1>7
  <2> QED BY <1>5, <1>7, <2>1, <2>2 DEF NoticeAfter
<1>8. ASSUME NEW i \in 1..Len(records')
      PROVE  records'[i] = item \/ (i \in 1..Len(records) /\ records'[i] = records[i])
  BY <1>1, <1>2 DEF Grown
<1>9. \A w \in Windows : NoticeOnItsWay(w) => NoticeOnItsWay(w)'
  BY <1>4 DEF NoticeOnItsWay
<1> QED BY <1>2, <1>3, <1>4, <1>6, <1>7, <1>8, <1>9

-----------------------------------------------------------------------------
(* X server                                                                *)

LEMMA PressKeyStep ==
    ASSUME PipelineInv, NEW w \in Windows, NEW k \in KeyCodes, PressKey(w, k)
    PROVE  PipelineInv'
<1> USE DEF PipelineInv
<1>1. PICK n \in Receivers : records' = records \o Copies(n, Press(w, k))
  BY DEF PressKey
<1>2. n \in Nat
  BY PipelineAssumption
<1>3. UNCHANGED <<windowVars, mainVars>>
  BY DEF PressKey
<1>4. /\ Press(w, k) \in Records
      /\ Press(w, k).type = "KeyPress" /\ Press(w, k).window = w
      /\ Press(w, k).life = life[w]
  BY PressTypes, RecordTypes
<1>5. Len(records) \in Nat
  BY LenProperties DEF Types
<1>6. Types'
  BY <1>1, <1>2, <1>3, <1>4, RecordsGrow DEF Types, windowVars, mainVars
<1>7. LivesInv'
  <2>1. WasThere(Press(w, k))
    BY <1>4 DEF WasThere, PressKey, Exists, Types
  <2>2. \A i \in 1..Len(records') :
           \/ records'[i] = Press(w, k)
           \/ i \in 1..Len(records) /\ records'[i] = records[i]
    BY <1>1, <1>2, <1>3, <1>4, <1>5, RecordsGrow DEF mainVars
  <2>3. \A press : WasThere(press)' <=> WasThere(press)
    BY <1>3 DEF WasThere, windowVars
  <2> QED BY <1>3, <2>1, <2>2, <2>3 DEF LivesInv, WasThere, mainVars, windowVars
<1>8. WindowsInv'
  BY <1>3, WindowsKept DEF windowVars
<1>9. PressesInv'
  <2>1. StillThere(Press(w, k))
    BY <1>4 DEF StillThere
  <2>2. \A press : StillThere(press)' <=> StillThere(press)
    BY <1>3 DEF StillThere, windowVars
  <2>3. \A i \in 1..Len(records') :
           \/ records'[i] = Press(w, k)
           \/ /\ i \in 1..Len(records) /\ records'[i] = records[i]
              /\ NoticeAfter(records, i) => NoticeAfter(records', i)
    BY <1>1, <1>2, <1>3, <1>4, <1>5, RecordsGrow DEF mainVars
  <2>4. \A other : Contains(records, other) => Contains(records', other)
    BY <1>1, <1>2, <1>3, <1>4, RecordsGrow DEF mainVars
  <2> QED BY <1>3, <2>1, <2>2, <2>3, <2>4 DEF PressesInv, StillThere, mainVars, windowVars
<1>10. WalkInv'
  BY <1>3, WalkKept DEF windowVars, mainVars
<1>11. StaleHasNotice'
  <2>1. \A v \in Windows : NoticeOnItsWay(v) => NoticeOnItsWay(v)'
    BY <1>1, <1>2, <1>3, <1>4, RecordsGrow DEF mainVars
  <2> QED BY <1>3, <2>1, StaleKept DEF windowVars, mainVars
<1> QED BY <1>6, <1>7, <1>8, <1>9, <1>10, <1>11

\* A window that begins another life is on no path, for it did not exist, and of no
\* press that is still to be resolved.
LEMMA CreateWindowStep ==
    ASSUME PipelineInv, NEW w \in Windows, NEW above \in Parents(w), CreateWindow(w, above)
    PROVE  PipelineInv'
<1> USE DEF PipelineInv
<1>1. /\ UNCHANGED <<missed, records, mainVars>>
      /\ life' = [life EXCEPT ![w] = @ + 1]
      /\ parent' = [parent EXCEPT ![w] = above]
      /\ \A v \in Windows : v # w => owner'[v] = owner[v]
      /\ owner'[w] \in {<<w, life[w] + 1>>, IF above = Root THEN Nobody ELSE owner[above]}
      /\ ~Exists(w)
  BY DEF CreateWindow, Types
<1>2. above \in Windows \cup {Root} /\ (above = Root \/ Exists(above)) /\ above # w
  BY <1>1, PipelineAssumption DEF Parents
<1>3. life[w] \in Nat /\ life'[w] = life[w] + 1 /\ \A v \in Windows : v # w => life'[v] = life[v]
  BY <1>1 DEF Types
<1>4. Exists(w)' /\ \A v \in Windows : v # w => (Exists(v)' <=> Exists(v))
  BY <1>1, <1>3 DEF Exists
<1>5. Types'
  <2>1. owner' \in [Windows -> Owning]
    BY <1>2, <1>3 DEF CreateWindow, Types, Owning
  <2>2. life' \in [Windows -> Nat] /\ parent' \in [Windows -> Windows \cup {Root}]
    BY <1>1, <1>2 DEF Types
  <2> QED BY <1>1, <2>1, <2>2 DEF Types, mainVars
<1>6. \A press \in Presses : WasThere(press) =>
          /\ WasThere(press)'
          /\ StillThere(press) => StillThere(press)'
          /\ life'[press.window] = press.life =>
                 press.window # w /\ life[press.window] = press.life
  <2> SUFFICES ASSUME NEW press \in Presses, WasThere(press)
               PROVE  /\ WasThere(press)'
                      /\ StillThere(press) => StillThere(press)'
                      /\ life'[press.window] = press.life =>
                             press.window # w /\ life[press.window] = press.life
    OBVIOUS
  <2>1. press.window \in Windows /\ press.life \in Nat
    BY RecordTypes
  <2>2. CASE press.window = w
    BY <1>1, <1>3, <2>1, <2>2 DEF WasThere, StillThere, Exists
  <2>3. CASE press.window # w
    BY <1>1, <1>3, <2>1, <2>3 DEF WasThere, StillThere
  <2> QED BY <2>2, <2>3
<1>7. /\ \A i \in 1..Len(records) : records[i].type = "KeyPress" => records[i] \in Presses
      /\ \A i \in 1..Len(events) : events[i].type = "KeyPress" => events[i] \in Presses
  BY RecordTypes, ElementOfSeq DEF Types
<1>8. LivesInv'
  BY <1>1, <1>6, <1>7 DEF LivesInv, Types, mainVars, WasThere
<1>9. WindowsInv'
  BY <1>1, <1>2, <1>3, <1>4 DEF WindowsInv, Inherited, Types
<1>10. PressesInv'
  BY <1>1, <1>6, <1>7 DEF PressesInv, LivesInv, Types, mainVars, StillThere
<1>11. WalkInv'
  <2> SUFFICES ASSUME phase' \in FetchPhases, life'[current'.window] = current'.life
               PROVE  /\ \E windows \in Path(current.window)' : walk'.at \in windows
                      /\ walk'.request = "parent" => ~HasClassHint(walk.at)'
                      /\ walk'.request = "pid" => HasClassHint(walk.at)'
    BY DEF WalkInv
  <2>1. /\ phase \in FetchPhases /\ UNCHANGED <<current, walk>>
        /\ current.window # w /\ life[current.window] = current.life
    BY <1>1, <1>6 DEF mainVars, Types, LivesInv
  <2>2. PICK windows \in Path(current.window) : walk.at \in windows
    BY <2>1 DEF WalkInv
  <2>3. w \notin windows /\ windows \subseteq Windows /\ current.window \in Windows
    BY <1>1, <2>1, RecordTypes DEF Path, Types
  <2>4. \A v \in windows : parent'[v] = parent[v] /\ owner'[v] = owner[v]
                           /\ (Exists(v)' <=> Exists(v)) /\ life'[v] = life[v]
    BY <1>1, <1>3, <1>4, <2>3 DEF Types
  <2>5. windows \in Path(current.window)'
    BY <1>1, <2>1, <2>3, <2>4 DEF Path
  <2>6. HasClassHint(walk.at)' <=> HasClassHint(walk.at)
    BY <2>1, <2>2, <2>4 DEF HasClassHint
  <2> QED BY <2>1, <2>2, <2>5, <2>6 DEF WalkInv
<1>12. StaleHasNotice'
  <2>1. \A v : NoticeOnItsWay(v)' <=> NoticeOnItsWay(v)
    BY <1>1 DEF NoticeOnItsWay, mainVars
  <2> QED BY <1>1, <1>4, <2>1 DEF StaleHasNotice, mainVars
<1> QED BY <1>5, <1>8, <1>9, <1>10, <1>11, <1>12

\* A window that a walk is at has one below it, so it is not the one destroyed, or it
\* is the window of the press: then its notice is behind the press.
LEMMA DestroyWindowStep ==
    ASSUME PipelineInv, NEW w \in Windows, DestroyWindow(w)
    PROVE  PipelineInv'
<1> USE DEF PipelineInv
<1>1. PICK n \in Selectors : /\ records' = records \o Copies(n, Notify(w))
                             /\ missed' = IF n = 0 THEN missed \cup {w} ELSE missed
  BY DEF DestroyWindow
<1>2. n \in Nat /\ Notify(w) \in Records
  BY PipelineAssumption, RecordTypes
<1>3. /\ UNCHANGED <<parent, owner, mainVars>>
      /\ life' = [life EXCEPT ![w] = @ + 1]
      /\ Exists(w) /\ Children(w) = {}
  BY DEF DestroyWindow
<1>4. life[w] \in Nat /\ life'[w] = life[w] + 1 /\ \A v \in Windows : v # w => life'[v] = life[v]
  BY <1>3 DEF Types
<1>5. ~Exists(w)' /\ \A v \in Windows : v # w => (Exists(v)' <=> Exists(v))
  BY <1>3, <1>4 DEF Exists
<1>6. n = 0 => w \in missed'
  BY <1>1
<1>7. missed \subseteq missed'
  BY <1>1
<1>8. /\ records' \in Seq(Records)
      /\ \A i \in 1..Len(records') :
            \/ records'[i] = Notify(w)
            \/ /\ i \in 1..Len(records)
               /\ records'[i] = records[i]
               /\ NoticeAfter(records, i) => NoticeAfter(records', i)
               /\ n > 0 /\ Notify(w) = Notify(records[i].window) => NoticeAfter(records', i)
      /\ \A other : Contains(records, other) => Contains(records', other)
      /\ n > 0 => Contains(records', Notify(w))
      /\ \A v \in Windows : NoticeOnItsWay(v) => NoticeOnItsWay(v)'
  BY <1>1, <1>2, <1>3, RecordsGrow DEF mainVars
<1>9. Types'
  BY <1>3, <1>4, <1>8 DEF Types, mainVars
<1>10. \A press \in Presses : WasThere(press) =>
          /\ WasThere(press)'
          /\ StillThere(press) => StillThere(press)' \/ (press.window = w /\ n > 0)
          /\ life'[press.window] = press.life =>
                 press.window # w /\ life[press.window] = press.life
  <2> SUFFICES ASSUME NEW press \in Presses, WasThere(press)
               PROVE  /\ WasThere(press)'
                      /\ StillThere(press) => StillThere(press)' \/ (press.window = w /\ n > 0)
                      /\ life'[press.window] = press.life =>
                             press.window # w /\ life[press.window] = press.life
    OBVIOUS
  <2>1. press.window \in Windows /\ press.life \in Nat
    BY RecordTypes
  <2>2. CASE press.window = w
    BY <1>2, <1>4, <1>6, <2>1, <2>2 DEF WasThere, StillThere
  <2>3. CASE press.window # w
    BY <1>4, <1>7, <2>1, <2>3 DEF WasThere, StillThere
  <2> QED BY <2>2, <2>3
<1>11. /\ \A i \in 1..Len(records) : records[i].type = "KeyPress" => records[i] \in Presses
       /\ \A i \in 1..Len(events) : events[i].type = "KeyPress" => events[i] \in Presses
  BY RecordTypes, ElementOfSeq DEF Types
<1>12. LivesInv'
  <2>1. \A i \in 1..Len(records') : records'[i].type = "KeyPress" =>
            i \in 1..Len(records) /\ records'[i] = records[i]
    BY <1>8, RecordTypes
  <2> QED BY <1>3, <1>10, <1>11, <2>1 DEF LivesInv, Types, mainVars, WasThere
<1>13. WindowsInv'
  <2>1. \A v \in Windows : Exists(v) => parent[v] # w
    BY <1>3 DEF Children
  <2> QED BY <1>3, <1>4, <1>5, <2>1 DEF WindowsInv, Inherited, Types
<1>14. PressesInv'
  <2>1. ASSUME NEW i \in 1..Len(records'), NEW press, press = records'[i],
               press.type = "KeyPress"
        PROVE  StillThere(press)' \/ NoticeAfter(records', i)
    <3>1. /\ i \in 1..Len(records) /\ press = records[i]
          /\ NoticeAfter(records, i) => NoticeAfter(records', i)
          /\ n > 0 /\ Notify(w) = Notify(press.window) => NoticeAfter(records', i)
      BY <1>8, <2>1, RecordTypes
    <3>2. press \in Presses /\ WasThere(press)
      BY <1>11, <2>1, <3>1 DEF LivesInv
    <3>3. StillThere(press) \/ NoticeAfter(records, i)
      BY <2>1, <3>1 DEF PressesInv
    <3> QED BY <1>10, <3>1, <3>2, <3>3
  <2>2. ASSUME NEW i \in 1..Len(events), NEW press, press = events[i],
               press.type = "KeyPress"
        PROVE  \/ StillThere(press)' \/ NoticeAfter(events, i)
               \/ Contains(records', Notify(press.window))
    <3>1. press \in Presses /\ WasThere(press)
      BY <1>11, <2>2 DEF LivesInv
    <3>2. \/ StillThere(press) \/ NoticeAfter(events, i)
          \/ Contains(records, Notify(press.window))
      BY <2>2 DEF PressesInv
    <3> QED BY <1>8, <1>10, <3>1, <3>2
  <2>3. ASSUME phase \in FetchPhases, NEW press, press = current
        PROVE  \/ StillThere(press)'
               \/ \E queue \in {records', events} : Contains(queue, Notify(press.window))
    <3>1. press \in Presses /\ WasThere(press)
      BY <2>3 DEF LivesInv, Types
    <3>2. \/ StillThere(press)
          \/ \E queue \in {records, events} : Contains(queue, Notify(press.window))
      BY <2>3 DEF PressesInv
    <3> QED BY <1>8, <1>10, <3>1, <3>2
  <2> QED BY <1>3, <2>1, <2>2, <2>3 DEF PressesInv, StillThere, mainVars
<1>15. WalkInv'
  <2> SUFFICES ASSUME phase' \in FetchPhases, life'[current'.window] = current'.life
               PROVE  /\ \E windows \in Path(current.window)' : walk'.at \in windows
                      /\ walk'.request = "parent" => ~HasClassHint(walk.at)'
                      /\ walk'.request = "pid" => HasClassHint(walk.at)'
    BY DEF WalkInv
  <2>1. /\ phase \in FetchPhases /\ UNCHANGED <<current, walk>>
        /\ current.window # w /\ life[current.window] = current.life
    BY <1>3, <1>10 DEF mainVars, Types, LivesInv
  <2>2. PICK windows \in Path(current.window) : walk.at \in windows
    BY <2>1 DEF WalkInv
  <2>3. windows \subseteq Windows /\ current.window \in Windows
    BY <2>1, RecordTypes DEF Path, Types
  <2>4. w \notin windows
    BY <1>3, <2>1, <2>3 DEF Path, Children
  <2>5. \A v \in windows : (Exists(v)' <=> Exists(v)) /\ life'[v] = life[v]
    BY <1>4, <1>5, <2>3, <2>4
  <2>6. windows \in Path(current.window)'
    BY <1>3, <2>1, <2>3, <2>5 DEF Path
  <2>7. HasClassHint(walk.at)' <=> HasClassHint(walk.at)
    BY <1>3, <2>1, <2>2, <2>5 DEF HasClassHint
  <2> QED BY <2>1, <2>2, <2>6, <2>7 DEF WalkInv
<1>16. StaleHasNotice'
  <2>1. n > 0 => NoticeOnItsWay(w)'
    BY <1>8 DEF NoticeOnItsWay
  <2>2. NoticeOnItsWay(w)' \/ w \in missed'
    BY <1>2, <1>6, <2>1
  <2> QED BY <1>3, <1>5, <1>7, <1>8, <2>2 DEF StaleHasNotice, mainVars
<1> QED BY <1>9, <1>12, <1>13, <1>14, <1>15, <1>16

-----------------------------------------------------------------------------
(* EventMonitorX11 and EventFilter::processEvents                          *)

LEMMA QueueTail ==
    ASSUME NEW S, NEW queue \in Seq(S), queue # <<>>
    PROVE  /\ Tail(queue) \in Seq(S) /\ Head(queue) \in S
           /\ 1 \in 1..Len(queue) /\ Head(queue) = queue[1]
           /\ NoticeAfter(queue, 1) => Contains(Tail(queue), Notify(Head(queue).window))
           /\ \A i \in 1..Len(Tail(queue)) :
                 /\ i + 1 \in 1..Len(queue) /\ Tail(queue)[i] = queue[i + 1]
                 /\ NoticeAfter(queue, i + 1) => NoticeAfter(Tail(queue), i)
<1>1. Len(queue) \in Nat /\ Len(queue) > 0
  BY EmptySeq, LenProperties
<1>2. /\ Tail(queue) \in Seq(S) /\ Head(queue) \in S /\ Head(queue) = queue[1]
      /\ Len(Tail(queue)) = Len(queue) - 1
      /\ \A i \in 1..Len(Tail(queue)) : Tail(queue)[i] = queue[i + 1]
  BY HeadTailProperties
<1>3. ASSUME NoticeAfter(queue, 1)
      PROVE  Contains(Tail(queue), Notify(Head(queue).window))
  <2>1. PICK j \in 2..Len(queue) : queue[j] = Notify(Head(queue).window)
    BY <1>2, <1>3 DEF NoticeAfter
  <2>2. j - 1 \in 1..Len(Tail(queue)) /\ Tail(queue)[j - 1] = queue[j]
    BY <1>1, <1>2
  <2> QED BY <2>1, <2>2 DEF Contains
<1>4. ASSUME NEW i \in 1..Len(Tail(queue)), NoticeAfter(queue, i + 1)
      PROVE  NoticeAfter(Tail(queue), i)
  <2>1. PICK j \in i + 2 .. Len(queue) : queue[j] = Notify(queue[i + 1].window)
    BY <1>4 DEF NoticeAfter
  <2>2. j - 1 \in i + 1 .. Len(Tail(queue)) /\ Tail(queue)[j - 1] = queue[j]
    BY <1>1, <1>2
  <2>3. Tail(queue)[i] = queue[i + 1]
    BY <1>2
  <2> QED BY <2>1, <2>2, <2>3 DEF NoticeAfter
<1>5. \A i \in 1..Len(Tail(queue)) : i + 1 \in 1..Len(queue)
  BY <1>1, <1>2
<1>6. 1 \in 1..Len(queue)
  BY <1>1
<1> QED BY <1>2, <1>3, <1>4, <1>5, <1>6

LEMMA QueueAppend ==
    ASSUME NEW S, NEW queue \in Seq(S), NEW item \in S
    PROVE  LET longer == Append(queue, item)
           IN  /\ longer \in Seq(S)
               /\ Contains(longer, item)
               /\ \A other : Contains(queue, other) => Contains(longer, other)
               /\ \A i \in 1..Len(longer) :
                     \/ longer[i] = item
                     \/ /\ i \in 1..Len(queue) /\ longer[i] = queue[i]
                        /\ NoticeAfter(queue, i) => NoticeAfter(longer, i)
                        /\ item = Notify(queue[i].window) => NoticeAfter(longer, i)
<1> DEFINE longer == Append(queue, item)
<1>1. Len(queue) \in Nat
  BY LenProperties
<1>2. /\ longer \in Seq(S)
      /\ Len(longer) = Len(queue) + 1
      /\ \A i \in 1..Len(queue) : longer[i] = queue[i]
      /\ longer[Len(queue) + 1] = item
  BY AppendProperty
<1> HIDE DEF longer
<1>3. Contains(longer, item) /\ \A other : Contains(queue, other) => Contains(longer, other)
  BY <1>1, <1>2 DEF Contains
<1>4. ASSUME NEW i \in 1..Len(longer)
      PROVE  \/ longer[i] = item
             \/ i \in 1..Len(queue) /\ longer[i] = queue[i]
  BY <1>1, <1>2
<1>5. ASSUME NEW i \in 1..Len(queue),
             NoticeAfter(queue, i) \/ item = Notify(queue[i].window)
      PROVE  NoticeAfter(longer, i)
  BY <1>1, <1>2, <1>5 DEF NoticeAfter
<1> QED BY <1>2, <1>3, <1>4, <1>5 DEF longer

\* A record on its way from the X server to the raw events passes no other one.
LEMMA eventCallbackStep ==
    ASSUME PipelineInv, eventCallback
    PROVE  PipelineInv'
<1> USE DEF PipelineInv
<1>1. /\ phase = "wait" /\ records # <<>>
      /\ records' = Tail(records)
      /\ UNCHANGED <<windowVars, m_events, m_cache, phase, current, walk>>
      /\ events' \in {events, Append(events, Head(records))}
      /\ Head(records).type = "DestroyNotify" => events' = Append(events, Head(records))
  BY DEF eventCallback
<1>2. /\ records' \in Seq(Records) /\ Head(records) \in Records
      /\ 1 \in 1..Len(records) /\ Head(records) = records[1]
      /\ NoticeAfter(records, 1) => Contains(records', Notify(Head(records).window))
      /\ \A i \in 1..Len(records') :
            /\ i + 1 \in 1..Len(records) /\ records'[i] = records[i + 1]
            /\ NoticeAfter(records, i + 1) => NoticeAfter(records', i)
  BY <1>1, QueueTail DEF Types
<1>3. /\ events' \in Seq(Records)
      /\ \A other : Contains(events, other) => Contains(events', other)
      /\ \A i \in 1..Len(events') :
            \/ events'[i] = Head(records)
            \/ /\ i \in 1..Len(events) /\ events'[i] = events[i]
               /\ NoticeAfter(events, i) => NoticeAfter(events', i)
               /\ Head(records) = Notify(events[i].window) => NoticeAfter(events', i)
  <2>1. CASE events' = Append(events, Head(records))
    BY <1>2, <2>1, QueueAppend DEF Types
  <2>2. CASE events' = events /\ Head(records).type # "DestroyNotify"
    <3>1. \A w : Head(records) # Notify(w)
      BY <2>2 DEF Notify
    <3> QED BY <2>2, <3>1 DEF Types
  <2> QED BY <1>1, <2>1, <2>2
<1>4. ASSUME NEW item, item.type = "DestroyNotify", Contains(records, item)
      PROVE  Contains(records', item) \/ Contains(events', item)
  <2>1. item = Head(records) \/ Contains(records', item)
    BY <1>1, <1>4, ContainsTail DEF Types
  <2>2. CASE item = Head(records)
    <3>1. events' = Append(events, item)
      BY <1>1, <1>4, <2>2
    <3> QED BY <1>2, <2>2, <3>1, QueueAppend DEF Types
  <2> QED BY <2>1, <2>2
<1>5. Types'
  BY <1>1, <1>2, <1>3 DEF Types, windowVars
<1>6. LivesInv'
  BY <1>1, <1>2, <1>3 DEF LivesInv, WasThere, windowVars
<1>7. WindowsInv' /\ WalkInv'
  BY <1>1, WindowsKept, WalkKept DEF windowVars
<1>8. PressesInv'
  <2>1. \A press : StillThere(press)' <=> StillThere(press)
    BY <1>1 DEF StillThere, windowVars
  <2>2. ASSUME NEW i \in 1..Len(records'), NEW press, press = records'[i],
               press.type = "KeyPress"
        PROVE  StillThere(press) \/ NoticeAfter(records', i)
    BY <1>2, <2>2 DEF PressesInv
  <2>3. ASSUME NEW i \in 1..Len(events'), NEW press, press = events'[i],
               press.type = "KeyPress"
        PROVE  \/ StillThere(press) \/ NoticeAfter(events', i)
               \/ Contains(records', Notify(press.window))
    <3>1. CASE press = Head(records)
      BY <1>2, <2>3, <3>1 DEF PressesInv
    <3>2. CASE i \in 1..Len(events) /\ press = events[i] /\ press # Head(records)
      <4>1. \/ StillThere(press) \/ NoticeAfter(events, i)
            \/ Contains(records, Notify(press.window))
        BY <2>3, <3>2 DEF PressesInv
      <4>2. ASSUME Contains(records, Notify(press.window))
            PROVE  Notify(press.window) = Head(records) \/ Contains(records', Notify(press.window))
        BY <1>1, <4>2, ContainsTail DEF Types
      <4> QED BY <1>3, <2>3, <3>2, <4>1, <4>2
    <3> QED BY <1>3, <2>3, <3>1, <3>2
  <2>4. phase' \notin FetchPhases
    BY <1>1 DEF FetchPhases
  <2> QED BY <2>1, <2>2, <2>3, <2>4 DEF PressesInv, StillThere
<1>9. StaleHasNotice'
  <2>1. ASSUME NEW w \in Windows, NoticeOnItsWay(w)
        PROVE  NoticeOnItsWay(w)'
    <3>1. Contains(records, Notify(w)) =>
              Contains(records', Notify(w)) \/ Contains(events', Notify(w))
      BY <1>4, RecordTypes
    <3> QED BY <1>1, <1>3, <2>1, <3>1 DEF NoticeOnItsWay
  <2> QED BY <1>1, <2>1, StaleKept DEF windowVars
<1> QED BY <1>5, <1>6, <1>7, <1>8, <1>9

LEMMA ProcessEventStep ==
    ASSUME PipelineInv, ProcessEvent
    PROVE  PipelineInv'
<1> USE DEF PipelineInv
<1> DEFINE event == Head(events)
<1>1. /\ phase = "process" /\ events # <<>>
      /\ events' = Tail(events)
      /\ UNCHANGED <<windowVars, records, m_cache>>
      /\ \/ /\ event.type = "KeyPress"
            /\ current' = event /\ phase' = "fetchClassName" /\ walk' = Walk(event.window)
            /\ UNCHANGED m_events
         \/ /\ event.type # "KeyPress"
            /\ m_events' = Append(m_events, event)
            /\ UNCHANGED <<current, phase, walk>>
  BY DEF ProcessEvent, serverVars
<1>2. /\ events' \in Seq(Records) /\ event \in Records
      /\ 1 \in 1..Len(events) /\ event = events[1]
      /\ NoticeAfter(events, 1) => Contains(events', Notify(event.window))
      /\ \A i \in 1..Len(events') :
            /\ i + 1 \in 1..Len(events) /\ events'[i] = events[i + 1]
            /\ NoticeAfter(events, i + 1) => NoticeAfter(events', i)
  BY <1>1, QueueTail DEF Types
<1> HIDE DEF event
<1>3. /\ m_events' \in Seq(Records)
      /\ \A other : Contains(m_events, other) => Contains(m_events', other)
      /\ event.type # "KeyPress" => Contains(m_events', event)
  <2>1. CASE event.type = "KeyPress"
    BY <1>1, <2>1 DEF Types
  <2>2. CASE m_events' = Append(m_events, event)
    BY <1>2, <2>2, QueueAppend DEF Types
  <2> QED BY <1>1, <2>1, <2>2
<1>4. \A press : /\ StillThere(press)' <=> StillThere(press)
                 /\ WasThere(press)' <=> WasThere(press)
  BY <1>1 DEF StillThere, WasThere, windowVars
<1>5. event.type = "KeyPress" =>
          /\ event \in Presses /\ event.window \in Windows /\ WasThere(event)
          /\ \/ StillThere(event) \/ Contains(events', Notify(event.window))
             \/ Contains(records, Notify(event.window))
  BY <1>2, RecordTypes DEF LivesInv, PressesInv
<1>6. Types'
  <2>1. walk' \in [at : Windows \cup {Root}, request : {"none", "hint", "parent", "pid"}]
    BY <1>1, <1>5 DEF Types, Walk
  <2>2. phase' \in FetchPhases => current' \in Presses /\ walk'.at \in Windows
    BY <1>1, <1>5 DEF Walk, FetchPhases
  <2>3. phase' \in {"loop", "wait", "process"} \cup FetchPhases
    BY <1>1 DEF FetchPhases
  <2> QED BY <1>1, <1>2, <1>3, <2>1, <2>2, <2>3 DEF Types, windowVars
<1>7. LivesInv'
  <2>1. phase' \in FetchPhases => WasThere(current')
    BY <1>1, <1>5 DEF FetchPhases
  <2> QED BY <1>1, <1>2, <1>4, <2>1 DEF LivesInv, WasThere, windowVars
<1>8. WindowsInv'
  BY <1>1, WindowsKept DEF windowVars
<1>9. PressesInv'
  <2>1. ASSUME NEW i \in 1..Len(events'), NEW press, press = events'[i],
               press.type = "KeyPress"
        PROVE  \/ StillThere(press) \/ NoticeAfter(events', i)
               \/ Contains(records, Notify(press.window))
    BY <1>2, <2>1 DEF PressesInv
  <2>2. ASSUME phase' \in FetchPhases, NEW press, press = current'
        PROVE  \/ StillThere(press)
               \/ \E queue \in {records, events'} : Contains(queue, Notify(press.window))
    BY <1>1, <1>5, <2>2 DEF FetchPhases
  <2>3. UNCHANGED records
    BY <1>1
  <2>4. \A i \in 1..Len(records) : records[i].type = "KeyPress" =>
            StillThere(records[i]) \/ NoticeAfter(records, i)
    BY DEF PressesInv
  <2> QED BY <1>1, <2>1, <2>2, <2>3, <2>4 DEF PressesInv, StillThere, windowVars
<1>10. WalkInv'
  <2>1. CASE event.type = "KeyPress"
    <3>1. /\ current'.window = event.window /\ WasThere(event)
          /\ walk' = Walk(event.window) /\ event.window \in Windows
      BY <1>1, <1>5, <2>1
    <3>2. UNCHANGED <<life, parent, owner>>
      BY <1>1 DEF windowVars
    <3>3. WasThere(current)'
      BY <1>1, <2>1, <3>1, <3>2 DEF WasThere
    <3> QED BY <3>1, <3>2, <3>3, WalkBegins
  <2>2. CASE event.type # "KeyPress"
    BY <1>1, <2>2, WalkKept DEF windowVars
  <2> QED BY <2>1, <2>2
<1>11. StaleHasNotice'
  <2>1. ASSUME NEW w \in Windows, NoticeOnItsWay(w)
        PROVE  NoticeOnItsWay(w)'
    <3>1. Contains(events, Notify(w)) => Contains(events', Notify(w)) \/ event = Notify(w)
      BY <1>1, ContainsTail DEF Types, event
    <3>2. event = Notify(w) => Contains(m_events', Notify(w))
      BY <1>3, RecordTypes
    <3> QED BY <1>1, <1>3, <2>1, <3>1, <3>2 DEF NoticeOnItsWay
  <2> QED BY <1>1, <2>1, StaleKept DEF windowVars
<1> QED BY <1>6, <1>7, <1>8, <1>9, <1>10, <1>11

-----------------------------------------------------------------------------
(* The walks of KfWindowCache                                              *)

\* Steps that leave the queues and the press alone.
LEMMA QueuesKept ==
    ASSUME PipelineInv, UNCHANGED <<windowVars, records, events>>,
           phase' \in FetchPhases => phase \in FetchPhases /\ UNCHANGED current
    PROVE  LivesInv' /\ WindowsInv' /\ PressesInv'
<1> USE DEF PipelineInv
<1>1. \A press : /\ StillThere(press)' <=> StillThere(press)
                 /\ WasThere(press)' <=> WasThere(press)
  BY DEF StillThere, WasThere, windowVars
<1>2. LivesInv'
  BY <1>1 DEF LivesInv, WasThere, windowVars
<1>3. WindowsInv'
  BY WindowsKept DEF windowVars
<1>4. PressesInv'
  BY <1>1 DEF PressesInv, StillThere, windowVars
<1> QED BY <1>2, <1>3, <1>4

LEMMA WalkStep ==
    ASSUME PipelineInv, NoClassHint \/ MoveUp \/ PidHint
    PROVE  PipelineInv'
<1> USE DEF PipelineInv
<1>1. /\ UNCHANGED <<serverVars, events, m_events, m_cache, phase, current>>
      /\ phase \in FetchPhases
  BY DEF NoClassHint, MoveUp, PidHint, Asks, FetchPhases
<1>2. walk.at \in Windows /\ current.window \in Windows
  BY <1>1, RecordTypes DEF Types
<1>3. walk' \in [at : Windows, request : {"hint", "parent", "pid"}]
  <2>1. CASE NoClassHint
    BY <1>2, <2>1 DEF NoClassHint, Types
  <2>2. CASE MoveUp
    <3>1. parent[walk.at] \in Windows
      BY <1>2, <2>2 DEF MoveUp, Types
    <3> QED BY <2>2, <3>1 DEF MoveUp, Walk
  <2>3. CASE PidHint
    BY <1>2, <2>3 DEF PidHint, Types
  <2> QED BY <2>1, <2>2, <2>3
<1>4. Types'
  BY <1>1, <1>3 DEF Types, serverVars, windowVars
<1>5. LivesInv' /\ WindowsInv' /\ PressesInv'
  BY <1>1, QueuesKept DEF serverVars
<1>6. WalkInv'
  <2> SUFFICES ASSUME life[current.window] = current.life
               PROVE  /\ \E windows \in Path(current.window) : walk'.at \in windows
                      /\ walk'.request = "parent" => ~HasClassHint(walk'.at)
                      /\ walk'.request = "pid" => HasClassHint(walk'.at)
    BY <1>1 DEF WalkInv, Path, HasClassHint, Exists, serverVars, windowVars
  <2>1. PICK windows \in Path(current.window) : walk.at \in windows
    BY <1>1 DEF WalkInv
  <2>2. CASE NoClassHint
    <3>1. walk'.at = walk.at /\ walk'.request = "parent" /\ ~HasClassHint(walk.at)
      BY <2>2 DEF NoClassHint, Types
    <3> QED BY <2>1, <3>1
  <2>3. CASE PidHint
    <3>1. walk'.at = walk.at /\ walk'.request = "pid" /\ HasClassHint(walk.at)
      BY <2>3 DEF PidHint, Types
    <3> QED BY <2>1, <3>1
  <2>4. CASE MoveUp
    <3> DEFINE above == parent[walk.at]
    <3>1. /\ Exists(walk.at) /\ above # Root /\ ~HasClassHint(walk.at)
          /\ walk'.at = above /\ walk'.request = "hint"
      BY <1>1, <2>4 DEF MoveUp, Asks, WalkInv, Walk
    <3>2. above \in Windows /\ Exists(above) /\ owner[above] = owner[walk.at]
      BY <1>2, <3>1 DEF WindowsInv, Inherited, HasClassHint, Types
    <3>3. windows \cup {above} \in Path(current.window)
      BY <2>1, <3>2 DEF Path
    <3> QED BY <3>1, <3>3
  <2> QED BY <2>2, <2>3, <2>4
<1>7. StaleHasNotice'
  <2>1. \A w : NoticeOnItsWay(w)' <=> NoticeOnItsWay(w)
    BY <1>1 DEF NoticeOnItsWay, serverVars
  <2> QED BY <1>1, <2>1, StaleKept DEF serverVars, windowVars
<1> QED BY <1>4, <1>5, <1>6, <1>7

-----------------------------------------------------------------------------
(* What the fetches put into the cache                                     *)

\* The entry of the window of the press gets what is its owner's, or the window is
\* not the one of the press any more: then the notice is behind the press.
LEMMA EntryFilled ==
    ASSUME PipelineInv, phase \in FetchPhases,
           UNCHANGED <<windowVars, records, events>>,
           \A other : Contains(m_events, other) => Contains(m_events', other),
           \A w \in Windows : w # current.window => m_cache'[w] = m_cache[w],
           life[current.window] = current.life =>
               /\ m_cache'[current.window].class \in
                      {Entry.class, Unknown, owner[current.window]}
               /\ m_cache'[current.window].pid \in
                      {Entry.pid, Unknown, owner[current.window]}
    PROVE  StaleHasNotice'
<1> USE DEF PipelineInv
<1> DEFINE w == current.window
<1>1. w \in Windows
  BY RecordTypes DEF Types
<1>2. \A v : NoticeOnItsWay(v) => NoticeOnItsWay(v)'
  BY DEF NoticeOnItsWay
<1>3. \/ NoticeOnItsWay(w) \/ w \in missed
      \/ life[w] = current.life
  BY DEF PressesInv, StillThere, NoticeOnItsWay
<1>4. CASE life[w] = current.life
  <2>1. Exists(w)
    BY <1>4 DEF LivesInv, WasThere, Exists
  <2>2. \/ Entry.class \in {Unknown, owner[w]} /\ Entry.pid \in {Unknown, owner[w]}
        \/ NoticeOnItsWay(w) \/ w \in missed
    BY <1>1 DEF StaleHasNotice, Entry
  <2>3. \/ m_cache'[w].class \in {Unknown, owner[w]} /\ m_cache'[w].pid \in {Unknown, owner[w]}
        \/ NoticeOnItsWay(w) \/ w \in missed
    BY <1>4, <2>2
  <2> QED BY <1>2, <2>1, <2>3 DEF StaleHasNotice, Exists, windowVars
<1>5. CASE NoticeOnItsWay(w) \/ w \in missed
  BY <1>2, <1>5 DEF StaleHasNotice, Exists, windowVars
<1> QED BY <1>3, <1>4, <1>5

LEMMA FetchClassNameStep ==
    ASSUME PipelineInv, FetchClassName
    PROVE  PipelineInv'
<1> USE DEF PipelineInv
<1>1. PICK class :
          /\ ClassFetched(class)
          /\ \/ class = Entry.class
             \/ Asks("hint") /\ HasClassHint(walk.at) /\ class = owner[walk.at]
             \/ AtTheTop /\ class = Nobody
  BY DEF FetchClassName
<1>2. phase = "fetchClassName" /\ phase \in FetchPhases
  BY DEF FetchClassName, FetchPhases
<1>3. /\ UNCHANGED <<serverVars, events, m_events, current>>
      /\ m_cache' = [m_cache EXCEPT ![current.window].class = class]
      /\ phase' \in FetchPhases
      /\ walk' = Walk(current.window)
  BY <1>1 DEF ClassFetched, FetchPhases
<1>4. current.window \in Windows /\ walk.at \in Windows
  BY <1>2, RecordTypes DEF Types
<1>5. class \in Owning \cup {Unknown}
  BY <1>1, <1>4 DEF Types, Entry, Owning
<1>6. Types'
  <2>1. m_cache' \in [Windows -> [class : Owning \cup {Unknown}, pid : Owning \cup {Unknown}]]
    BY <1>3, <1>4, <1>5 DEF Types
  <2>2. /\ walk' \in [at : Windows \cup {Root}, request : {"none", "hint", "parent", "pid"}]
        /\ walk'.at \in Windows
    BY <1>3, <1>4 DEF Walk
  <2> QED BY <1>2, <1>3, <2>1, <2>2 DEF Types, serverVars, windowVars
<1>7. LivesInv' /\ WindowsInv' /\ PressesInv'
  BY <1>2, <1>3, QueuesKept DEF serverVars
<1>8. WalkInv'
  <2>1. current'.window = current.window /\ UNCHANGED <<life, parent, owner>>
    BY <1>3 DEF serverVars, windowVars
  <2>2. WasThere(current)'
    BY <1>3, <1>7 DEF LivesInv
  <2> QED BY <1>3, <1>4, <2>1, <2>2, WalkBegins
<1>9. StaleHasNotice'
  <2>1. \A w \in Windows : w # current.window => m_cache'[w] = m_cache[w]
    BY <1>3 DEF Types
  <2>2. m_cache'[current.window].pid = Entry.pid /\ m_cache'[current.window].class = class
    BY <1>3, <1>4 DEF Types, Entry
  <2>3. life[current.window] = current.life => class \in {Entry.class, owner[current.window]}
    BY <1>1, <1>2, WalkAnswers
  <2> QED BY <1>2, <1>3, <2>1, <2>2, <2>3, EntryFilled DEF serverVars
<1> QED BY <1>6, <1>7, <1>8, <1>9

LEMMA FetchPidStep ==
    ASSUME PipelineInv, FetchTermPid \/ FetchClientPid
    PROVE  PipelineInv'
<1> USE DEF PipelineInv
<1>1. phase \in {"fetchTermPid", "fetchClientPid"} /\ phase \in FetchPhases
  BY DEF FetchTermPid, FetchClientPid, FetchPhases
<1>2. PICK pid \in Pids : Cached(pid)
  BY DEF FetchTermPid, FetchClientPid
<1>3. /\ UNCHANGED <<serverVars, events>>
      /\ m_cache' = [m_cache EXCEPT ![current.window].pid = pid]
  BY <1>2 DEF FetchTermPid, FetchClientPid, Cached
<1>4. \/ QueueEvent
      \/ /\ phase' = "fetchClientPid" /\ walk' = Walk(current.window)
         /\ UNCHANGED <<m_events, current>>
  BY DEF FetchTermPid, FetchClientPid
<1>5. current \in Presses /\ current.window \in Windows /\ walk.at \in Windows
  BY <1>1, RecordTypes DEF Types
<1>6. \/ pid = Entry.pid
      \/ pid = Unknown
      \/ walk.request = "pid" /\ pid = <<walk.at, life[walk.at]>>
  BY <1>2 DEF Pids, Asks
<1>7. pid \in Owning \cup {Unknown}
  BY <1>5, <1>6 DEF Types, Entry, Owning
<1>8. /\ m_events' \in Seq(Records)
      /\ \A other : Contains(m_events, other) => Contains(m_events', other)
  <2>1. CASE m_events' = Append(m_events, current)
    <3>1. m_events \in Seq(Records) /\ current \in Records
      BY <1>5, RecordTypes DEF Types
    <3> QED BY <2>1, <3>1, QueueAppend
  <2>2. CASE UNCHANGED m_events
    BY <2>2 DEF Types
  <2> QED BY <1>4, <2>1, <2>2 DEF QueueEvent
<1>9. Types'
  <2>1. m_cache' \in [Windows -> [class : Owning \cup {Unknown}, pid : Owning \cup {Unknown}]]
    BY <1>3, <1>5, <1>7 DEF Types
  <2>2. CASE QueueEvent
    <3>1. walk' \in [at : Windows \cup {Root}, request : {"none", "hint", "parent", "pid"}]
      BY <2>2 DEF QueueEvent, NoWalk
    <3>2. phase' = "process" /\ phase' \notin FetchPhases
      BY <2>2 DEF QueueEvent, FetchPhases
    <3> QED BY <1>3, <1>8, <2>1, <3>1, <3>2 DEF Types, serverVars, windowVars
  <2>3. CASE phase' = "fetchClientPid" /\ walk' = Walk(current.window) /\ UNCHANGED current
    <3>1. walk' \in [at : Windows, request : {"hint"}]
      BY <1>5, <2>3 DEF Walk
    <3>2. phase' \in FetchPhases
      BY <2>3 DEF FetchPhases
    <3> QED BY <1>3, <1>5, <1>8, <2>1, <2>3, <3>1, <3>2 DEF Types, serverVars, windowVars
  <2> QED BY <1>4, <2>2, <2>3
<1>10. LivesInv' /\ WindowsInv' /\ PressesInv'
  <2>1. phase' \in FetchPhases => UNCHANGED current
    BY <1>4 DEF QueueEvent, FetchPhases
  <2> QED BY <1>1, <1>3, <2>1, QueuesKept DEF serverVars
<1>11. WalkInv'
  <2>1. CASE QueueEvent
    BY <2>1 DEF QueueEvent, FetchPhases, WalkInv
  <2>2. CASE phase' = "fetchClientPid" /\ walk' = Walk(current.window) /\ UNCHANGED current
    <3>1. WasThere(current)'
      BY <1>10, <2>2 DEF LivesInv, FetchPhases
    <3>2. current'.window = current.window /\ UNCHANGED <<life, parent, owner>>
      BY <1>3, <2>2 DEF serverVars, windowVars
    <3> QED BY <1>5, <2>2, <3>1, <3>2, WalkBegins
  <2> QED BY <1>4, <2>1, <2>2
<1>12. StaleHasNotice'
  <2>1. \A w \in Windows : w # current.window => m_cache'[w] = m_cache[w]
    BY <1>3 DEF Types
  <2>2. m_cache'[current.window].class = Entry.class /\ m_cache'[current.window].pid = pid
    BY <1>3, <1>5 DEF Types, Entry
  <2>3. life[current.window] = current.life =>
            pid \in {Entry.pid, Unknown, owner[current.window]}
    BY <1>1, <1>6, WalkAnswers
  <2> QED BY <1>1, <1>3, <1>8, <2>1, <2>2, <2>3, EntryFilled DEF serverVars
<1> QED BY <1>9, <1>10, <1>11, <1>12

-----------------------------------------------------------------------------
(* Daemon::run                                                             *)

\* A notice leaves the last queue only to clear the entry it is about.
LEMMA DispatchStep ==
    ASSUME PipelineInv, Dispatch
    PROVE  PipelineInv'
<1> USE DEF PipelineInv
<1>1. /\ m_events # <<>> /\ m_events' = Tail(m_events)
      /\ UNCHANGED <<serverVars, events, phase, current, walk>>
  BY DEF Dispatch
<1>2. \A w \in Windows : m_cache'[w] \in {m_cache[w], [class |-> Unknown, pid |-> Unknown]}
  BY DEF Dispatch, Forget, Types
<1>3. ASSUME NEW w \in Windows, Head(m_events) = Notify(w)
      PROVE  m_cache'[w] = [class |-> Unknown, pid |-> Unknown]
  BY <1>3, RecordTypes DEF Dispatch, Forget, Types
<1>4. Types'
  <2>1. m_events' \in Seq(Records)
    BY <1>1, QueueTail DEF Types
  <2>2. m_cache' \in [Windows -> [class : Owning \cup {Unknown}, pid : Owning \cup {Unknown}]]
    <3>1. CASE UNCHANGED m_cache
      BY <3>1 DEF Types
    <3>2. CASE m_cache' = Forget(Head(m_events).window)
      BY <3>2 DEF Forget, Types
    <3> QED BY <3>1, <3>2 DEF Dispatch
  <2> QED BY <1>1, <2>1, <2>2 DEF Types, serverVars, windowVars
<1>5. LivesInv' /\ WindowsInv' /\ PressesInv'
  BY <1>1, QueuesKept DEF serverVars
<1>6. WalkInv'
  BY <1>1, WalkKept DEF serverVars, windowVars
<1>7. StaleHasNotice'
  <2>1. ASSUME NEW w \in Windows, NoticeOnItsWay(w)
        PROVE  NoticeOnItsWay(w)' \/ Head(m_events) = Notify(w)
    <3>1. Contains(m_events, Notify(w)) =>
              Contains(m_events', Notify(w)) \/ Head(m_events) = Notify(w)
      BY <1>1, ContainsTail DEF Types
    <3> QED BY <1>1, <2>1, <3>1 DEF NoticeOnItsWay, serverVars
  <2> QED BY <1>1, <1>2, <1>3, <2>1 DEF StaleHasNotice, Exists, serverVars, windowVars
<1> QED BY <1>4, <1>5, <1>6, <1>7

LEMMA PhaseStep ==
    ASSUME PipelineInv, WaitEnds \/ ProcessEnds \/ LoopWaits \/ UNCHANGED vars
    PROVE  PipelineInv'
<1> USE DEF PipelineInv
<1>1. /\ UNCHANGED <<windowVars, records, events, m_events, m_cache, current, walk>>
      /\ phase' = phase \/ phase' \in {"loop", "wait", "process"}
  BY DEF WaitEnds, ProcessEnds, LoopWaits, vars, serverVars, mainVars
<1>2. phase' \in FetchPhases => phase' = phase
  BY <1>1 DEF FetchPhases
<1>3. Types'
  BY <1>1, <1>2 DEF Types, windowVars
<1>4. LivesInv' /\ WindowsInv' /\ PressesInv'
  BY <1>1, <1>2, QueuesKept
<1>5. WalkInv'
  BY <1>1, <1>2, WalkKept DEF WalkInv, windowVars
<1>6. StaleHasNotice'
  <2>1. \A w : NoticeOnItsWay(w)' <=> NoticeOnItsWay(w)
    BY <1>1 DEF NoticeOnItsWay
  <2> QED BY <1>1, <2>1, StaleKept DEF windowVars
<1> QED BY <1>3, <1>4, <1>5, <1>6

-----------------------------------------------------------------------------
(* The theorem                                                             *)

LEMMA PipelineStep == PipelineInv /\ [Next]_vars => PipelineInv'
<1> SUFFICES ASSUME PipelineInv, [Next]_vars
             PROVE  PipelineInv'
  OBVIOUS
<1>1. CASE XServer
  BY <1>1, CreateWindowStep, DestroyWindowStep, PressKeyStep DEF XServer
<1>2. CASE MainThread
  BY <1>2, eventCallbackStep, ProcessEventStep, WalkStep, FetchClassNameStep, FetchPidStep,
     DispatchStep, PhaseStep DEF MainThread
<1>3. CASE UNCHANGED vars
  BY <1>3, PhaseStep
<1> QED BY <1>1, <1>2, <1>3 DEF Next

\* For every forest of windows, with any number of clients that select their
\* notices: whatever the cache has of another window than the one with the id, the
\* notice is on its way, or there is none.
THEOREM CacheIsWarned == Spec => []StaleHasNotice
<1>1. Spec => []PipelineInv
  BY PipelineInit, PipelineStep, PTL DEF Spec
<1>2. PipelineInv => StaleHasNotice
  BY DEF PipelineInv
<1> QED BY <1>1, <1>2, PTL

\* No notice overtakes a press of the window that it is about.
THEOREM NoticesKeepOrder == Spec => []PressesInv
<1>1. Spec => []PipelineInv
  BY PipelineInit, PipelineStep, PTL DEF Spec
<1>2. PipelineInv => PressesInv
  BY DEF PipelineInv
<1> QED BY <1>1, <1>2, PTL

-----------------------------------------------------------------------------
(* Counting the presses of a queue                                         *)

PressesOf(queue) == {i \in 1..Len(queue) : queue[i].type = "KeyPress"}

\* k is the key of the last press before the i-th record, key if there is none.
KeyBefore(queue, key, i, k) ==
    \/ k = key /\ \A j \in 1..(i - 1) : queue[j].type # "KeyPress"
    \/ \E j \in 1..(i - 1) : /\ queue[j].type = "KeyPress" /\ queue[j].key = k
                             /\ \A m \in (j + 1)..(i - 1) : queue[m].type # "KeyPress"

\* The presses of another key than the one before.
NewPresses(queue, key) == {i \in PressesOf(queue) : ~KeyBefore(queue, key, i, queue[i].key)}

LEMMA OneKeyBefore ==
    ASSUME NEW queue, NEW key, NEW i \in Nat, NEW k1, NEW k2,
           KeyBefore(queue, key, i, k1), KeyBefore(queue, key, i, k2)
    PROVE  k1 = k2
<1>1. CASE \A j \in 1..(i - 1) : queue[j].type # "KeyPress"
  BY <1>1 DEF KeyBefore
<1>2. CASE \E j \in 1..(i - 1) : queue[j].type = "KeyPress"
  <2>1. PICK j1 \in 1..(i - 1) : /\ queue[j1].type = "KeyPress" /\ queue[j1].key = k1
                                 /\ \A m \in (j1 + 1)..(i - 1) : queue[m].type # "KeyPress"
    BY <1>2 DEF KeyBefore
  <2>2. PICK j2 \in 1..(i - 1) : /\ queue[j2].type = "KeyPress" /\ queue[j2].key = k2
                                 /\ \A m \in (j2 + 1)..(i - 1) : queue[m].type # "KeyPress"
    BY <1>2 DEF KeyBefore
  <2>3. ~(j1 < j2) /\ ~(j2 < j1)
    BY <2>1, <2>2
  <2>4. j1 = j2
    BY <2>3
  <2> QED BY <2>1, <2>2, <2>4
<1> QED BY <1>1, <1>2

\* What comes before is all that counts.
LEMMA SameKeyBefore ==
    ASSUME NEW queue, NEW longer, NEW key, NEW k, NEW i \in Nat,
           \A j \in 1..(i - 1) : longer[j] = queue[j]
    PROVE  KeyBefore(longer, key, i, k) <=> KeyBefore(queue, key, i, k)
<1>1. \A j \in 1..(i - 1) : \A m \in (j + 1)..(i - 1) : m \in 1..(i - 1)
  OBVIOUS
<1> QED BY <1>1 DEF KeyBefore

\* Without the first record, the positions move up.
Behind(n, S) == {i \in 1..n : i + 1 \in S}

LEMMA FewerIndices ==
    ASSUME NEW n \in Nat, NEW S, S \subseteq 1..(n + 1)
    PROVE  Cardinality(Behind(n, S)) = Cardinality(S \ {1})
<1> DEFINE T == Behind(n, S)
           U == S \ {1}
           f == [i \in T |-> i + 1]
<1>1. IsFiniteSet(1..n) /\ T \in SUBSET 1..n
  BY FS_Interval DEF Behind
<1>2. IsFiniteSet(T)
  BY <1>1, FS_Subset
<1>3. f \in Bijection(T, U)
  <2>1. ASSUME NEW i \in T
        PROVE  f[i] \in U
    <3>1. i \in 1..n /\ f[i] = i + 1 /\ i + 1 \in S
      BY DEF Behind
    <3> QED BY <3>1
  <2>2. f \in [T -> U]
    BY <2>1
  <2>3. \A i, j \in T : f[i] = f[j] => i = j
    BY DEF Behind
  <2>4. ASSUME NEW u \in U
        PROVE  \E i \in T : f[i] = u
    <3>1. u \in 1..(n + 1) /\ u # 1 /\ u - 1 \in 1..n /\ (u - 1) + 1 = u
      OBVIOUS
    <3>2. u - 1 \in T
      BY <3>1 DEF Behind
    <3> QED BY <3>1, <3>2
  <2> QED BY <2>2, <2>3, <2>4 DEF Bijection, Injection, Surjection, IsInjective
<1> QED BY <1>2, <1>3, FS_Bijection DEF ExistsBijection

\* One index more or less.
LEMMA WithoutOne ==
    ASSUME NEW T, IsFiniteSet(T), NEW x, NEW n, n = Cardinality(T \ {x})
    PROVE  Cardinality(T) = n + (IF x \in T THEN 1 ELSE 0) /\ n \in Nat
<1>1. /\ Cardinality(T \ {x}) = IF x \in T THEN Cardinality(T) - 1 ELSE Cardinality(T)
      /\ IsFiniteSet(T \ {x})
  BY FS_RemoveElement
<1>2. Cardinality(T \ {x}) \in Nat /\ Cardinality(T) \in Nat
  BY <1>1, FS_CardinalityType
<1> QED BY <1>1, <1>2

LEMMA PressesFinite ==
    ASSUME NEW S, NEW queue \in Seq(S), NEW key
    PROVE  /\ Cardinality(PressesOf(queue)) \in Nat /\ Cardinality(NewPresses(queue, key)) \in Nat
           /\ PressesOf(queue) \in SUBSET 1..Len(queue)
           /\ NewPresses(queue, key) \in SUBSET 1..Len(queue)
           /\ IsFiniteSet(PressesOf(queue)) /\ IsFiniteSet(NewPresses(queue, key))
           /\ Len(queue) \in Nat
<1>1. Len(queue) \in Nat /\ IsFiniteSet(1..Len(queue))
  BY LenProperties, FS_Interval
<1>2. PressesOf(queue) \in SUBSET 1..Len(queue) /\ NewPresses(queue, key) \in SUBSET 1..Len(queue)
  BY DEF PressesOf, NewPresses
<1> QED BY <1>1, <1>2, FS_Subset, FS_CardinalityType

LEMMA TailPresses ==
    ASSUME NEW S, NEW queue \in Seq(S), queue # <<>>
    PROVE  Cardinality(PressesOf(queue)) = Cardinality(PressesOf(Tail(queue)))
               + (IF Head(queue).type = "KeyPress" THEN 1 ELSE 0)
<1> DEFINE n == Len(queue) - 1
           tail == Tail(queue)
<1>1. /\ n \in Nat /\ Len(queue) = n + 1 /\ tail \in Seq(S) /\ Len(tail) = n
      /\ Head(queue) = queue[1] /\ \A i \in 1..n : tail[i] = queue[i + 1]
  BY EmptySeq, LenProperties, HeadTailProperties
<1> HIDE DEF n, tail
<1>2. PressesOf(queue) \subseteq 1..(n + 1) /\ IsFiniteSet(PressesOf(queue))
  BY <1>1, PressesFinite
<1>3. PressesOf(tail) = Behind(n, PressesOf(queue))
  <2>1. \A i \in 1..n : i + 1 \in 1..(n + 1)
    BY <1>1
  <2> QED BY <1>1, <2>1 DEF PressesOf, Behind
<1>4. Cardinality(PressesOf(tail)) = Cardinality(PressesOf(queue) \ {1})
  BY <1>1, <1>2, <1>3, FewerIndices
<1>5. Cardinality(PressesOf(queue)) = Cardinality(PressesOf(tail))
          + (IF 1 \in PressesOf(queue) THEN 1 ELSE 0)
  BY <1>2, <1>4, WithoutOne
<1>6. 1 \in PressesOf(queue) <=> Head(queue).type = "KeyPress"
  BY <1>1 DEF PressesOf
<1> QED BY <1>5, <1>6 DEF tail

LEMMA AppendPresses ==
    ASSUME NEW S, NEW queue \in Seq(S), NEW item \in S
    PROVE  Cardinality(PressesOf(Append(queue, item))) = Cardinality(PressesOf(queue))
               + (IF item.type = "KeyPress" THEN 1 ELSE 0)
<1> DEFINE n == Len(queue)
           longer == Append(queue, item)
<1>1. /\ n \in Nat /\ Len(longer) = n + 1 /\ longer[n + 1] = item
      /\ \A i \in 1..n : longer[i] = queue[i]
  BY LenProperties, AppendProperty
<1> HIDE DEF longer
<1>2. longer \in Seq(S) /\ IsFiniteSet(PressesOf(longer))
  BY AppendProperty, PressesFinite DEF longer
<1>3. PressesOf(queue) = PressesOf(longer) \ {n + 1}
  <2>1. \A i \in 1..(n + 1) : i \in 1..n \/ i = n + 1
    BY <1>1
  <2>2. \A i \in 1..n : i \in 1..(n + 1) /\ i # n + 1
    BY <1>1
  <2> QED BY <1>1, <2>1, <2>2 DEF PressesOf
<1>4. n + 1 \in PressesOf(longer) <=> item.type = "KeyPress"
  BY <1>1 DEF PressesOf
<1>5. Cardinality(PressesOf(longer)) = Cardinality(PressesOf(queue))
          + (IF n + 1 \in PressesOf(longer) THEN 1 ELSE 0)
  BY <1>2, <1>3, WithoutOne
<1> QED BY <1>4, <1>5 DEF longer

\* When records of one event come in, the first of a new key is one, and no other.
LEMMA NewPressesGrow ==
    ASSUME NEW S, NEW queue \in Seq(S), NEW longer \in Seq(S), NEW m \in Nat, NEW item \in S,
           Grown(longer, queue, m, item), NEW key, NEW last,
           KeyBefore(queue, key, Len(queue) + 1, last)
    PROVE  /\ item.type # "KeyPress" =>
                  /\ Cardinality(NewPresses(longer, key)) = Cardinality(NewPresses(queue, key))
                  /\ KeyBefore(longer, key, Len(longer) + 1, last)
           /\ item.type = "KeyPress" /\ m > 0 =>
                  /\ Cardinality(NewPresses(longer, key)) = Cardinality(NewPresses(queue, key))
                         + (IF item.key = last THEN 0 ELSE 1)
                  /\ KeyBefore(longer, key, Len(longer) + 1, item.key)
<1> DEFINE n == Len(queue)
<1>1. /\ n \in Nat /\ Len(longer) = n + m
      /\ \A i \in 1..n : longer[i] = queue[i] /\ i \in 1..(n + m)
      /\ \A i \in (n + 1)..(n + m) : longer[i] = item /\ i \in 1..(n + m)
      /\ \A i \in 1..(n + m) : i \in 1..n \/ i \in (n + 1)..(n + m)
  BY LenProperties DEF Grown
<1>2. ASSUME NEW i \in 1..(n + 1), NEW k
      PROVE  KeyBefore(longer, key, i, k) <=> KeyBefore(queue, key, i, k)
  <2>1. i \in Nat /\ \A j \in 1..(i - 1) : longer[j] = queue[j]
    BY <1>1
  <2> QED BY <2>1, SameKeyBefore
<1>3. \A i \in 1..n : i \in NewPresses(longer, key) <=> i \in NewPresses(queue, key)
  BY <1>1, <1>2 DEF NewPresses, PressesOf
<1>4. NewPresses(longer, key) \in SUBSET 1..(n + m) /\ NewPresses(queue, key) \in SUBSET 1..n
  BY <1>1, PressesFinite
<1>5. KeyBefore(longer, key, n + 1, last)
  BY <1>1, <1>2
<1>6. CASE item.type # "KeyPress"
  <2>1. \A i \in (n + 1)..(n + m) : i \notin NewPresses(longer, key)
    BY <1>1, <1>6 DEF NewPresses, PressesOf
  <2>2. NewPresses(longer, key) = NewPresses(queue, key)
    BY <1>1, <1>3, <1>4, <2>1
  <2>3. KeyBefore(longer, key, n + m + 1, last)
    <3> HIDE DEF n
    <3>1. CASE last = key /\ \A j \in 1..n : longer[j].type # "KeyPress"
      <4>1. \A j \in 1..(n + m) : longer[j].type # "KeyPress"
        BY <1>1, <1>6, <3>1
      <4> QED BY <1>1, <3>1, <4>1 DEF KeyBefore
    <3>2. CASE \E j \in 1..n : /\ longer[j].type = "KeyPress" /\ longer[j].key = last
                               /\ \A i \in (j + 1)..n : longer[i].type # "KeyPress"
      <4>1. PICK j \in 1..n : /\ longer[j].type = "KeyPress" /\ longer[j].key = last
                              /\ \A i \in (j + 1)..n : longer[i].type # "KeyPress"
        BY <3>2
      <4>2. \A i \in (j + 1)..(n + m) : longer[i].type # "KeyPress"
        BY <1>1, <1>6, <4>1
      <4>3. j \in 1..((n + m + 1) - 1) /\ (n + m + 1) - 1 = n + m
        BY <1>1
      <4> QED BY <4>1, <4>2, <4>3 DEF KeyBefore
    <3> QED BY <1>1, <1>5, <3>1, <3>2 DEF KeyBefore
  <2> QED BY <1>1, <1>6, <2>2, <2>3
<1>7. CASE item.type = "KeyPress" /\ m > 0
  <2>1. n + 1 \in NewPresses(longer, key) <=> item.key # last
    <3>1. longer[n + 1] = item /\ n + 1 \in PressesOf(longer)
      BY <1>1, <1>7 DEF PressesOf
    <3>2. KeyBefore(longer, key, n + 1, item.key) <=> item.key = last
      BY <1>1, <1>5, OneKeyBefore
    <3> QED BY <3>1, <3>2 DEF NewPresses
  <2>2. ASSUME NEW i \in (n + 2)..(n + m)
        PROVE  i \notin NewPresses(longer, key)
    <3>1. /\ i - 1 \in 1..(i - 1) /\ longer[i - 1] = item /\ longer[i] = item
          /\ \A j \in (i - 1 + 1)..(i - 1) : FALSE
      BY <1>1
    <3>2. KeyBefore(longer, key, i, item.key)
      BY <1>7, <3>1 DEF KeyBefore
    <3> QED BY <3>1, <3>2 DEF NewPresses
  <2>3. KeyBefore(longer, key, n + m + 1, item.key)
    <3>1. /\ n + m \in 1..((n + m + 1) - 1) /\ longer[n + m] = item
          /\ \A j \in (n + m + 1)..((n + m + 1) - 1) : FALSE
      BY <1>1, <1>7
    <3> QED BY <1>7, <3>1 DEF KeyBefore
  <2>4. Cardinality(NewPresses(longer, key)) = Cardinality(NewPresses(queue, key))
            + (IF n + 1 \in NewPresses(longer, key) THEN 1 ELSE 0)
    <3>1. NewPresses(queue, key) = NewPresses(longer, key) \ {n + 1}
      <4>1. \A i \in 1..(n + m) : i \in 1..n \/ i = n + 1 \/ i \in (n + 2)..(n + m)
        BY <1>1
      <4>2. \A i \in 1..n : i # n + 1
        BY <1>1
      <4> HIDE DEF n
      <4> QED BY <1>3, <1>4, <2>2, <4>1, <4>2
    <3>2. IsFiniteSet(NewPresses(longer, key))
      BY PressesFinite
    <3> QED BY <3>1, <3>2, WithoutOne
  <2> QED BY <1>1, <1>7, <2>1, <2>3, <2>4
<1> QED BY <1>6, <1>7

\* When the first record is taken, the ones behind it are new to its key.
LEMMA NewPressesTail ==
    ASSUME NEW S, NEW queue \in Seq(S), queue # <<>>, NEW key, NEW next, NEW last,
           next = IF Head(queue).type = "KeyPress" THEN Head(queue).key ELSE key
    PROVE  /\ Cardinality(NewPresses(queue, key)) = Cardinality(NewPresses(Tail(queue), next))
               + (IF Head(queue).type = "KeyPress" /\ Head(queue).key # key THEN 1 ELSE 0)
           /\ KeyBefore(queue, key, Len(queue) + 1, last) =>
                  KeyBefore(Tail(queue), next, Len(Tail(queue)) + 1, last)
<1> DEFINE n == Len(queue) - 1
           tail == Tail(queue)
<1>1. /\ n \in Nat /\ Len(queue) = n + 1 /\ tail \in Seq(S) /\ Len(tail) = n
      /\ Head(queue) = queue[1] /\ \A i \in 1..n : tail[i] = queue[i + 1]
  BY EmptySeq, LenProperties, HeadTailProperties
<1> HIDE DEF n, tail
<1>2. ASSUME NEW i \in 1..(n + 1), NEW k
      PROVE  KeyBefore(queue, key, i + 1, k) <=> KeyBefore(tail, next, i, k)
  <2>1. /\ \A j \in 1..(i - 1) : tail[j] = queue[j + 1] /\ j + 1 \in 2..i
        /\ \A j \in 2..i : j - 1 \in 1..(i - 1) /\ (j - 1) + 1 = j
        /\ 1 \in 1..i /\ (i + 1) - 1 = i
        /\ \A j \in 1..i : j = 1 \/ j \in 2..i
    BY <1>1
  <2>2. ASSUME KeyBefore(queue, key, i + 1, k)
        PROVE  KeyBefore(tail, next, i, k)
    <3>1. CASE k = key /\ \A j \in 1..i : queue[j].type # "KeyPress"
      <4>1. \A j \in 1..(i - 1) : tail[j].type # "KeyPress"
        BY <2>1, <3>1
      <4>2. next = key
        BY <1>1, <2>1, <3>1
      <4> QED BY <3>1, <4>1, <4>2 DEF KeyBefore
    <3>2. CASE \E j \in 1..i : /\ queue[j].type = "KeyPress" /\ queue[j].key = k
                               /\ \A m \in (j + 1)..i : queue[m].type # "KeyPress"
      <4>1. PICK j \in 1..i : /\ queue[j].type = "KeyPress" /\ queue[j].key = k
                              /\ \A m \in (j + 1)..i : queue[m].type # "KeyPress"
        BY <3>2
      <4>2. CASE j = 1
        <5>1. \A m \in 1..(i - 1) : tail[m].type # "KeyPress"
          BY <2>1, <4>1, <4>2
        <5> QED BY <1>1, <4>1, <4>2, <5>1 DEF KeyBefore
      <4>3. CASE j # 1
        <5> DEFINE l == j - 1
        <5>1. l \in 1..(i - 1) /\ l + 1 = j /\ tail[l] = queue[j]
          BY <2>1, <4>3
        <5>2. \A m \in (l + 1)..(i - 1) : tail[m].type # "KeyPress"
          <6> SUFFICES ASSUME NEW m \in (l + 1)..(i - 1)
                       PROVE  tail[m].type # "KeyPress"
            OBVIOUS
          <6>1. m \in 1..(i - 1) /\ m + 1 \in (j + 1)..i
            BY <5>1
          <6> QED BY <2>1, <4>1, <6>1
        <5> HIDE DEF l
        <5> QED BY <4>1, <5>1, <5>2 DEF KeyBefore
      <4> QED BY <4>2, <4>3
    <3> QED BY <2>1, <2>2, <3>1, <3>2 DEF KeyBefore
  <2>3. ASSUME KeyBefore(tail, next, i, k)
        PROVE  KeyBefore(queue, key, i + 1, k)
    <3>1. CASE k = next /\ \A j \in 1..(i - 1) : tail[j].type # "KeyPress"
      <4>1. \A j \in 2..i : queue[j].type # "KeyPress"
        BY <1>1, <2>1, <3>1
      <4>2. CASE queue[1].type = "KeyPress"
        BY <1>1, <2>1, <3>1, <4>1, <4>2 DEF KeyBefore
      <4>3. CASE queue[1].type # "KeyPress"
        <5>1. k = key /\ \A j \in 1..i : queue[j].type # "KeyPress"
          BY <1>1, <2>1, <3>1, <4>1, <4>3
        <5> QED BY <2>1, <5>1 DEF KeyBefore
      <4> QED BY <4>2, <4>3
    <3>2. CASE \E j \in 1..(i - 1) : /\ tail[j].type = "KeyPress" /\ tail[j].key = k
                                     /\ \A m \in (j + 1)..(i - 1) : tail[m].type # "KeyPress"
      <4>1. PICK l \in 1..(i - 1) : /\ tail[l].type = "KeyPress" /\ tail[l].key = k
                                    /\ \A m \in (l + 1)..(i - 1) : tail[m].type # "KeyPress"
        BY <3>2
      <4>2. l + 1 \in 1..i /\ queue[l + 1] = tail[l]
        BY <2>1
      <4>3. \A m \in (l + 1 + 1)..i : queue[m].type # "KeyPress"
        <5> SUFFICES ASSUME NEW m \in (l + 1 + 1)..i
                     PROVE  queue[m].type # "KeyPress"
          OBVIOUS
        <5>1. m - 1 \in (l + 1)..(i - 1) /\ m - 1 \in 1..(i - 1) /\ (m - 1) + 1 = m
          OBVIOUS
        <5>2. tail[m - 1] = queue[(m - 1) + 1]
          BY <2>1, <5>1
        <5> QED BY <4>1, <5>1, <5>2
      <4> QED BY <2>1, <4>1, <4>2, <4>3 DEF KeyBefore
    <3> QED BY <2>3, <3>1, <3>2 DEF KeyBefore
  <2> QED BY <2>2, <2>3
<1>3. /\ NewPresses(queue, key) \subseteq 1..(n + 1) /\ IsFiniteSet(NewPresses(queue, key))
      /\ NewPresses(tail, next) \subseteq 1..n
  BY <1>1, PressesFinite
<1>4. NewPresses(tail, next) = Behind(n, NewPresses(queue, key))
  <2>1. \A i \in 1..n : i \in 1..(n + 1) /\ i + 1 \in 1..(n + 1)
    BY <1>1
  <2>2. \A i \in 1..n : i \in NewPresses(tail, next) <=> i + 1 \in NewPresses(queue, key)
    BY <1>1, <1>2, <2>1 DEF NewPresses, PressesOf
  <2> QED BY <1>3, <2>2 DEF Behind
<1>5. 1 \in NewPresses(queue, key) <=> Head(queue).type = "KeyPress" /\ Head(queue).key # key
  <2>1. 1 \in 1..(n + 1) /\ \A j \in 1..(1 - 1) : FALSE
    BY <1>1
  <2>2. \A k : KeyBefore(queue, key, 1, k) <=> k = key
    BY <2>1 DEF KeyBefore
  <2> QED BY <1>1, <2>1, <2>2 DEF NewPresses, PressesOf
<1>6. Cardinality(NewPresses(queue, key)) = Cardinality(NewPresses(tail, next))
          + (IF 1 \in NewPresses(queue, key) THEN 1 ELSE 0)
  <2>1. Cardinality(NewPresses(tail, next)) = Cardinality(NewPresses(queue, key) \ {1})
    BY <1>1, <1>3, <1>4, FewerIndices
  <2> QED BY <1>3, <2>1, WithoutOne
<1>7. KeyBefore(queue, key, Len(queue) + 1, last) => KeyBefore(tail, next, Len(tail) + 1, last)
  <2>1. n + 1 \in 1..(n + 1) /\ Len(queue) + 1 = (n + 1) + 1 /\ Len(tail) + 1 = n + 1
    BY <1>1
  <2> QED BY <1>2, <2>1
<1> QED BY <1>5, <1>6, <1>7 DEF tail

-----------------------------------------------------------------------------
(* Where each change of keys is                                            *)

Resolving == IF phase \in FetchPhases THEN 1 ELSE 0
Changed == Cardinality(KeyChanges(typed))
LastKey == IF typed = <<>> THEN 0 ELSE typed[Len(typed)]

LEMMA ChangesFinite ==
    ASSUME NEW S, NEW keys \in Seq(S)
    PROVE  /\ IsFiniteSet(KeyChanges(keys)) /\ KeyChanges(keys) \subseteq 1..Len(keys)
           /\ Cardinality(KeyChanges(keys)) \in Nat /\ Cardinality(KeyChanges(keys)) <= Len(keys)
<1> DEFINE n == Len(keys)
<1>1. n \in Nat /\ IsFiniteSet(1..n) /\ Cardinality(1..n) = n
  <2>1. n \in Nat
    BY LenProperties
  <2> HIDE DEF n
  <2>2. IsFiniteSet(1..n) /\ Cardinality(1..n) = (IF 1 > n THEN 0 ELSE n - 1 + 1)
    BY <2>1, FS_Interval
  <2> QED BY <2>1, <2>2
<1>2. KeyChanges(keys) \subseteq 1..Len(keys)
  BY DEF KeyChanges
<1> QED BY <1>1, <1>2, FS_Subset, FS_CardinalityType

\* One more key is a change, or it is the key that was typed last.
LEMMA TypedMore ==
    ASSUME typed \in Seq(KeyCodes), NEW k \in KeyCodes, typed' = Append(typed, k)
    PROVE  /\ typed' \in Seq(KeyCodes) /\ Len(typed') = Len(typed) + 1
           /\ LastKey' = k
           /\ Changed' = Changed + (IF k = LastKey THEN 0 ELSE 1)
<1> DEFINE n == Len(typed)
           longer == typed'
<1>1. /\ n \in Nat /\ longer \in Seq(KeyCodes) /\ Len(longer) = n + 1
      /\ longer[n + 1] = k /\ \A i \in 1..n : longer[i] = typed[i]
  BY LenProperties, AppendProperty
<1>2. LastKey' = k
  <2>1. typed' # <<>>
    BY <1>1, EmptySeq
  <2> QED BY <1>1, <2>1 DEF LastKey
<1>3. n + 1 \in KeyChanges(longer) <=> k # LastKey
  <2>1. CASE n = 0
    <3>1. LastKey = 0 /\ k # 0
      BY <2>1, EmptySeq, PipelineAssumption DEF LastKey
    <3> QED BY <1>1, <2>1, <3>1 DEF KeyChanges
  <2>2. CASE n > 0
    <3>1. typed # <<>> /\ LastKey = typed[n]
      BY <2>2, EmptySeq DEF LastKey
    <3>2. n \in 1..n /\ n + 1 \in 1..(n + 1) /\ n + 1 # 1 /\ (n + 1) - 1 = n
      BY <1>1, <2>2
    <3> HIDE DEF longer, n
    <3> QED BY <1>1, <3>1, <3>2 DEF KeyChanges
  <2> QED BY <1>1, <2>1, <2>2
<1> HIDE DEF longer
<1>4. KeyChanges(typed) = KeyChanges(longer) \ {n + 1}
  <2>1. \A i \in 1..(n + 1) : i \in 1..n \/ i = n + 1
    BY <1>1
  <2>2. \A i \in 1..n : i \in 1..(n + 1) /\ i # n + 1 /\ (i # 1 => i - 1 \in 1..n)
    BY <1>1
  <2> QED BY <1>1, <2>1, <2>2 DEF KeyChanges
<1>5. IsFiniteSet(KeyChanges(longer))
  BY <1>1, ChangesFinite
<1>6. Cardinality(KeyChanges(longer)) = Cardinality(KeyChanges(typed))
          + (IF n + 1 \in KeyChanges(longer) THEN 1 ELSE 0)
  BY <1>4, <1>5, WithoutOne
<1>7. Cardinality(KeyChanges(longer)) = Cardinality(KeyChanges(typed))
          + (IF k = LastKey THEN 0 ELSE 1)
  BY <1>3, <1>6
<1> QED BY <1>1, <1>2, <1>7 DEF Changed, longer

\* Each press of another key than the one before is recorded and not yet compared, a
\* raw event, being resolved, an event, or counted; the key to compare the next
\* press with is that of the last record, or else the one that eventCallback has.
CountInv ==
    /\ KeyBefore(records, pc, Len(records) + 1, LastKey)
    /\ counted + Cardinality(PressesOf(m_events)) + Resolving + Cardinality(PressesOf(events))
           + Cardinality(NewPresses(records, pc)) = Changed
    /\ counted \in Nat /\ typed \in Seq(KeyCodes) /\ Len(typed) <= MaxPresses
    /\ pc \in KeyCodes \cup {0}
    /\ current # NoEvent <=> phase \in FetchPhases

\* The counts of the queues.
LEMMA QueueCounts ==
    ASSUME Types
    PROVE  /\ Cardinality(PressesOf(m_events)) \in Nat /\ Cardinality(PressesOf(events)) \in Nat
           /\ Cardinality(NewPresses(records, pc)) \in Nat
           /\ Resolving \in {0, 1}
           /\ \A r \in Records : r.type = "KeyPress" => r # NoEvent /\ r.key \in KeyCodes
<1>1. \A r \in Records : r.type = "KeyPress" => r # NoEvent /\ r.key \in KeyCodes
  BY DEF Records, Presses, NoEvent
<1> QED BY <1>1, PressesFinite DEF Types, Resolving

LEMMA CountInit == Init => CountInv
<1> SUFFICES ASSUME Init
             PROVE  CountInv
  OBVIOUS
<1>1. /\ Len(m_events) = 0 /\ Len(events) = 0 /\ Len(records) = 1
      /\ records[1].type # "KeyPress"
  BY DEF Init
<1>2. PressesOf(m_events) = {} /\ PressesOf(events) = {} /\ NewPresses(records, pc) = {}
  BY <1>1 DEF PressesOf, NewPresses
<1>3. KeyBefore(records, pc, Len(records) + 1, LastKey)
  BY <1>1 DEF KeyBefore, Init, LastKey
<1>4. phase \notin FetchPhases /\ current = NoEvent /\ Resolving = 0
  BY DEF Init, FetchPhases, Resolving
<1>5. /\ Cardinality(PressesOf(m_events)) = 0 /\ Cardinality(PressesOf(events)) = 0
      /\ Cardinality(NewPresses(records, pc)) = 0
  BY <1>2, FS_EmptySet
<1>6. /\ counted = 0 /\ typed = <<>> /\ pc = 0 /\ 0 <= MaxPresses
      /\ typed \in Seq(KeyCodes) /\ Len(typed) = 0
  BY PipelineAssumption, EmptySeq DEF Init
<1>7. Changed = 0
  BY <1>6, FS_EmptySet DEF Changed, KeyChanges
<1> QED BY <1>3, <1>4, <1>5, <1>6, <1>7 DEF CountInv

\* A step that moves no record and no press.
LEMMA CountKept ==
    ASSUME CountInv, UNCHANGED <<records, pc, events, m_events, counted, typed, current>>,
           phase' \in FetchPhases <=> phase \in FetchPhases
    PROVE  CountInv'
<1>1. Resolving' = Resolving
  BY DEF Resolving
<1> QED BY <1>1 DEF CountInv, Changed, LastKey

LEMMA CountPressKey ==
    ASSUME Types, CountInv, NEW w \in Windows, NEW k \in KeyCodes, PressKey(w, k)
    PROVE  CountInv'
<1>1. PICK n \in Receivers : records' = records \o Copies(n, Press(w, k))
  BY DEF PressKey
<1>2. n \in Nat /\ n > 0 /\ MaxPresses \in Nat
  BY PipelineAssumption
<1>3. Press(w, k) \in Records /\ Press(w, k).type = "KeyPress" /\ Press(w, k).key = k
  BY PressTypes, RecordTypes DEF Press
<1>4. /\ records \in Seq(Records) /\ records' \in Seq(Records)
      /\ Grown(records', records, n, Press(w, k))
  BY <1>1, <1>2, <1>3, ConcatCopies DEF Types
<1>5. UNCHANGED <<pc, events, m_events, counted, phase, current>> /\ Resolving' = Resolving
  BY DEF PressKey, mainVars, Resolving
<1>6. /\ Cardinality(NewPresses(records', pc)) = Cardinality(NewPresses(records, pc))
             + (IF k = LastKey THEN 0 ELSE 1)
      /\ KeyBefore(records', pc, Len(records') + 1, k)
  <2> DEFINE longer == records'
             item == Press(w, k)
  <2>1. /\ longer \in Seq(Records) /\ records \in Seq(Records) /\ item \in Records
        /\ Grown(longer, records, n, item) /\ item.type = "KeyPress" /\ item.key = k
        /\ KeyBefore(records, pc, Len(records) + 1, LastKey)
    BY <1>3, <1>4 DEF CountInv
  <2> HIDE DEF longer, item
  <2>2. /\ Cardinality(NewPresses(longer, pc)) = Cardinality(NewPresses(records, pc))
             + (IF item.key = LastKey THEN 0 ELSE 1)
        /\ KeyBefore(longer, pc, Len(longer) + 1, item.key)
    BY <1>2, <2>1, NewPressesGrow
  <2> QED BY <2>1, <2>2 DEF longer
<1>7. /\ LastKey' = k /\ Changed' = Changed + (IF k = LastKey THEN 0 ELSE 1)
      /\ typed' \in Seq(KeyCodes) /\ Len(typed') <= MaxPresses
      /\ Changed \in Nat
  <2>1. /\ typed \in Seq(KeyCodes) /\ typed' = Append(typed, k)
        /\ Len(typed) < MaxPresses /\ Len(typed) \in Nat
    BY LenProperties DEF PressKey, CountInv
  <2>2. Changed \in Nat
    BY <2>1, ChangesFinite DEF Changed
  <2> QED BY <1>2, <2>1, <2>2, TypedMore
<1>8. KeyBefore(records, pc, Len(records) + 1, LastKey)'
  BY <1>5, <1>6, <1>7
<1>9. counted + Cardinality(PressesOf(m_events)) + Resolving + Cardinality(PressesOf(events))
          + Cardinality(NewPresses(records', pc)) = Changed'
  <2> DEFINE a == Cardinality(PressesOf(m_events))
             b == Cardinality(PressesOf(events))
             c == Cardinality(NewPresses(records, pc))
             d == Cardinality(NewPresses(records', pc))
  <2>1. /\ a \in Nat /\ b \in Nat /\ c \in Nat /\ Resolving \in {0, 1} /\ counted \in Nat
        /\ counted + a + Resolving + b + c = Changed
        /\ d = c + (IF k = LastKey THEN 0 ELSE 1)
    BY <1>6, QueueCounts DEF CountInv
  <2> HIDE DEF a, b, c, d
  <2>2. counted + a + Resolving + b + d = Changed'
    BY <1>7, <2>1
  <2> QED BY <2>2 DEF a, b, d
<1> QED BY <1>2, <1>5, <1>7, <1>8, <1>9 DEF CountInv

LEMMA CountDestroyWindow ==
    ASSUME Types, CountInv, NEW w \in Windows, DestroyWindow(w)
    PROVE  CountInv'
<1>1. PICK n \in Selectors : records' = records \o Copies(n, Notify(w))
  BY DEF DestroyWindow
<1>2. n \in Nat
  BY PipelineAssumption
<1>3. Notify(w) \in Records /\ Notify(w).type # "KeyPress"
  BY RecordTypes
<1>4. /\ records \in Seq(Records) /\ records' \in Seq(Records)
      /\ Grown(records', records, n, Notify(w))
  BY <1>1, <1>2, <1>3, ConcatCopies DEF Types
<1>5. /\ UNCHANGED <<pc, events, m_events, counted, phase, current, typed>>
      /\ Resolving' = Resolving
  BY DEF DestroyWindow, mainVars, Resolving
<1>6. /\ Cardinality(NewPresses(records', pc)) = Cardinality(NewPresses(records, pc))
      /\ KeyBefore(records', pc, Len(records') + 1, LastKey)
  <2> DEFINE longer == records'
             item == Notify(w)
  <2>1. /\ longer \in Seq(Records) /\ records \in Seq(Records) /\ item \in Records
        /\ Grown(longer, records, n, item) /\ item.type # "KeyPress"
        /\ KeyBefore(records, pc, Len(records) + 1, LastKey)
    BY <1>3, <1>4 DEF CountInv
  <2> HIDE DEF longer, item
  <2>2. /\ Cardinality(NewPresses(longer, pc)) = Cardinality(NewPresses(records, pc))
        /\ KeyBefore(longer, pc, Len(longer) + 1, LastKey)
    BY <1>2, <2>1, NewPressesGrow
  <2> QED BY <2>2 DEF longer
<1> QED BY <1>5, <1>6 DEF CountInv, Changed, LastKey

\* A press that is not repeated becomes a raw event.
LEMMA CountCallback ==
    ASSUME Types, CountInv, eventCallback
    PROVE  CountInv'
<1> DEFINE record == Head(records)
<1>1. /\ records # <<>> /\ records \in Seq(Records) /\ records' = Tail(records)
      /\ record \in Records /\ events \in Seq(Records)
  BY QueueTail DEF eventCallback, Types
<1>2. /\ pc' = IF record.type = "KeyPress" THEN record.key ELSE pc
      /\ events' = IF record.type = "StartOfData" \/ (record.type = "KeyPress" /\ record.key = pc)
                   THEN events ELSE Append(events, record)
      /\ UNCHANGED <<m_events, counted, phase, current, typed>>
  BY DEF eventCallback
<1> HIDE DEF record
<1>3. /\ Cardinality(NewPresses(records, pc)) = Cardinality(NewPresses(Tail(records), pc'))
             + (IF record.type = "KeyPress" /\ record.key # pc THEN 1 ELSE 0)
      /\ KeyBefore(Tail(records), pc', Len(Tail(records)) + 1, LastKey)
  <2> DEFINE next == pc'
  <2>1. /\ next = IF Head(records).type = "KeyPress" THEN Head(records).key ELSE pc
        /\ KeyBefore(records, pc, Len(records) + 1, LastKey)
    BY <1>2 DEF record, CountInv
  <2> HIDE DEF next
  <2>2. /\ Cardinality(NewPresses(records, pc)) = Cardinality(NewPresses(Tail(records), next))
               + (IF Head(records).type = "KeyPress" /\ Head(records).key # pc THEN 1 ELSE 0)
        /\ KeyBefore(Tail(records), next, Len(Tail(records)) + 1, LastKey)
    BY <1>1, <2>1, NewPressesTail
  <2> QED BY <2>2 DEF next, record
<1>4. Cardinality(PressesOf(events')) = Cardinality(PressesOf(events))
          + (IF record.type = "KeyPress" /\ record.key # pc THEN 1 ELSE 0)
  <2>1. Cardinality(PressesOf(events)) \in Nat
    BY QueueCounts
  <2>2. Cardinality(PressesOf(Append(events, record))) = Cardinality(PressesOf(events))
            + (IF record.type = "KeyPress" THEN 1 ELSE 0)
    BY <1>1, AppendPresses
  <2>3. CASE events' = events
    BY <1>2, <2>1, <2>2, <2>3
  <2>4. CASE events' = Append(events, record)
    BY <1>2, <2>1, <2>2, <2>4
  <2> QED BY <1>2, <2>3, <2>4
<1>5. Cardinality(NewPresses(Tail(records), pc')) \in Nat
  BY <1>1, QueueTail, PressesFinite
<1>6. counted + Cardinality(PressesOf(m_events)) + Resolving + Cardinality(PressesOf(events'))
          + Cardinality(NewPresses(records', pc')) = Changed
  <2> DEFINE a == Cardinality(PressesOf(m_events))
             b == Cardinality(PressesOf(events))
             c == Cardinality(NewPresses(records, pc))
             b2 == Cardinality(PressesOf(events'))
             c2 == Cardinality(NewPresses(records', pc'))
             moved == IF record.type = "KeyPress" /\ record.key # pc THEN 1 ELSE 0
  <2>1. /\ a \in Nat /\ b \in Nat /\ Resolving \in {0, 1} /\ counted \in Nat
        /\ counted + a + Resolving + b + c = Changed
    BY QueueCounts DEF CountInv
  <2>2. moved \in {0, 1} /\ b2 = b + moved /\ c = c2 + moved /\ c2 \in Nat
    BY <1>1, <1>3, <1>4, <1>5
  <2> HIDE DEF a, b, c, b2, c2, moved
  <2>3. counted + a + Resolving + b2 + c2 = Changed
    BY <2>1, <2>2
  <2> QED BY <2>3 DEF a, b2, c2
<1>7. Resolving' = Resolving /\ pc' \in KeyCodes \cup {0}
  BY <1>1, <1>2, QueueCounts DEF Resolving, CountInv
<1> QED BY <1>1, <1>2, <1>3, <1>6, <1>7 DEF CountInv, Changed, LastKey

\* ... which is taken to be resolved, or is no press.
LEMMA CountProcessEvent ==
    ASSUME Types, CountInv, ProcessEvent
    PROVE  CountInv'
<1> DEFINE event == Head(events)
<1>1. /\ events # <<>> /\ events \in Seq(Records) /\ m_events \in Seq(Records)
      /\ event \in Records /\ events' = Tail(events) /\ phase = "process"
      /\ UNCHANGED <<records, pc, counted, typed>>
  BY QueueTail DEF ProcessEvent, Types, serverVars
<1>2. Cardinality(PressesOf(events)) = Cardinality(PressesOf(events'))
          + (IF event.type = "KeyPress" THEN 1 ELSE 0)
  BY <1>1, TailPresses
<1>3. Cardinality(PressesOf(events')) \in Nat /\ events' \in Seq(Records)
  BY <1>1, QueueTail, PressesFinite
<1>4. phase \notin FetchPhases /\ Resolving = 0
  BY <1>1 DEF FetchPhases, Resolving
<1>5. CASE event.type = "KeyPress"
  <2>1. /\ current' = event /\ phase' \in FetchPhases /\ UNCHANGED m_events
        /\ current' # NoEvent /\ Resolving' = 1
    BY <1>1, <1>5, QueueCounts DEF ProcessEvent, FetchPhases, Resolving
  <2>2. counted + Cardinality(PressesOf(m_events')) + Resolving' + Cardinality(PressesOf(events'))
          + Cardinality(NewPresses(records, pc)) = Changed
    BY <1>2, <1>3, <1>4, <1>5, <2>1, QueueCounts DEF CountInv
  <2> QED BY <1>1, <2>1, <2>2 DEF CountInv, Changed, LastKey
<1>6. CASE event.type # "KeyPress"
  <2>1. m_events' = Append(m_events, event) /\ UNCHANGED <<current, phase>>
    BY <1>6 DEF ProcessEvent
  <2>2. Cardinality(PressesOf(m_events')) = Cardinality(PressesOf(m_events))
    <3> HIDE DEF event
    <3>1. Cardinality(PressesOf(Append(m_events, event))) = Cardinality(PressesOf(m_events))
              + (IF event.type = "KeyPress" THEN 1 ELSE 0)
      BY <1>1, AppendPresses
    <3> QED BY <1>6, <2>1, <3>1, QueueCounts
  <2>3. Resolving' = Resolving
    BY <2>1 DEF Resolving
  <2>4. counted + Cardinality(PressesOf(m_events')) + Resolving' + Cardinality(PressesOf(events'))
          + Cardinality(NewPresses(records, pc)) = Changed
    BY <1>2, <1>3, <1>6, <2>2, <2>3, QueueCounts DEF CountInv
  <2> QED BY <1>1, <2>1, <2>4 DEF CountInv, Changed, LastKey
<1> QED BY <1>5, <1>6

\* ... and is queued once it is resolved.
LEMMA CountQueueEvent ==
    ASSUME Types, CountInv, QueueEvent, phase \in FetchPhases,
           UNCHANGED <<serverVars, pc, events, counted>>
    PROVE  CountInv'
<1>1. /\ current \in Records /\ current.type = "KeyPress" /\ m_events \in Seq(Records)
      /\ m_events' = Append(m_events, current) /\ current' = NoEvent
  BY RecordTypes DEF Types, QueueEvent
<1>2. Cardinality(PressesOf(m_events')) = Cardinality(PressesOf(m_events)) + 1
  <2>1. Cardinality(PressesOf(Append(m_events, current))) = Cardinality(PressesOf(m_events))
              + (IF current.type = "KeyPress" THEN 1 ELSE 0)
    BY <1>1, AppendPresses
  <2> QED BY <1>1, <2>1
<1>3. Resolving = 1 /\ Resolving' = 0 /\ phase' \notin FetchPhases
  BY DEF Resolving, QueueEvent, FetchPhases
<1>4. counted + Cardinality(PressesOf(m_events')) + Resolving' + Cardinality(PressesOf(events))
          + Cardinality(NewPresses(records, pc)) = Changed
  BY <1>2, <1>3, QueueCounts DEF CountInv
<1> QED BY <1>1, <1>3, <1>4 DEF CountInv, serverVars, Changed, LastKey

\* ... and counted when it is dispatched.
LEMMA CountDispatch ==
    ASSUME Types, CountInv, Dispatch
    PROVE  CountInv'
<1>1. /\ m_events # <<>> /\ m_events \in Seq(Records) /\ m_events' = Tail(m_events)
      /\ UNCHANGED <<serverVars, pc, events, phase, current>>
      /\ counted' = IF Head(m_events).type = "KeyPress" THEN counted + 1 ELSE counted
  BY DEF Dispatch, Types
<1>2. Cardinality(PressesOf(m_events)) = Cardinality(PressesOf(m_events'))
          + (IF Head(m_events).type = "KeyPress" THEN 1 ELSE 0)
  BY <1>1, TailPresses
<1>3. Cardinality(PressesOf(m_events')) \in Nat
  BY <1>1, QueueTail, PressesFinite
<1>4. Resolving' = Resolving
  BY <1>1 DEF Resolving
<1>5. counted' + Cardinality(PressesOf(m_events')) + Resolving + Cardinality(PressesOf(events))
          + Cardinality(NewPresses(records, pc)) = Changed
  BY <1>1, <1>2, <1>3, QueueCounts DEF CountInv
<1>6. counted' \in Nat
  BY <1>1 DEF CountInv
<1> QED BY <1>1, <1>4, <1>5, <1>6 DEF CountInv, serverVars, Changed, LastKey

LEMMA CountStep == Types /\ CountInv /\ [Next]_vars => CountInv'
<1> SUFFICES ASSUME Types, CountInv, [Next]_vars
             PROVE  CountInv'
  OBVIOUS
<1>1. CASE XServer
  <2>1. ASSUME NEW w \in Windows, NEW above \in Parents(w), CreateWindow(w, above)
        PROVE  CountInv'
    BY <2>1, CountKept DEF CreateWindow, mainVars
  <2> QED BY <1>1, <2>1, CountPressKey, CountDestroyWindow DEF XServer
<1>2. CASE WaitEnds \/ ProcessEnds \/ LoopWaits
  <2>1. /\ UNCHANGED <<records, pc, events, m_events, counted, typed, current>>
        /\ phase \notin FetchPhases /\ phase' \notin FetchPhases
    BY <1>2 DEF WaitEnds, ProcessEnds, LoopWaits, serverVars, FetchPhases
  <2> QED BY <2>1, CountKept
<1>3. CASE NoClassHint \/ MoveUp \/ PidHint
  <2>1. UNCHANGED <<records, pc, events, m_events, counted, typed, current, phase>>
    BY <1>3 DEF NoClassHint, MoveUp, PidHint, serverVars
  <2> QED BY <2>1, CountKept
<1>4. CASE FetchClassName
  <2>1. /\ UNCHANGED <<records, pc, events, m_events, counted, typed, current>>
        /\ phase \in FetchPhases /\ phase' \in FetchPhases
    BY <1>4 DEF FetchClassName, ClassFetched, serverVars, FetchPhases
  <2> QED BY <2>1, CountKept
<1>5. CASE FetchTermPid
  <2>1. UNCHANGED <<serverVars, pc, events, counted>> /\ phase \in FetchPhases
    BY <1>5 DEF FetchTermPid, FetchPhases
  <2>2. \/ QueueEvent
        \/ phase' = "fetchClientPid" /\ UNCHANGED <<m_events, current>>
    BY <1>5 DEF FetchTermPid
  <2>3. CASE phase' = "fetchClientPid" /\ UNCHANGED <<m_events, current>>
    <3>1. /\ UNCHANGED <<records, pc, events, m_events, counted, typed, current>>
          /\ phase' \in FetchPhases
      BY <2>1, <2>3 DEF serverVars, FetchPhases
    <3> QED BY <2>1, <3>1, CountKept
  <2> QED BY <2>1, <2>2, <2>3, CountQueueEvent
<1>6. CASE FetchClientPid
  BY <1>6, CountQueueEvent DEF FetchClientPid, FetchPhases
<1>7. CASE UNCHANGED vars
  BY <1>7, CountKept DEF vars, serverVars, mainVars
<1> QED BY <1>1, <1>2, <1>3, <1>4, <1>5, <1>6, <1>7, CountCallback, CountProcessEvent,
           CountDispatch DEF Next, MainThread

\* No press is counted twice, and once all are dispatched every change from one key to
\* another has been counted, for any number of windows, clients and batches.
THEOREM CountsPressesTheorem == Spec => []CountsPresses
<1>1. Types /\ CountInv => CountsPresses
  <2> SUFFICES ASSUME Types, CountInv
               PROVE  CountsPresses
    OBVIOUS
  <2>1. Changed \in Nat /\ Changed <= Len(typed) /\ Len(typed) \in Nat
    BY ChangesFinite, LenProperties DEF CountInv, Changed
  <2>2. counted <= Changed
    BY <2>1, QueueCounts DEF CountInv
  <2>3. ASSUME AllDispatched
        PROVE  counted = Changed
    <3>1. Len(records) = 0 /\ Len(events) = 0 /\ Len(m_events) = 0 /\ Resolving = 0
      BY <2>3 DEF AllDispatched, CountInv, Resolving
    <3>2. PressesOf(m_events) = {} /\ PressesOf(events) = {} /\ NewPresses(records, pc) = {}
      BY <3>1 DEF PressesOf, NewPresses
    <3> QED BY <3>1, <3>2, FS_EmptySet DEF CountInv
  <2>4. counted \in Nat
    BY DEF CountInv
  <2> QED BY <2>1, <2>2, <2>3, <2>4 DEF CountsPresses, Changed
<1>2. Spec => []PipelineInv
  BY PipelineInit, PipelineStep, PTL DEF Spec
<1>3. PipelineInv => Types
  BY DEF PipelineInv
<1> QED BY <1>1, <1>2, <1>3, CountInit, CountStep, PTL DEF Spec

-----------------------------------------------------------------------------
(* The bounds                                                              *)

\* Each change begins one life, and the first lives were there before.
LEMMA LivesAreChanges ==
    ASSUME life \in [Windows -> Nat \ {0}]
    PROVE  /\ Changes = SumFunction(life) - Cardinality(Windows) /\ Changes \in Nat
           /\ \A w \in Windows : life[w] <= Changes + 1
           /\ Cardinality(Windows) \in Nat /\ SumFunction(life) \in Nat
<1> DEFINE f == [w \in Windows |-> life[w] - 1]
<1>1. /\ IsFiniteSet(Windows) /\ Cardinality(Windows) \in Nat /\ DOMAIN life = Windows
      /\ \A w \in Windows : life[w] \in Nat \ {0}
  BY PipelineAssumption, FS_CardinalityType
<1>2. \A w \in Windows : f[w] \in Nat /\ f[w] \in Int /\ life[w] = f[w] + 1
  BY <1>1
<1> HIDE DEF f
<1>3. SumFunctionOnSet(life, Windows) = SumFunctionOnSet(f, Windows) + Cardinality(Windows)
  BY <1>1, <1>2, SumOfSuccessors
<1>4. /\ SumFunctionOnSet(f, Windows) \in Nat
      /\ \A w \in Windows : f[w] <= SumFunctionOnSet(f, Windows)
  BY <1>1, <1>2, SumOfNats, SumIsAtLeast
<1>5. Changes = SumFunctionOnSet(life, Windows) - Cardinality(Windows)
  BY <1>1 DEF Changes, SumFunction
<1>6. SumFunction(life) = SumFunctionOnSet(life, Windows)
  BY <1>1 DEF SumFunction
<1>7. Changes = SumFunctionOnSet(f, Windows)
  BY <1>1, <1>3, <1>4, <1>5
<1> QED BY <1>1, <1>2, <1>3, <1>4, <1>5, <1>6, <1>7

\* No window has more lives than there are changes, and what owns a window or is in
\* the cache is of one of them.
BoundsInv == /\ life \in [Windows -> Nat \ {0}] /\ Changes <= MaxChanges
             /\ owner \in [Windows -> Owners]
             /\ \A w \in Windows : /\ m_cache[w].class \in Owners \cup {Unknown}
                                   /\ m_cache[w].pid \in Owners \cup {Unknown}

LEMMA LivesFit ==
    ASSUME BoundsInv
    PROVE  life \in [Windows -> Lives]
<1>1. \A w \in Windows : life[w] \in Nat \ {0} /\ life[w] <= MaxChanges + 1
  <2>1. MaxChanges \in Nat /\ Changes \in Nat /\ Changes <= MaxChanges
    BY LivesAreChanges, PipelineAssumption DEF BoundsInv
  <2>2. \A w \in Windows : life[w] \in Nat \ {0} /\ life[w] <= Changes + 1
    BY LivesAreChanges DEF BoundsInv
  <2> QED BY <2>1, <2>2
<1>2. \A w \in Windows : life[w] \in Lives
  BY <1>1, PipelineAssumption DEF Lives
<1> QED BY <1>2 DEF BoundsInv

LEMMA BoundsInit == Init => BoundsInv
<1> SUFFICES ASSUME Init
             PROVE  BoundsInv
  OBVIOUS
<1>1. life \in [Windows -> Nat \ {0}] /\ DOMAIN life = Windows /\ \A w \in Windows : life[w] = 1
  BY DEF Init
<1>2. Changes <= MaxChanges
  <2> DEFINE f == [w \in Windows |-> 0]
  <2>1. /\ IsFiniteSet(Windows) /\ Cardinality(Windows) \in Nat
        /\ \A w \in Windows : f[w] = 0 /\ f[w] \in Int /\ life[w] = f[w] + 1
    BY <1>1, PipelineAssumption, FS_CardinalityType
  <2> HIDE DEF f
  <2>2. SumFunctionOnSet(life, Windows) = SumFunctionOnSet(f, Windows) + Cardinality(Windows)
    BY <2>1, SumOfSuccessors
  <2>3. SumFunctionOnSet(f, Windows) = 0
    BY <2>1, SumOfZeros
  <2>4. SumFunction(life) = SumFunctionOnSet(life, Windows)
    BY <1>1 DEF SumFunction
  <2>5. Changes = SumFunction(life) - Cardinality(Windows)
    BY <1>1, LivesAreChanges
  <2> QED BY <2>1, <2>2, <2>3, <2>4, <2>5, PipelineAssumption
<1>3. owner \in [Windows -> Owners]
  <2>1. 1 \in Lives
    BY PipelineAssumption DEF Lives
  <2> QED BY <2>1 DEF Init, Owners
<1>4. \A w \in Windows : m_cache[w].class = Unknown /\ m_cache[w].pid = Unknown
  BY DEF Init
<1> QED BY <1>1, <1>2, <1>3, <1>4 DEF BoundsInv

\* A window begins another life.
LEMMA LifeStep ==
    ASSUME BoundsInv, NEW w \in Windows, life' = [life EXCEPT ![w] = @ + 1],
           Changes < MaxChanges, UNCHANGED m_cache, owner' \in [Windows -> Owners]
    PROVE  BoundsInv'
<1> DEFINE e == life'
<1>1. /\ life \in [Windows -> Nat \ {0}] /\ e \in [Windows -> Nat \ {0}]
      /\ e[w] = life[w] + 1 /\ \A v \in Windows \ {w} : e[v] = life[v]
  BY DEF BoundsInv
<1>2. SumFunction(e) = SumFunction(life) + 1
  <2>1. life \in [Windows -> Nat] /\ e \in [Windows -> Nat] /\ IsFiniteSet(Windows)
    BY <1>1, PipelineAssumption
  <2> HIDE DEF e
  <2> QED BY <1>1, <2>1, SumOneMore
<1>3. Changes' = Changes + 1
  <2>1. /\ Changes = SumFunction(life) - Cardinality(Windows)
        /\ Cardinality(Windows) \in Nat /\ SumFunction(life) \in Nat
    BY <1>1, LivesAreChanges
  <2>2. Changes' = SumFunction(e) - Cardinality(Windows)
    BY DEF Changes
  <2> QED BY <1>2, <2>1, <2>2
<1>4. Changes' <= MaxChanges
  BY <1>1, <1>3, LivesAreChanges, PipelineAssumption
<1> QED BY <1>1, <1>4 DEF BoundsInv

\* An entry of the cache is filled with an owner, or with nothing.
LEMMA CacheStep ==
    ASSUME BoundsInv, UNCHANGED <<life, owner>>,
           \A w \in Windows : /\ m_cache'[w].class \in Owners \cup {Unknown}
                              /\ m_cache'[w].pid \in Owners \cup {Unknown}
    PROVE  BoundsInv'
<1>1. Changes' = Changes
  BY DEF Changes
<1> QED BY <1>1 DEF BoundsInv

LEMMA BoundsStep == Types /\ BoundsInv /\ [Next]_vars => BoundsInv'
<1> SUFFICES ASSUME Types, BoundsInv, [Next]_vars
             PROVE  BoundsInv'
  OBVIOUS
<1>1. ASSUME NEW w \in Windows, NEW above \in Parents(w), CreateWindow(w, above)
      PROVE  BoundsInv'
  <2>1. /\ life' = [life EXCEPT ![w] = @ + 1] /\ Changes < MaxChanges /\ UNCHANGED m_cache
        /\ above \in Windows \cup {Root}
    BY <1>1 DEF CreateWindow, mainVars, Parents
  <2>2. <<w, life[w] + 1>> \in Owners
    <3>1. /\ life[w] \in Nat \ {0} /\ life[w] <= Changes + 1 /\ Changes \in Nat
          /\ MaxChanges \in Nat
      BY LivesAreChanges, PipelineAssumption DEF BoundsInv
    <3>2. life[w] + 1 \in Lives
      BY <2>1, <3>1 DEF Lives
    <3> QED BY <3>2 DEF Owners
  <2>3. owner \in [Windows -> Owners] /\ Nobody \in Owners
    BY DEF BoundsInv, Owners
  <2>4. owner' \in [Windows -> Owners]
    BY <1>1, <2>1, <2>2, <2>3 DEF CreateWindow
  <2> QED BY <2>1, <2>4, LifeStep
<1>2. ASSUME NEW w \in Windows, DestroyWindow(w)
      PROVE  BoundsInv'
  <2>1. /\ life' = [life EXCEPT ![w] = @ + 1] /\ Changes < MaxChanges
        /\ UNCHANGED <<m_cache, owner>>
    BY <1>2 DEF DestroyWindow, mainVars
  <2>2. owner' \in [Windows -> Owners]
    BY <2>1 DEF BoundsInv
  <2> QED BY <2>1, <2>2, LifeStep
<1>3. CASE UNCHANGED <<life, owner, m_cache>>
  BY <1>3, CacheStep DEF BoundsInv
<1>4. CASE FetchClassName
  <2>1. PICK class : ClassFetched(class) /\ class \in {Entry.class, owner[walk.at], Nobody}
    BY <1>4 DEF FetchClassName
  <2>2. current.window \in Windows /\ walk.at \in Windows
    BY <1>4, RecordTypes DEF FetchClassName, Types, FetchPhases
  <2>3. class \in Owners \cup {Unknown}
    BY <2>1, <2>2 DEF BoundsInv, Entry, Owners
  <2>4. /\ UNCHANGED <<life, owner>>
        /\ m_cache' = [m_cache EXCEPT ![current.window].class = class]
    BY <1>4, <2>1 DEF ClassFetched, serverVars, windowVars
  <2>5. \A w \in Windows : /\ m_cache'[w].class \in {m_cache[w].class, class}
                           /\ m_cache'[w].pid = m_cache[w].pid
    BY <2>2, <2>4 DEF Types
  <2> QED BY <2>3, <2>4, <2>5, CacheStep DEF BoundsInv
<1>5. CASE FetchTermPid \/ FetchClientPid
  <2>1. PICK pid \in Pids : Cached(pid)
    BY <1>5 DEF FetchTermPid, FetchClientPid
  <2>2. current.window \in Windows /\ walk.at \in Windows
    BY <1>5, RecordTypes DEF FetchTermPid, FetchClientPid, Types, FetchPhases
  <2>3. pid \in {Entry.pid, Unknown, <<walk.at, life[walk.at]>>}
    BY <2>1 DEF Pids
  <2>4. <<walk.at, life[walk.at]>> \in Owners
    BY <2>2, LivesFit DEF Owners
  <2>5. pid \in Owners \cup {Unknown}
    BY <2>2, <2>3, <2>4 DEF BoundsInv, Entry
  <2>6. /\ UNCHANGED <<life, owner>>
        /\ m_cache' = [m_cache EXCEPT ![current.window].pid = pid]
    BY <1>5, <2>1 DEF FetchTermPid, FetchClientPid, Cached, serverVars, windowVars
  <2>7. \A w \in Windows : /\ m_cache'[w].pid \in {m_cache[w].pid, pid}
                           /\ m_cache'[w].class = m_cache[w].class
    BY <2>2, <2>6 DEF Types
  <2> QED BY <2>5, <2>6, <2>7, CacheStep DEF BoundsInv
<1>6. CASE Dispatch
  <2>1. \A w \in Windows : m_cache'[w] \in {m_cache[w], [class |-> Unknown, pid |-> Unknown]}
    BY <1>6 DEF Dispatch, Forget, Types
  <2>2. UNCHANGED <<life, owner>>
    BY <1>6 DEF Dispatch, serverVars, windowVars
  <2> QED BY <2>1, <2>2, CacheStep DEF BoundsInv
<1>7. ASSUME NEW w \in Windows, NEW k \in KeyCodes, PressKey(w, k)
      PROVE  UNCHANGED <<life, owner, m_cache>>
  BY <1>7 DEF PressKey, windowVars, mainVars
<1>8. eventCallback \/ WaitEnds \/ ProcessEvent \/ NoClassHint \/ MoveUp \/ PidHint
          \/ ProcessEnds \/ LoopWaits \/ UNCHANGED vars => UNCHANGED <<life, owner, m_cache>>
  BY DEF eventCallback, WaitEnds, ProcessEvent, NoClassHint, MoveUp, PidHint, ProcessEnds,
         LoopWaits, vars, serverVars, windowVars, mainVars
<1> QED BY <1>1, <1>2, <1>3, <1>4, <1>5, <1>6, <1>7, <1>8 DEF Next, XServer, MainThread

\* There is a walk exactly while a press is resolved.
WalkTypes == /\ IF phase \in FetchPhases
                THEN walk \in [at : Windows, request : {"hint", "parent", "pid"}]
                ELSE walk = NoWalk
             /\ missed \subseteq Windows

LEMMA WalkTypesStep == Types /\ WalkTypes /\ [Next]_vars => WalkTypes'
<1> SUFFICES ASSUME Types, WalkTypes, [Next]_vars
             PROVE  WalkTypes'
  OBVIOUS
<1> USE DEF WalkTypes, FetchPhases
<1>1. CASE XServer
  <2>1. UNCHANGED <<phase, walk>> /\ missed' \subseteq Windows
    BY <1>1 DEF XServer, CreateWindow, DestroyWindow, PressKey, windowVars, mainVars
  <2> QED BY <2>1
<1>2. CASE eventCallback \/ WaitEnds \/ ProcessEnds \/ Dispatch \/ LoopWaits \/ UNCHANGED vars
  <2>1. /\ UNCHANGED <<walk, missed>>
        /\ phase' = phase \/ (phase \notin FetchPhases /\ phase' \notin FetchPhases)
    BY <1>2 DEF eventCallback, WaitEnds, ProcessEnds, Dispatch, LoopWaits, vars, mainVars,
       serverVars, windowVars
  <2> QED BY <2>1
<1>3. CASE ProcessEvent
  <2>1. UNCHANGED missed
    BY <1>3 DEF ProcessEvent, serverVars, windowVars
  <2>2. CASE Head(events).type = "KeyPress"
    <3>1. Head(events) \in Records /\ Head(events).window \in Windows
      BY <1>3, <2>2, QueueTail, RecordTypes DEF Types, ProcessEvent
    <3> QED BY <1>3, <2>1, <2>2, <3>1 DEF ProcessEvent, Walk
  <2>3. CASE Head(events).type # "KeyPress"
    BY <1>3, <2>1, <2>3 DEF ProcessEvent
  <2> QED BY <2>2, <2>3
<1>4. CASE NoClassHint \/ MoveUp \/ PidHint
  <2>1. phase \in FetchPhases /\ UNCHANGED <<phase, missed>>
    BY <1>4 DEF NoClassHint, MoveUp, PidHint, Asks, serverVars, windowVars
  <2>2. parent[walk.at] \in Windows \cup {Root}
    BY <2>1 DEF Types
  <2> QED BY <1>4, <2>1, <2>2 DEF NoClassHint, MoveUp, PidHint, Walk
<1>5. CASE FetchClassName
  <2>1. current.window \in Windows /\ UNCHANGED missed
    BY <1>5, RecordTypes DEF FetchClassName, ClassFetched, Types, serverVars, windowVars
  <2>2. phase' \in FetchPhases /\ walk' = Walk(current.window)
    BY <1>5 DEF FetchClassName, ClassFetched
  <2> QED BY <2>1, <2>2 DEF Walk
<1>6. CASE FetchTermPid \/ FetchClientPid
  <2>1. current.window \in Windows /\ UNCHANGED missed
    BY <1>6, RecordTypes DEF FetchTermPid, FetchClientPid, Types, serverVars, windowVars
  <2>2. QueueEvent \/ (phase' = "fetchClientPid" /\ walk' = Walk(current.window))
    BY <1>6 DEF FetchTermPid, FetchClientPid
  <2> QED BY <2>1, <2>2 DEF Walk, QueueEvent
<1> QED BY <1>1, <1>2, <1>3, <1>4, <1>5, <1>6 DEF Next, MainThread

\* The types of the variables: the three queues hold records, lives, owners and counts
\* stay within the changes and the presses, and there is a current press and a walk
\* for it exactly while a press is resolved.
THEOREM TypeCorrect == Spec => []TypeOK
<1>1. Types /\ CountInv /\ BoundsInv /\ WalkTypes => TypeOK
  <2> SUFFICES ASSUME Types, CountInv, BoundsInv, WalkTypes
               PROVE  TypeOK
    OBVIOUS
  <2>1. counted \in 0..MaxPresses
    <3>1. Changed \in Nat /\ Changed <= Len(typed) /\ Len(typed) \in Nat
      BY ChangesFinite, LenProperties DEF CountInv, Changed
    <3> QED BY <3>1, QueueCounts, PipelineAssumption DEF CountInv
  <2>2. phase \in FetchPhases => current \in Presses
    BY DEF Types
  <2>3. phase \notin FetchPhases => current = NoEvent
    BY DEF CountInv
  <2> QED BY <2>1, <2>2, <2>3, LivesFit DEF Types, CountInv, BoundsInv, WalkTypes, TypeOK
<1>2. Spec => []PipelineInv
  BY PipelineInit, PipelineStep, PTL DEF Spec
<1>3. PipelineInv => Types
  BY DEF PipelineInv
<1>4. Init => WalkTypes
  BY DEF Init, WalkTypes, FetchPhases
<1> QED BY <1>1, <1>2, <1>3, <1>4, CountInit, CountStep, BoundsInit, BoundsStep, WalkTypesStep,
           PTL DEF Spec
=============================================================================
