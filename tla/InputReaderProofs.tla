------------------------- MODULE InputReaderProofs -------------------------
(***************************************************************************)
(* Proofs about InputReader, for any devices, any number of slots and      *)
(* descriptors, any sizes of the queues and whatever may fail: slots,      *)
(* descriptors, epoll set, directory and application agree.                *)
(***************************************************************************)
EXTENDS InputReader, FiniteSetTheorems, SequenceTheorems, WellFoundedInduction, TLAPS

-----------------------------------------------------------------------------
(* Smallest elements, and the operators of the module.                     *)

LEMMA Smallest ==
  ASSUME NEW S \in SUBSET Nat, S # {}
  PROVE  First(S) \in S /\ \A n \in S : First(S) <= n
<1> DEFINE Less == {ss \in Nat \X Nat : ss[1] < ss[2]}
<1>1. IsWellFoundedOn(Less, Nat)
  BY NatLessThanWellFounded DEF OpToRel
<1>2. \E m \in S : \A n \in S : ~ (<<n, m>> \in Less)
  <2> HIDE DEF Less
  <2> QED
    BY <1>1, WFMin
<1>3. \E m \in S : \A n \in S : m <= n
  <2>1. PICK m \in S : \A n \in S : ~ (<<n, m>> \in Less)
    BY <1>2
  <2>2. ASSUME NEW n \in S PROVE m <= n
    <3>1. n \in Nat /\ m \in Nat /\ ~ (<<n, m>> \in Less)
      BY <2>1
    <3>2. <<n, m>> \in Nat \X Nat /\ <<n, m>>[1] = n /\ <<n, m>>[2] = m
      BY <3>1
    <3>3. ~ (n < m)
      BY <3>1, <3>2
    <3> QED
      BY <3>1, <3>3
  <2> QED
    BY <2>2
<1> QED
  BY <1>3 DEF First

LEMMA FirstSlot ==
  ASSUME NEW S \in SUBSET Slot, S # {}
  PROVE  First(S) \in S
<1>1. S \in SUBSET Nat
  BY DEF Slot
<1> QED
  BY <1>1, Smallest

LEMMA FreeFd == FreeFds # {} => LowestFd \in Fd /\ files[LowestFd].kind = "closed"
<1> SUFFICES ASSUME FreeFds # {} PROVE LowestFd \in FreeFds
  BY DEF FreeFds
<1>1. FreeFds \in SUBSET Nat
  BY DEF FreeFds, Fd
<1>2. LowestFd = First(FreeFds)
  BY DEF LowestFd, First
<1> QED
  BY <1>1, <1>2, Smallest

(* A slot that is written stays a slot.                                    *)
LEMMA SlotWritten ==
  ASSUME NEW his \in [Slot -> [is_avaiable : BOOLEAN, device_name : Device \cup {NULL},
                                fd : Fd \cup {NULL}]],
         NEW s \in Slot, NEW d \in Device \cup {NULL}, NEW f \in Fd \cup {NULL},
         NEW avaiable \in BOOLEAN
  PROVE  /\ [his EXCEPT ![s].device_name = d, ![s].fd = f]
              \in [Slot -> [is_avaiable : BOOLEAN, device_name : Device \cup {NULL},
                            fd : Fd \cup {NULL}]]
         /\ [his EXCEPT ![s].is_avaiable = avaiable]
              \in [Slot -> [is_avaiable : BOOLEAN, device_name : Device \cup {NULL},
                            fd : Fd \cup {NULL}]]
<1> DEFINE Record == [is_avaiable : BOOLEAN, device_name : Device \cup {NULL}, fd : Fd \cup {NULL}]
<1>1. his[s] \in Record
  OBVIOUS
<1>2. /\ [[his[s] EXCEPT !.device_name = d] EXCEPT !.fd = f] \in Record
      /\ [his[s] EXCEPT !.is_avaiable = avaiable] \in Record
  BY <1>1
<1>3. his \in [Slot -> Record]
  OBVIOUS
<1> HIDE DEF Record
<1>4. \A r \in Record : [his EXCEPT ![s] = r] \in [Slot -> Record]
  BY <1>3
<1> QED
  BY <1>2, <1>3, <1>4 DEF Record

(* What is open on what.                                                   *)
LEMMA FileFacts ==
  /\ Closed \in File /\ Inotify \in File
  /\ Closed.kind = "closed" /\ Inotify.kind = "inotify"
  /\ \A d \in Device : /\ Opened(d) \in File /\ Opened(d).device = d
                       /\ Opened(d).kind = "device" /\ Opened(d).input = FALSE
BY DEF File, Closed, Inotify, Opened

LEMMA FileChanges ==
  ASSUME NEW f \in File
  PROVE  /\ [f EXCEPT !.input = FALSE] \in File
         /\ [f EXCEPT !.input = FALSE].kind = f.kind
         /\ [f EXCEPT !.input = FALSE].device = f.device
         /\ [f EXCEPT !.input = TRUE] \in File
         /\ [f EXCEPT !.input = TRUE].kind = f.kind
         /\ [f EXCEPT !.input = TRUE].device = f.device
         /\ [f EXCEPT !.input = TRUE].input = TRUE
         /\ [f EXCEPT !.kind = "gone", !.input = FALSE] \in File
         /\ [f EXCEPT !.kind = "gone", !.input = FALSE].kind = "gone"
         /\ [f EXCEPT !.kind = "gone", !.input = FALSE].device = f.device
BY DEF File

-----------------------------------------------------------------------------
(* Types.                                                                  *)

LEMMA SequenceFacts ==
  ASSUME NEW S, NEW s \in Seq(S), s # <<>>, NEW n \in 0..Len(s)
  PROVE  /\ Len(s) \in Nat \ {0}
         /\ Head(s) \in S /\ Tail(s) \in Seq(S)
         /\ SubSeq(s, 1, n) \in Seq(S) /\ SubSeq(s, n + 1, Len(s)) \in Seq(S)
         /\ Len(SubSeq(s, n + 1, Len(s))) = Len(s) - n
<1>1. Len(s) \in Nat \ {0} /\ n \in Nat /\ n <= Len(s)
  BY LenProperties, EmptySeq
<1>2. \A k \in 1..Len(s) : s[k] \in S
  BY ElementOfSeq
<1>3. SubSeq(s, 1, n) \in Seq(S)
  BY <1>1, <1>2, SubSeqProperties
<1>4. SubSeq(s, n + 1, Len(s)) \in Seq(S) /\ Len(SubSeq(s, n + 1, Len(s))) = Len(s) - n
  <2>1. n + 1 \in Int /\ Len(s) \in Int /\ \A k \in (n + 1)..Len(s) : s[k] \in S
    BY <1>1, <1>2
  <2>2. SubSeq(s, n + 1, Len(s)) \in Seq(S) /\
        Len(SubSeq(s, n + 1, Len(s))) = IF n + 1 <= Len(s) THEN Len(s) - (n + 1) + 1 ELSE 0
    BY <2>1, SubSeqProperties
  <2> QED
    BY <1>1, <2>2
<1> QED
  BY <1>1, <1>3, <1>4, HeadTailProperties

LEMMA NotifyType ==
  ASSUME TypeOK, NEW d \in Device, NEW mask \in {"create", "delete"}, Notify(mask, d)
  PROVE  /\ queue' \in Seq(Event) /\ Len(queue') <= QueueSize
         /\ faulted' \in BOOLEAN /\ missed' \subseteq Device
<1>1. /\ queue \in Seq(Event) /\ Len(queue) \in Nat /\ Len(queue) <= QueueSize
      /\ QueueSize \in Nat
  BY SizeAssumption, LenProperties DEF TypeOK
<1>2. [mask |-> mask, name |-> d] \in Event
  BY DEF Event
<1>3. queue' = queue \/ (Len(queue) # QueueSize /\ queue' = Append(queue, [mask |-> mask, name |-> d]))
  BY DEF Notify
<1>4. queue' \in Seq(Event) /\ Len(queue') <= QueueSize
  <2>1. CASE queue' = queue
    BY <1>1, <2>1
  <2>2. CASE Len(queue) # QueueSize /\ queue' = Append(queue, [mask |-> mask, name |-> d])
    <3>1. queue' \in Seq(Event) /\ Len(queue') = Len(queue) + 1
      BY <1>1, <1>2, <2>2, AppendProperties
    <3> QED
      BY <1>1, <2>2, <3>1
  <2> QED
    BY <1>3, <2>1, <2>2
<1>5. faulted' \in BOOLEAN
  BY DEF Notify
<1>6. missed' \subseteq Device
  BY DEF Notify, TypeOK
<1> QED
  BY <1>4, <1>5, <1>6

(* A failed open writes nothing but the name and descriptor of one slot    *)
(* that is not in use.                                                     *)
LEMMA AddOpenFailsSlots ==
  ASSUME TypeOK, AddOpenFails, l_dev \in Device
  PROVE  /\ First(Slot \ Available) \in Slot \ Available
         /\ g_his' \in [Slot -> [is_avaiable : BOOLEAN, device_name : Device \cup {NULL},
                                 fd : Fd \cup {NULL}]]
         /\ \A s \in Slot : g_his'[s].is_avaiable = g_his[s].is_avaiable
         /\ \A s \in Available : g_his'[s] = g_his[s]
         /\ Available' = Available
<1> DEFINE s == First(Slot \ Available)
<1>1. s \in Slot \ Available /\ s \in Slot
  BY FirstSlot DEF AddOpenFails, Available
<1> HIDE DEF s
<1>2. CASE g_his' = g_his
  BY <1>1, <1>2 DEF TypeOK, Available, s
<1>3. CASE g_his' = [g_his EXCEPT ![s].device_name = l_dev, ![s].fd = NULL]
  <2>1. g_his' \in [Slot -> [is_avaiable : BOOLEAN, device_name : Device \cup {NULL},
                             fd : Fd \cup {NULL}]]
    BY <1>1, <1>3, SlotWritten DEF TypeOK
  <2>2. \A t \in Slot : g_his'[t].is_avaiable = g_his[t].is_avaiable
    BY <1>1, <1>3 DEF TypeOK
  <2>3. \A t \in Available : g_his'[t] = g_his[t]
    BY <1>1, <1>3 DEF TypeOK, Available
  <2> QED
    BY <1>1, <2>1, <2>2, <2>3 DEF Available, s
<1> QED
  BY <1>2, <1>3 DEF AddOpenFails, s

LEMMA TypeStep == TypeOK /\ AtWork /\ SlotsOwnFiles /\ [Next]_vars => TypeOK'
<1> SUFFICES ASSUME TypeOK, AtWork, SlotsOwnFiles, [Next]_vars PROVE TypeOK'
  OBVIOUS
<1> USE DEF kernel, table, scan, work, listener, reader, app, marks, history
<1>1. CASE UNCHANGED vars
  BY <1>1 DEF vars, TypeOK
<1>2. ASSUME NEW d \in Device, Plug(d) PROVE TypeOK'
  <2>1. plugs' \in 0..MaxPlugs
    BY <1>2, SizeAssumption DEF Plug, TypeOK
  <2>2. queue' \in Seq(Event) /\ Len(queue') <= QueueSize /\ faulted' \in BOOLEAN /\ missed' \subseteq Device
    BY <1>2, NotifyType DEF Plug
  <2> QED
    BY <1>2, <2>1, <2>2 DEF Plug, TypeOK
<1>3. ASSUME NEW d \in Device, Unplug(d) PROVE TypeOK'
  <2>1. plugs' \in 0..MaxPlugs
    <3>1. plugs < MaxPlugs /\ plugs' = plugs + 1
      BY <1>3 DEF Unplug
    <3> QED
      BY <3>1, SizeAssumption DEF TypeOK
  <2>2. queue' \in Seq(Event) /\ Len(queue') <= QueueSize /\ faulted' \in BOOLEAN /\ missed' \subseteq Device
    BY <1>3, NotifyType DEF Unplug
  <2>3. files' \in [Fd -> File]
    BY <1>3, FileChanges DEF Unplug, TypeOK
  <2>4. i_pc' \in {"wait", "next", "blocked"} /\ i_fd' \in Fd \cup {NULL} /\ i_dev' \in Device \cup {NULL}
    BY <1>3 DEF Unplug, TypeOK
  <2> QED
    BY <1>3, <2>1, <2>2, <2>3, <2>4 DEF Unplug, TypeOK
<1>4. ASSUME NEW d \in Device, InputEvent(d) PROVE TypeOK'
  <2>1. files' \in [Fd -> File]
    BY <1>4, FileChanges DEF InputEvent, TypeOK
  <2>2. i_pc' \in {"wait", "next", "blocked"} /\ i_fd' \in Fd \cup {NULL} /\ i_dev' \in Device \cup {NULL}
    BY <1>4 DEF InputEvent, TypeOK
  <2> QED
    BY <1>4, <2>1, <2>2 DEF InputEvent, TypeOK
<1>5. CASE OpenDir
  <2>1. scans' \in 0..MaxScans
    BY <1>5, SizeAssumption DEF OpenDir, TypeOK
  <2> QED
    BY <1>5, <2>1 DEF OpenDir, TypeOK, ListenerPc
<1>6. ASSUME NEW d \in Device, ReadEntry(d) PROVE TypeOK'
  BY <1>6 DEF ReadEntry, TypeOK, ListenerPc
<1>7. CASE CloseDir \/ InotifyInitFails \/ AddWatch \/ AddWatchFails
  BY <1>7 DEF CloseDir, InotifyInitFails, AddWatch, AddWatchFails, TypeOK, ListenerPc
<1>8. CASE InotifyInit
  <2>1. files' \in [Fd -> File]
    BY <1>8, FreeFd, FileFacts DEF InotifyInit, TypeOK
  <2> QED
    BY <1>8, <2>1 DEF InotifyInit, TypeOK, ListenerPc
<1>9. CASE ReadEvents
  <2>1. PICK n \in 0..Len(queue) :
          l_events' = SubSeq(queue, 1, n) /\ queue' = SubSeq(queue, n + 1, Len(queue))
    <3>1. ReadSize \in Nat /\ Len(queue) \in Nat
      BY SizeAssumption, LenProperties DEF TypeOK
    <3> DEFINE n == IF Len(queue) < ReadSize THEN Len(queue) ELSE ReadSize
    <3>2. n \in 0..Len(queue)
      BY <3>1
    <3>3. l_events' = SubSeq(queue, 1, n) /\ queue' = SubSeq(queue, n + 1, Len(queue))
      BY <1>9 DEF ReadEvents
    <3> HIDE DEF n
    <3> QED
      BY <3>2, <3>3
  <2>2. l_events' \in Seq(Event) /\ queue' \in Seq(Event) /\ Len(queue') <= QueueSize
    <3>1. queue \in Seq(Event) /\ queue # <<>> /\ QueueSize \in Nat /\ Len(queue) <= QueueSize
      BY <1>9, SizeAssumption DEF ReadEvents, TypeOK
    <3>2. l_events' \in Seq(Event) /\ queue' \in Seq(Event) /\ Len(queue') = Len(queue) - n
      BY <2>1, <3>1, SequenceFacts
    <3>3. Len(queue) \in Nat
      BY <3>1, LenProperties
    <3> QED
      BY <3>1, <3>2, <3>3
  <2> QED
    BY <1>9, <2>2 DEF ReadEvents, TypeOK, ListenerPc
<1>10. CASE NextEvent
  <2>1. CASE l_events = <<>>
    BY <1>10, <2>1 DEF NextEvent, TypeOK, ListenerPc
  <2>2. CASE l_events # <<>>
    <3>1. Head(l_events) \in Event /\ Tail(l_events) \in Seq(Event)
      BY <2>2, HeadTailProperties DEF TypeOK
    <3>2. Head(l_events).name \in Device
      BY <3>1 DEF Event
    <3> QED
      BY <1>10, <2>2, <3>1, <3>2 DEF NextEvent, TypeOK, ListenerPc
  <2> QED
    BY <2>1, <2>2
<1>11. CASE AddCallback \/ RemoveCallback
  <2>1. told' \in [Device -> Int]
    BY <1>11 DEF AddCallback, RemoveCallback, TypeOK
  <2> QED
    BY <1>11, <2>1 DEF AddCallback, RemoveCallback, TypeOK, ListenerPc
<1>12. CASE AddOverflow \/ RemoveUnknown \/ EpollDelFails
  BY <1>12 DEF AddOverflow, RemoveUnknown, EpollDelFails, TypeOK, ListenerPc
<1>13. CASE AddOpen
  <2>1. First(Slot \ Available) \in Slot
    BY <1>13, FirstSlot DEF AddOpen, Available
  <2>2. l_dev \in Device /\ LowestFd \in Fd
    BY <1>13, FreeFd DEF AddOpen, AtWork
  <2>3. files' \in [Fd -> File]
    BY <1>13, <2>2, FileFacts DEF AddOpen, TypeOK
  <2>4. g_his' \in [Slot -> [is_avaiable : BOOLEAN, device_name : Device \cup {NULL}, fd : Fd \cup {NULL}]]
    BY <1>13, <2>1, <2>2, SlotWritten DEF AddOpen, TypeOK
  <2> QED
    BY <1>13, <2>1, <2>3, <2>4 DEF AddOpen, TypeOK, ListenerPc
<1>14. CASE AddOpenFails
  <2>1. l_dev \in Device
    BY <1>14 DEF AddOpenFails, AtWork
  <2>2. g_his' \in [Slot -> [is_avaiable : BOOLEAN, device_name : Device \cup {NULL}, fd : Fd \cup {NULL}]]
    BY <1>14, <2>1, AddOpenFailsSlots
  <2> QED
    BY <1>14, <2>2 DEF AddOpenFails, TypeOK, ListenerPc
<1>15. CASE EpollAdd
  <2>1. l_slot \in Slot /\ g_his[l_slot].fd \in Fd
    BY <1>15 DEF EpollAdd, AtWork, SlotsOwnFiles, InHand
  <2>2. g_his' \in [Slot -> [is_avaiable : BOOLEAN, device_name : Device \cup {NULL}, fd : Fd \cup {NULL}]]
    BY <1>15, <2>1, SlotWritten DEF EpollAdd, TypeOK
  <2> QED
    BY <1>15, <2>1, <2>2 DEF EpollAdd, TypeOK, ListenerPc
<1>16. CASE EpollAddFails
  <2>1. files' \in [Fd -> File]
    BY <1>16, FileFacts DEF EpollAddFails, TypeOK
  <2> QED
    BY <1>16, <2>1 DEF EpollAddFails, TypeOK, ListenerPc
<1>17. CASE EpollDel
  <2>1. SlotsOf(l_dev) \in SUBSET Slot /\ SlotsOf(l_dev) # {}
    BY <1>17 DEF EpollDel, SlotsOf, Available
  <2>2. First(SlotsOf(l_dev)) \in Slot
    BY <2>1, FirstSlot
  <2> QED
    BY <1>17, <2>2 DEF EpollDel, TypeOK, ListenerPc
<1>18. CASE CloseDevice
  <2>1. l_slot \in Slot /\ g_his[l_slot].fd \in Fd
    BY <1>18 DEF CloseDevice, AtWork, SlotsOwnFiles, InHand, Available
  <2>2. g_his' \in [Slot -> [is_avaiable : BOOLEAN, device_name : Device \cup {NULL}, fd : Fd \cup {NULL}]]
    BY <1>18, <2>1, SlotWritten DEF CloseDevice, TypeOK
  <2>3. files' \in [Fd -> File]
    BY <1>18, FileFacts DEF CloseDevice, TypeOK
  <2> QED
    BY <1>18, <2>1, <2>2, <2>3 DEF CloseDevice, TypeOK, ListenerPc
<1>19. CASE EpollWait \/ BatchDone
  BY <1>19 DEF EpollWait, BatchDone, Ready, TypeOK
<1>20. ASSUME NEW fd \in Fd, ReadInput(fd) PROVE TypeOK'
  <2>1. files' \in [Fd -> File]
    BY <1>20, FileChanges DEF ReadInput, TypeOK
  <2>2. files[fd].device \in Device \cup {NULL}
    BY DEF TypeOK, File
  <2> QED
    BY <1>20, <2>1, <2>2 DEF ReadInput, TypeOK
<1> QED
  BY <1>1, <1>2, <1>3, <1>4, <1>5, <1>6, <1>7, <1>8, <1>9, <1>10, <1>11, <1>12, <1>13, <1>14,
     <1>15, <1>16, <1>17, <1>18, <1>19, <1>20
     DEF Next, Environment, Listen, ReadInputs

-----------------------------------------------------------------------------
(* The two threads keep to their path.                                     *)

LEMMA AtWorkStep == TypeOK /\ AtWork /\ [Next]_vars => AtWork'
<1> SUFFICES ASSUME TypeOK, AtWork, [Next]_vars PROVE AtWork'
  OBVIOUS
<1> USE DEF kernel, table, scan, work, listener, reader, app, marks, history
<1>1. ASSUME UNCHANGED <<l_pc, l_dev, l_slot, g_his>> PROVE AtWork'
  BY <1>1 DEF AtWork, Available
<1>2. CASE Environment \/ ReadInputs \/ UNCHANGED vars
  BY <1>1, <1>2 DEF Environment, ReadInputs, Plug, Unplug, InputEvent, EpollWait, ReadInput,
                    BatchDone, vars
<1>3. CASE \/ OpenDir \/ CloseDir \/ InotifyInit \/ InotifyInitFails \/ AddWatch \/ AddWatchFails
           \/ ReadEvents \/ AddCallback \/ RemoveCallback \/ EpollAddFails \/ RemoveUnknown
           \/ EpollDelFails \/ AddOverflow \/ AddOpenFails
  BY <1>3 DEF OpenDir, CloseDir, InotifyInit, InotifyInitFails, AddWatch, AddWatchFails,
              ReadEvents, AddCallback, RemoveCallback, EpollAddFails, RemoveUnknown,
              EpollDelFails, AddOverflow, AddOpenFails, AtWork, TypeOK
<1>4. ASSUME NEW d \in Device, ReadEntry(d) PROVE AtWork'
  BY <1>4 DEF ReadEntry, AtWork
<1>5. CASE NextEvent
  <2>1. CASE l_events = <<>>
    BY <1>5, <2>1 DEF NextEvent, AtWork
  <2>2. CASE l_events # <<>>
    <3>1. Head(l_events) \in Event
      BY <2>2, HeadTailProperties DEF TypeOK
    <3>2. Head(l_events).name \in Device
      BY <3>1 DEF Event
    <3> QED
      BY <1>5, <2>2, <3>2 DEF NextEvent, AtWork
  <2> QED
    BY <2>1, <2>2
<1>6. CASE AddOpen
  <2>1. First(Slot \ Available) \in Slot \ Available
    BY <1>6, FirstSlot DEF AddOpen, Available
  <2>2. l_slot' \in Slot \ Available' /\ g_his'[l_slot'].device_name = l_dev'
    BY <1>6, <2>1 DEF AddOpen, Available, TypeOK
  <2> QED
    BY <1>6, <2>2 DEF AddOpen, AtWork
<1>7. CASE EpollAdd
  BY <1>7 DEF EpollAdd, AtWork
<1>8. CASE EpollDel
  <2>1. First(SlotsOf(l_dev)) \in SlotsOf(l_dev)
    BY <1>8, FirstSlot DEF EpollDel, SlotsOf, Available
  <2> QED
    BY <1>8, <2>1 DEF EpollDel, AtWork, SlotsOf, Available
<1>9. CASE CloseDevice
  BY <1>9 DEF CloseDevice, AtWork
<1> QED
  BY <1>2, <1>3, <1>4, <1>5, <1>6, <1>7, <1>8, <1>9 DEF Next, Listen

LEMMA PhasesStep == TypeOK /\ Phases /\ [Next]_vars => Phases'
<1> SUFFICES ASSUME TypeOK, Phases, [Next]_vars PROVE Phases'
  OBVIOUS
<1> USE DEF kernel, table, scan, work, listener, reader, app, marks, history, Phases
<1>1. CASE ReadInputs \/ UNCHANGED vars
  BY <1>1 DEF ReadInputs, EpollWait, ReadInput, BatchDone, vars
<1>2. ASSUME NEW d \in Device, Plug(d) \/ Unplug(d) \/ InputEvent(d) PROVE Phases'
  <2>1. ~watching => queue' = queue
    BY <1>2 DEF Plug, Unplug, InputEvent, Notify
  <2>2. l_entries' \subseteq l_entries
    BY <1>2 DEF Plug, Unplug, InputEvent
  <2>3. UNCHANGED <<watching, l_pc, l_back, l_events>>
    BY <1>2 DEF Plug, Unplug, InputEvent
  <2>4. l_entries = {} => l_entries' = {}
    BY <2>2
  <2> QED
    BY <2>1, <2>3, <2>4
<1>3. CASE \/ OpenDir \/ CloseDir \/ InotifyInit \/ InotifyInitFails \/ AddWatch \/ AddWatchFails
           \/ ReadEvents \/ AddCallback \/ RemoveCallback
  BY <1>3 DEF OpenDir, CloseDir, InotifyInit, InotifyInitFails, AddWatch, AddWatchFails,
              ReadEvents, AddCallback, RemoveCallback, TypeOK
<1>4. CASE \/ AddOverflow \/ AddOpen \/ AddOpenFails \/ EpollAdd \/ EpollAddFails
  BY <1>4 DEF AddOverflow, AddOpen, AddOpenFails, EpollAdd, EpollAddFails, TypeOK
<1>5. CASE RemoveUnknown \/ EpollDel \/ EpollDelFails \/ CloseDevice
  BY <1>5 DEF RemoveUnknown, EpollDel, EpollDelFails, CloseDevice, TypeOK
<1>7. CASE NextEvent
  <2>1. /\ l_pc = "events" /\ UNCHANGED <<watching, queue, l_entries>>
        /\ \/ l_events = <<>> /\ l_pc' = "read" /\ l_events' = l_events
           \/ l_pc' \in {"add", "remove"} /\ l_back' = "events"
    BY <1>7 DEF NextEvent
  <2> QED
    BY <2>1
<1>6. ASSUME NEW d \in Device, ReadEntry(d) PROVE Phases'
  BY <1>6 DEF ReadEntry
<1> QED
  BY <1>1, <1>2, <1>3, <1>4, <1>5, <1>6, <1>7 DEF Next, Environment, Listen

-----------------------------------------------------------------------------
(* Slots, descriptors and epoll set.                                       *)

Busy == Available \cup InHand
IsOpen(fd) == files[fd].kind \in {"device", "gone"}

(* SlotsOwnFiles, element by element.                                      *)
Owns ==
  /\ \A s, t \in Busy : g_his[s].fd = g_his[t].fd => s = t
  /\ \A s \in Busy : /\ g_his[s].fd \in Fd /\ IsOpen(g_his[s].fd)
                     /\ files[g_his[s].fd].device = g_his[s].device_name
  /\ \A fd \in Fd : IsOpen(fd) => \E s \in Busy : g_his[s].fd = fd
  /\ \A s \in Available \ InHand : g_his[s].fd \in epoll
  /\ \A fd \in epoll : \E s \in Available \ InHand : g_his[s].fd = fd

LEMMA OwnsFromSlots == SlotsOwnFiles => Owns
<1> SUFFICES ASSUME SlotsOwnFiles PROVE Owns
  OBVIOUS
<1>1. \A s, t \in Busy : g_his[s].fd = g_his[t].fd => s = t
  BY DEF SlotsOwnFiles, Busy
<1>2. \A s \in Busy : files[g_his[s].fd].device = g_his[s].device_name
  BY DEF SlotsOwnFiles, Busy
<1>3. {g_his[s].fd : s \in Busy} = {fd \in Fd : IsOpen(fd)}
  BY DEF SlotsOwnFiles, Busy, IsOpen
<1>4. epoll = {g_his[s].fd : s \in Available \ InHand}
  BY DEF SlotsOwnFiles
<1>5. \A s \in Busy : g_his[s].fd \in Fd /\ IsOpen(g_his[s].fd)
  BY <1>3
<1>6. \A fd \in Fd : IsOpen(fd) => \E s \in Busy : g_his[s].fd = fd
  BY <1>3
<1>7. /\ \A s \in Available \ InHand : g_his[s].fd \in epoll
      /\ \A fd \in epoll : \E s \in Available \ InHand : g_his[s].fd = fd
  BY <1>4
<1> QED
  BY <1>1, <1>2, <1>5, <1>6, <1>7 DEF Owns

LEMMA SlotsFromOwns == Owns => SlotsOwnFiles
<1> SUFFICES ASSUME Owns PROVE SlotsOwnFiles
  OBVIOUS
<1>3. {g_his[s].fd : s \in Busy} = {fd \in Fd : IsOpen(fd)}
  BY DEF Owns
<1>4. epoll = {g_his[s].fd : s \in Available \ InHand}
  BY DEF Owns
<1> QED
  BY <1>3, <1>4 DEF Owns, SlotsOwnFiles, Busy, IsOpen

LEMMA SlotsFromOwnsNext == Owns' => SlotsOwnFiles'
BY SlotsFromOwns, PTL

(* A step that opens and closes nothing.                                   *)
LEMMA OwnsKept ==
  ASSUME Owns, Available' = Available, InHand' = InHand, epoll' = epoll,
         \A s \in Busy : /\ g_his'[s].fd = g_his[s].fd
                         /\ g_his'[s].device_name = g_his[s].device_name,
         \A fd \in Fd : /\ files'[fd].kind \in {"device", "gone"} <=> IsOpen(fd)
                        /\ IsOpen(fd) => files'[fd].device = files[fd].device
  PROVE  Owns'
<1>1. Busy' = Busy /\ Available' \ InHand' = Available \ InHand /\ Available \ InHand \subseteq Busy
  BY DEF Busy
<1>2. \A s, t \in Busy' : g_his'[s].fd = g_his'[t].fd => s = t
  BY <1>1 DEF Owns
<1>3. ASSUME NEW s \in Busy'
      PROVE  /\ g_his'[s].fd \in Fd /\ files'[g_his'[s].fd].kind \in {"device", "gone"}
             /\ files'[g_his'[s].fd].device = g_his'[s].device_name
  <2>1. s \in Busy /\ g_his'[s].fd = g_his[s].fd /\ g_his'[s].device_name = g_his[s].device_name
    BY <1>1, <1>3
  <2>2. PICK fd \in Fd : fd = g_his[s].fd /\ IsOpen(fd) /\ files[fd].device = g_his[s].device_name
    BY <2>1 DEF Owns
  <2>3. files'[fd].kind \in {"device", "gone"} /\ files'[fd].device = files[fd].device
    BY <2>2
  <2> QED
    BY <2>1, <2>2, <2>3
<1>4. ASSUME NEW fd \in Fd, files'[fd].kind \in {"device", "gone"}
      PROVE  \E s \in Busy' : g_his'[s].fd = fd
  BY <1>1, <1>4 DEF Owns
<1>5. /\ \A s \in Available' \ InHand' : g_his'[s].fd \in epoll'
      /\ \A fd \in epoll' : \E s \in Available' \ InHand' : g_his'[s].fd = fd
  BY <1>1 DEF Owns
<1> QED
  BY <1>2, <1>3, <1>4, <1>5 DEF Owns, IsOpen

LEMMA OwnsStep == TypeOK /\ AtWork /\ Owns /\ [Next]_vars => Owns'
<1> SUFFICES ASSUME TypeOK, AtWork, Owns, [Next]_vars PROVE Owns'
  OBVIOUS
<1> USE DEF kernel, table, scan, work, listener, reader, app, marks, history
<1>0. Busy \subseteq Slot /\ Available \subseteq Slot /\ \A s \in Busy : g_his[s].fd \in Fd
  BY DEF Busy, Available, InHand, AtWork, Owns
<1>1. ASSUME UNCHANGED <<table, g_his>>, InHand' = InHand PROVE Owns'
  <2>1. Available' = Available /\ \A fd \in Fd : files'[fd].kind \in {"device", "gone"} <=> IsOpen(fd)
    BY <1>1 DEF Available, IsOpen
  <2> QED
    BY <1>1, <2>1, OwnsKept
<1>2. CASE \/ OpenDir \/ CloseDir \/ InotifyInitFails \/ AddWatch \/ AddWatchFails
           \/ ReadEvents \/ NextEvent \/ AddCallback \/ RemoveCallback \/ RemoveUnknown
           \/ EpollDelFails \/ AddOverflow
  <2>1. UNCHANGED <<table, g_his>> /\ InHand' = InHand
    BY <1>2 DEF OpenDir, CloseDir, InotifyInitFails, AddWatch, AddWatchFails, ReadEvents,
                NextEvent, AddCallback, RemoveCallback, RemoveUnknown, EpollDelFails,
                AddOverflow, InHand, TypeOK
  <2> QED
    BY <1>1, <2>1
<1>3. ASSUME NEW d \in Device, ReadEntry(d) \/ Plug(d) PROVE Owns'
  <2>1. UNCHANGED <<table, g_his>> /\ InHand' = InHand
    BY <1>3 DEF ReadEntry, Plug, InHand
  <2> QED
    BY <1>1, <2>1
<1>4. CASE EpollWait \/ BatchDone \/ UNCHANGED vars
  <2>1. UNCHANGED <<table, g_his>> /\ InHand' = InHand
    BY <1>4 DEF EpollWait, BatchDone, vars, InHand
  <2> QED
    BY <1>1, <2>1
<1>5. ASSUME NEW d \in Device, Unplug(d) PROVE Owns'
  <2>1. UNCHANGED <<epoll, g_his>> /\ InHand' = InHand /\ Available' = Available
    BY <1>5 DEF Unplug, InHand, Available
  <2>2. ASSUME NEW fd \in Fd
        PROVE  (files'[fd].kind \in {"device", "gone"} <=> IsOpen(fd)) /\ files'[fd].device = files[fd].device
    <3>1. files[fd] \in File
      BY DEF TypeOK
    <3> QED
      BY <1>5, <3>1, FileChanges DEF Unplug, IsOpen
  <2> QED
    BY <2>1, <2>2, OwnsKept
<1>6. ASSUME NEW d \in Device, InputEvent(d) PROVE Owns'
  <2>1. UNCHANGED <<epoll, g_his>> /\ InHand' = InHand /\ Available' = Available
    BY <1>6 DEF InputEvent, InHand, Available
  <2>2. ASSUME NEW fd \in Fd
        PROVE  (files'[fd].kind \in {"device", "gone"} <=> IsOpen(fd)) /\ files'[fd].device = files[fd].device
    <3>1. files[fd] \in File
      BY DEF TypeOK
    <3>2. files'[fd] = files[fd] \/ files'[fd] = [files[fd] EXCEPT !.input = TRUE]
      BY <1>6 DEF InputEvent
    <3> QED
      BY <3>1, <3>2, FileChanges DEF IsOpen
  <2> QED
    BY <2>1, <2>2, OwnsKept
<1>7. ASSUME NEW fd \in Fd, ReadInput(fd) PROVE Owns'
  <2>1. UNCHANGED <<epoll, g_his>> /\ InHand' = InHand /\ Available' = Available
    BY <1>7 DEF ReadInput, InHand, Available
  <2>2. ASSUME NEW g \in Fd
        PROVE  (files'[g].kind \in {"device", "gone"} <=> IsOpen(g)) /\ files'[g].device = files[g].device
    <3>1. files[g] \in File
      BY DEF TypeOK
    <3>2. files'[g] = files[g] \/ files'[g] = [files[g] EXCEPT !.input = FALSE]
      BY <1>7 DEF ReadInput, TypeOK
    <3> QED
      BY <3>1, <3>2, FileChanges DEF IsOpen
  <2> QED
    BY <2>1, <2>2, OwnsKept
<1>8. CASE InotifyInit
  <2>1. UNCHANGED <<epoll, g_his>> /\ InHand' = InHand /\ Available' = Available
    BY <1>8 DEF InotifyInit, InHand, Available
  <2>2. ASSUME NEW g \in Fd
        PROVE  (files'[g].kind \in {"device", "gone"} <=> IsOpen(g)) /\ (IsOpen(g) => files'[g].device = files[g].device)
    BY <1>8, FreeFd, FileFacts DEF InotifyInit, IsOpen, TypeOK
  <2> QED
    BY <2>1, <2>2, OwnsKept
<1>9. CASE AddOpenFails
  <2>1. l_dev \in Device
    BY <1>9 DEF AddOpenFails, AtWork
  <2>2. UNCHANGED <<epoll, files>> /\ InHand' = {} /\ InHand = {}
    BY <1>9 DEF AddOpenFails, InHand, TypeOK
  <2>3. Available' = Available
    BY <1>9, <2>1, AddOpenFailsSlots
  <2>4. \A s \in Busy : g_his'[s] = g_his[s]
    BY <1>9, <2>1, <2>2, AddOpenFailsSlots DEF Busy
  <2>5. \A g \in Fd : (files'[g].kind \in {"device", "gone"} <=> IsOpen(g)) /\ files'[g].device = files[g].device
    BY <2>2 DEF IsOpen
  <2> QED
    BY <2>2, <2>3, <2>4, <2>5, OwnsKept
<1>10. CASE AddOpen
  <2> DEFINE s == First(Slot \ Available)
  <2>1. s \in Slot \ Available
    BY <1>10, FirstSlot DEF AddOpen, Available
  <2>2. InHand = {} /\ InHand' = {s} /\ epoll' = epoll
    BY <1>10 DEF AddOpen, InHand
  <2>3. Available' = Available /\ Busy = Available /\ Busy' = Available \cup {s}
    BY <1>10, <2>1, <2>2 DEF AddOpen, Available, Busy, TypeOK
  <2>4. /\ \A t \in Available : g_his'[t] = g_his[t]
        /\ g_his'[s].fd = LowestFd /\ g_his'[s].device_name = l_dev
    BY <1>10, <2>1, <1>0 DEF AddOpen, TypeOK
  <2>5. /\ LowestFd \in Fd /\ ~IsOpen(LowestFd) /\ l_dev \in Device
        /\ files' = [files EXCEPT ![LowestFd] = Opened(l_dev)]
    BY <1>10, FreeFd DEF AddOpen, IsOpen, AtWork
  <2>6. /\ files'[LowestFd].kind = "device" /\ files'[LowestFd].device = l_dev
        /\ \A g \in Fd : g # LowestFd => files'[g] = files[g]
    BY <2>5, FileFacts DEF TypeOK
  <2>7. \A t \in Available : g_his[t].fd \in Fd /\ g_his[t].fd # LowestFd
    BY <2>3, <2>5 DEF Owns
  <2>8. Available' \ InHand' = Available /\ Available \ InHand = Available
    BY <2>1, <2>2, <2>3
  <2> HIDE DEF s
  <2> QED
    BY <2>2, <2>3, <2>4, <2>5, <2>6, <2>7, <2>8 DEF Owns, IsOpen
<1>11. CASE EpollAdd
  <2>1. InHand = {l_slot} /\ InHand' = {} /\ l_slot \in Slot \ Available /\ files' = files
    BY <1>11 DEF EpollAdd, InHand, AtWork
  <2>2. /\ Available' = Available \cup {l_slot} /\ Busy' = Busy
        /\ \A s \in Slot : g_his'[s].fd = g_his[s].fd /\ g_his'[s].device_name = g_his[s].device_name
    BY <1>11, <2>1 DEF EpollAdd, Available, Busy, TypeOK
  <2>3. epoll' = epoll \cup {g_his[l_slot].fd}
    BY <1>11 DEF EpollAdd
  <2>4. Available' \ InHand' = Available \cup {l_slot} /\ Available \ InHand = Available
    BY <2>1, <2>2
  <2> QED
    BY <1>0, <2>1, <2>2, <2>3, <2>4 DEF Owns, IsOpen
<1>12. CASE EpollAddFails
  <2>1. InHand = {l_slot} /\ InHand' = {} /\ l_slot \in Slot \ Available /\ UNCHANGED <<epoll, g_his>>
    BY <1>12 DEF EpollAddFails, InHand, AtWork, TypeOK
  <2>2. Available' = Available /\ Busy' = Available /\ Busy = Available \cup {l_slot}
    BY <2>1 DEF Available, Busy
  <2>3. g_his[l_slot].fd \in Fd /\ files' = [files EXCEPT ![g_his[l_slot].fd] = Closed]
    BY <1>0, <1>12, <2>2 DEF EpollAddFails
  <2>4. /\ files'[g_his[l_slot].fd].kind \notin {"device", "gone"}
        /\ \A g \in Fd : g # g_his[l_slot].fd => files'[g] = files[g]
    BY <2>3, FileFacts DEF TypeOK
  <2>5. \A s \in Available : g_his[s].fd # g_his[l_slot].fd
    BY <2>1, <2>2 DEF Owns
  <2>6. Available' \ InHand' = Available /\ Available \ InHand = Available
    BY <2>1, <2>2
  <2> QED
    BY <1>0, <2>1, <2>2, <2>3, <2>4, <2>5, <2>6 DEF Owns, IsOpen
<1>13. CASE EpollDel
  <2> DEFINE s == First(SlotsOf(l_dev))
  <2>1. s \in Available
    BY <1>13, FirstSlot DEF EpollDel, SlotsOf, Available
  <2>2. InHand = {} /\ InHand' = {s} /\ UNCHANGED <<files, g_his>> /\ epoll' = epoll \ {g_his[s].fd}
    BY <1>13 DEF EpollDel, InHand
  <2>3. Available' = Available /\ Busy' = Available /\ Busy = Available
    BY <2>1, <2>2 DEF Available, Busy
  <2>4. Available' \ InHand' = Available \ {s} /\ Available \ InHand = Available
    BY <2>2, <2>3
  <2> HIDE DEF s
  <2> QED
    BY <2>1, <2>2, <2>3, <2>4 DEF Owns, IsOpen
<1>14. CASE CloseDevice
  <2>1. InHand = {l_slot} /\ InHand' = {} /\ l_slot \in Available /\ epoll' = epoll
    BY <1>14 DEF CloseDevice, InHand, AtWork
  <2>2. /\ Available' = Available \ {l_slot} /\ Busy' = Available \ {l_slot} /\ Busy = Available
        /\ \A s \in Slot : g_his'[s].fd = g_his[s].fd /\ g_his'[s].device_name = g_his[s].device_name
    BY <1>14, <2>1 DEF CloseDevice, Available, Busy, TypeOK
  <2>3. g_his[l_slot].fd \in Fd /\ files' = [files EXCEPT ![g_his[l_slot].fd] = Closed]
    BY <1>0, <1>14, <2>1, <2>2 DEF CloseDevice
  <2>4. /\ files'[g_his[l_slot].fd].kind \notin {"device", "gone"}
        /\ \A g \in Fd : g # g_his[l_slot].fd => files'[g] = files[g]
    BY <2>3, FileFacts DEF TypeOK
  <2>5. \A s \in Available \ {l_slot} : g_his[s].fd # g_his[l_slot].fd
    BY <2>1, <2>2 DEF Owns
  <2>6. Available' \ InHand' = Available \ {l_slot} /\ Available \ InHand = Available \ {l_slot}
    BY <2>1, <2>2
  <2> QED
    BY <1>0, <2>1, <2>2, <2>3, <2>4, <2>5, <2>6 DEF Owns, IsOpen
<1> QED
  BY <1>2, <1>3, <1>4, <1>5, <1>6, <1>7, <1>8, <1>9, <1>10, <1>11, <1>12, <1>13, <1>14
     DEF Next, Environment, Listen, ReadInputs

-----------------------------------------------------------------------------
(* The input listener.                                                     *)

LEMMA BatchKept ==
  ASSUME TypeOK, BatchReady, BlocksOnlyOnReuse,
         UNCHANGED <<i_pc, i_fd, i_batch, reused>>,
         \A s \in Available : s \in Available' /\ g_his'[s].fd = g_his[s].fd,
         \A fd \in i_batch \ reused :
           files[fd].kind = "gone" \/ files[fd].input =>
             files'[fd].kind = "gone" \/ files'[fd].input
  PROVE  BatchReady' /\ BlocksOnlyOnReuse'
<1>1. ASSUME NEW fd \in i_batch \ reused
      PROVE  /\ \E s \in Available' : g_his'[s].fd = fd
             /\ files'[fd].kind = "gone" \/ files'[fd].input
  <2>1. PICK s \in Available : g_his[s].fd = fd
    BY DEF BatchReady
  <2>2. files[fd].kind = "gone" \/ files[fd].input
    BY DEF BatchReady
  <2> QED
    BY <2>1, <2>2
<1> QED
  BY <1>1 DEF BatchReady, BlocksOnlyOnReuse

LEMMA BatchStep ==
  TypeOK /\ AtWork /\ Owns /\ BatchReady /\ BlocksOnlyOnReuse /\ [Next]_vars =>
    BatchReady' /\ BlocksOnlyOnReuse'
<1> SUFFICES ASSUME TypeOK, AtWork, Owns, BatchReady, BlocksOnlyOnReuse, [Next]_vars
             PROVE  BatchReady' /\ BlocksOnlyOnReuse'
  OBVIOUS
<1> USE DEF kernel, table, scan, work, listener, reader, app, marks, history
<1>0. /\ i_batch \subseteq Fd /\ Available \subseteq Slot
      /\ \A fd \in i_batch \ reused : IsOpen(fd)
  <2>1. \A fd \in i_batch \ reused : \E s \in Busy : g_his[s].fd = fd
    BY DEF BatchReady, Busy
  <2> QED
    BY <2>1 DEF Owns, TypeOK, Available
<1>1. ASSUME UNCHANGED <<i_pc, i_fd, i_batch, reused, files, g_his>>
      PROVE  BatchReady' /\ BlocksOnlyOnReuse'
  BY <1>1, BatchKept DEF Available
<1>2. CASE \/ OpenDir \/ CloseDir \/ InotifyInitFails \/ AddWatch \/ AddWatchFails
           \/ ReadEvents \/ NextEvent \/ AddCallback \/ RemoveCallback \/ RemoveUnknown
           \/ EpollDelFails \/ AddOverflow \/ EpollDel \/ UNCHANGED vars
  <2>1. UNCHANGED <<i_pc, i_fd, i_batch, reused, files, g_his>>
    BY <1>2 DEF OpenDir, CloseDir, InotifyInitFails, AddWatch, AddWatchFails, ReadEvents,
                NextEvent, AddCallback, RemoveCallback, RemoveUnknown, EpollDelFails,
                AddOverflow, EpollDel, vars
  <2> QED
    BY <1>1, <2>1
<1>3. ASSUME NEW d \in Device, ReadEntry(d) \/ Plug(d) PROVE BatchReady' /\ BlocksOnlyOnReuse'
  <2>1. UNCHANGED <<i_pc, i_fd, i_batch, reused, files, g_his>>
    BY <1>3 DEF ReadEntry, Plug
  <2> QED
    BY <1>1, <2>1
<1>4. ASSUME NEW d \in Device, Unplug(d) \/ InputEvent(d) PROVE BatchReady' /\ BlocksOnlyOnReuse'
  <2>1. /\ UNCHANGED <<i_batch, reused, g_his>>
        /\ i_pc' = "next" \/ UNCHANGED <<i_pc, i_fd>>
    BY <1>4 DEF Unplug, InputEvent
  <2>2. ASSUME NEW fd \in Fd, files[fd].kind = "gone" \/ files[fd].input
        PROVE  files'[fd].kind = "gone" \/ files'[fd].input
    <3>1. files[fd] \in File
      BY DEF TypeOK
    <3>2. \/ files'[fd] = files[fd]
          \/ files'[fd] = [files[fd] EXCEPT !.input = TRUE]
          \/ files'[fd] = [files[fd] EXCEPT !.kind = "gone", !.input = FALSE]
      BY <1>4 DEF Unplug, InputEvent
    <3>3. CASE files'[fd] = [files[fd] EXCEPT !.input = TRUE]
      BY <3>1, <3>3, FileChanges
    <3>4. CASE files'[fd] = [files[fd] EXCEPT !.kind = "gone", !.input = FALSE]
      BY <3>1, <3>4, FileChanges
    <3> QED
      BY <2>2, <3>2, <3>3, <3>4
  <2>3. BatchReady'
    <3>1. Available' = Available
      BY <2>1 DEF Available
    <3> QED
      BY <1>0, <2>1, <2>2, <3>1 DEF BatchReady
  <2>4. BlocksOnlyOnReuse'
    BY <2>1 DEF BlocksOnlyOnReuse
  <2> QED
    BY <2>3, <2>4
<1>5. CASE InotifyInit
  <2>1. UNCHANGED <<i_pc, i_fd, i_batch, reused, g_his>> /\ Available' = Available
    BY <1>5 DEF InotifyInit, Available
  <2>2. \A fd \in i_batch \ reused : files'[fd] = files[fd]
    BY <1>0, <1>5, FreeFd DEF InotifyInit, IsOpen, TypeOK
  <2> QED
    BY <2>1, <2>2, BatchKept
<1>6. CASE AddOpen
  <2>1. First(Slot \ Available) \in Slot \ Available
    BY <1>6, FirstSlot DEF AddOpen, Available
  <2>2. /\ UNCHANGED <<i_pc, i_fd, i_batch, reused>> /\ Available' = Available
        /\ \A s \in Available : g_his'[s].fd = g_his[s].fd
    BY <1>6, <2>1 DEF AddOpen, Available, TypeOK
  <2>3. \A fd \in i_batch \ reused : files'[fd] = files[fd]
    BY <1>0, <1>6, FreeFd DEF AddOpen, IsOpen, TypeOK
  <2> QED
    BY <2>2, <2>3, BatchKept
<1>7. CASE AddOpenFails
  <2>1. UNCHANGED <<i_pc, i_fd, i_batch, reused, files>> /\ l_dev \in Device
    BY <1>7 DEF AddOpenFails, AtWork
  <2>2. Available' = Available /\ \A s \in Available : g_his'[s].fd = g_his[s].fd
    BY <1>7, <2>1, AddOpenFailsSlots
  <2> QED
    BY <2>1, <2>2, BatchKept
<1>8. CASE EpollAdd
  <2>1. l_slot \in Slot
    BY <1>8 DEF EpollAdd, AtWork
  <2>2. /\ UNCHANGED <<i_pc, i_fd, i_batch, reused, files>>
        /\ \A s \in Available : s \in Available' /\ g_his'[s].fd = g_his[s].fd
    BY <1>8, <2>1 DEF EpollAdd, Available, TypeOK
  <2> QED
    BY <2>2, BatchKept
<1>9. CASE EpollAddFails
  <2>1. UNCHANGED <<i_pc, i_fd, i_batch, reused, g_his>> /\ Available' = Available
    BY <1>9 DEF EpollAddFails, Available
  <2>2. l_slot \in Busy \ Available
    BY <1>9 DEF EpollAddFails, AtWork, Busy, InHand
  <2>3. \A fd \in i_batch \ reused : fd # g_his[l_slot].fd
    <3> SUFFICES ASSUME NEW fd \in i_batch \ reused, fd = g_his[l_slot].fd PROVE FALSE
      OBVIOUS
    <3>1. PICK s \in Available : g_his[s].fd = fd
      BY DEF BatchReady
    <3>2. s = l_slot
      BY <2>2, <3>1 DEF Owns, Busy
    <3> QED
      BY <2>2, <3>1, <3>2
  <2>4. \A fd \in i_batch \ reused : files'[fd] = files[fd]
    BY <1>0, <1>9, <2>3 DEF EpollAddFails, TypeOK
  <2> QED
    BY <2>1, <2>4, BatchKept
<1>10. CASE CloseDevice
  <2>1. /\ UNCHANGED <<i_pc, i_batch>> /\ reused' = reused \cup {g_his[l_slot].fd}
        /\ i_fd' = NULL \/ i_fd' = i_fd
        /\ files' = [files EXCEPT ![g_his[l_slot].fd] = Closed]
    BY <1>10 DEF CloseDevice
  <2>2. BlocksOnlyOnReuse'
    BY <2>1 DEF BlocksOnlyOnReuse
  <2>3. ASSUME NEW fd \in i_batch' \ reused'
        PROVE  /\ \E s \in Available' : g_his'[s].fd = fd
               /\ files'[fd].kind = "gone" \/ files'[fd].input
    <3>1. fd \in i_batch \ reused /\ fd # g_his[l_slot].fd /\ fd \in Fd
      BY <1>0, <2>1
    <3>2. PICK s \in Available : g_his[s].fd = fd
      BY <3>1 DEF BatchReady
    <3>3. s # l_slot /\ s \in Slot
      BY <1>0, <3>1, <3>2
    <3>4. s \in Available' /\ g_his'[s].fd = fd
      BY <1>10, <3>2, <3>3 DEF CloseDevice, Available, TypeOK
    <3>5. files'[fd] = files[fd]
      BY <2>1, <3>1 DEF TypeOK
    <3> QED
      BY <3>1, <3>4, <3>5 DEF BatchReady
  <2> QED
    BY <2>2, <2>3 DEF BatchReady
<1>11. CASE EpollWait
  <2>1. /\ i_pc' = "next" /\ i_batch' = Ready /\ reused' = {} /\ UNCHANGED <<files, g_his>>
        /\ Available' = Available
    BY <1>11 DEF EpollWait, Available
  <2>2. \A fd \in Ready : /\ \E s \in Available : g_his[s].fd = fd
                          /\ files[fd].kind = "gone" \/ files[fd].input
    BY DEF Ready, Owns
  <2> QED
    BY <2>1, <2>2 DEF BatchReady, BlocksOnlyOnReuse
<1>12. ASSUME NEW fd \in Fd, ReadInput(fd) PROVE BatchReady' /\ BlocksOnlyOnReuse'
  <2>1. /\ i_batch' = i_batch \ {fd} /\ UNCHANGED <<reused, g_his>> /\ Available' = Available
        /\ fd \in i_batch /\ i_pc = "next"
        /\ \A g \in Fd : g # fd => files'[g] = files[g]
    BY <1>12 DEF ReadInput, Available, TypeOK
  <2>2. BatchReady'
    BY <1>0, <2>1 DEF BatchReady
  <2>3. i_pc' = "blocked" => i_fd' = fd /\ files[fd].kind = "device" /\ ~files[fd].input
    BY <1>12, <2>1 DEF ReadInput
  <2>4. fd \notin reused => files[fd].kind = "gone" \/ files[fd].input
    BY <2>1 DEF BatchReady
  <2>5. BlocksOnlyOnReuse'
    BY <2>1, <2>3, <2>4 DEF BlocksOnlyOnReuse
  <2> QED
    BY <2>2, <2>5
<1>13. CASE BatchDone
  BY <1>13 DEF BatchDone, BatchReady, BlocksOnlyOnReuse, Available
<1> QED
  BY <1>2, <1>3, <1>4, <1>5, <1>6, <1>7, <1>8, <1>9, <1>10, <1>11, <1>12, <1>13
     DEF Next, Environment, Listen, ReadInputs

-----------------------------------------------------------------------------
(* What the application has been told.                                     *)

LEMMA SlotsFinite ==
  \A d : /\ IsFiniteSet(SlotsOf(d)) /\ Cardinality(SlotsOf(d)) \in Nat
         /\ SlotsOf(d) \subseteq Slot
<1> TAKE d
<1>1. IsFiniteSet(Slot)
  BY SizeAssumption, FS_Interval DEF Slot
<1>2. SlotsOf(d) \in SUBSET Slot
  BY DEF SlotsOf, Available
<1>3. IsFiniteSet(SlotsOf(d))
  BY <1>1, <1>2, FS_Subset
<1> QED
  BY <1>2, <1>3, FS_CardinalityType

(* How far the count of the application is off while it is being told.     *)
Due(d) == IF l_dev # d THEN 0
          ELSE IF l_pc = "add_callback" THEN -1
          ELSE IF l_pc = "remove_callback" THEN 1 ELSE 0

LEMMA AppKept ==
  ASSUME TypeOK, AppInformed, undefined' = undefined,
         \A d \in Device :
           told'[d] - Due(d)' - Cardinality(SlotsOf(d)') = told[d] - Due(d) - Cardinality(SlotsOf(d)),
         told' \in [Device -> Int], \A d \in Device : Cardinality(SlotsOf(d)') \in Nat
  PROVE  AppInformed'
<1>1. \A d \in Device : Due(d) \in Int /\ Due(d)' \in Int /\ told[d] \in Int /\ told'[d] \in Int
  BY DEF Due, TypeOK
<1>2. ~undefined => \A d \in Device : told[d] = Cardinality(SlotsOf(d)) + Due(d)
  BY DEF AppInformed, Due
<1>3. ~undefined' => \A d \in Device : told'[d] = Cardinality(SlotsOf(d)') + Due(d)'
  BY <1>1, <1>2, SlotsFinite
<1> QED
  BY <1>3 DEF AppInformed, Due

(* The slots in use and their names stay.                                  *)
LEMMA SlotsOfKept ==
  ASSUME Available' = Available,
         \A s \in Available : g_his'[s].device_name = g_his[s].device_name
  PROVE  \A d : SlotsOf(d)' = SlotsOf(d)
BY DEF SlotsOf

(* What opening, registering and closing do to the slots.                  *)
LEMMA SlotsOfOpen ==
  ASSUME TypeOK, AddOpen \/ AddOpenFails
  PROVE  /\ Available' = Available /\ \A s \in Available : g_his'[s] = g_his[s]
         /\ \A d : SlotsOf(d)' = SlotsOf(d)
<1>1. First(Slot \ Available) \in Slot \ Available
  BY FirstSlot DEF AddOpen, AddOpenFails, Available
<1>2. Available' = Available /\ \A s \in Available : g_his'[s] = g_his[s]
  <2>1. CASE AddOpen
    BY <1>1, <2>1 DEF AddOpen, Available, TypeOK
  <2>2. CASE AddOpenFails
    <3> DEFINE s == First(Slot \ Available)
    <3>1. g_his' = g_his \/ g_his' = [g_his EXCEPT ![s].device_name = l_dev, ![s].fd = NULL]
      BY <2>2 DEF AddOpenFails
    <3>2. s \in Slot \ Available
      BY <1>1
    <3> HIDE DEF s
    <3>3. /\ \A t \in Slot \ {s} : g_his'[t] = g_his[t]
          /\ g_his'[s].is_avaiable = g_his[s].is_avaiable
      BY <3>1, <3>2 DEF TypeOK
    <3> QED
      BY <3>2, <3>3 DEF Available
  <2> QED
    BY <2>1, <2>2
<1>3. ASSUME NEW d PROVE SlotsOf(d)' = SlotsOf(d)
  BY <1>2 DEF SlotsOf
<1> QED
  BY <1>2, <1>3

LEMMA SlotsOfRegistered ==
  ASSUME TypeOK, AtWork, EpollAdd
  PROVE  /\ \A d : d # l_dev => SlotsOf(d)' = SlotsOf(d)
         /\ l_slot \notin SlotsOf(l_dev) /\ SlotsOf(l_dev)' = SlotsOf(l_dev) \cup {l_slot}
         /\ l_dev' = l_dev /\ l_dev \in Device
<1>1. /\ l_slot \in Slot \ Available /\ g_his[l_slot].device_name = l_dev
      /\ l_dev' = l_dev /\ l_dev \in Device
  BY DEF EpollAdd, AtWork, work
<1>2. /\ \A s \in Slot : g_his'[s].device_name = g_his[s].device_name
      /\ Available' = Available \cup {l_slot}
  BY <1>1 DEF EpollAdd, Available, TypeOK
<1>3. ASSUME NEW d, d # l_dev PROVE SlotsOf(d)' = SlotsOf(d)
  BY <1>1, <1>2, <1>3 DEF SlotsOf, Available
<1>4. SlotsOf(l_dev)' = SlotsOf(l_dev) \cup {l_slot}
  BY <1>1, <1>2 DEF SlotsOf, Available
<1>5. l_slot \notin SlotsOf(l_dev)
  BY <1>1 DEF SlotsOf
<1> QED
  BY <1>1, <1>3, <1>4, <1>5

LEMMA SlotsOfClosed ==
  ASSUME TypeOK, AtWork, CloseDevice
  PROVE  /\ \A d : d # l_dev => SlotsOf(d)' = SlotsOf(d)
         /\ l_slot \in SlotsOf(l_dev) /\ SlotsOf(l_dev)' = SlotsOf(l_dev) \ {l_slot}
         /\ l_dev' = l_dev /\ l_dev \in Device
<1>1. /\ l_slot \in Available /\ g_his[l_slot].device_name = l_dev
      /\ l_dev' = l_dev /\ l_dev \in Device
  BY DEF CloseDevice, AtWork, work
<1>2. /\ \A s \in Slot : g_his'[s].device_name = g_his[s].device_name
      /\ Available' = Available \ {l_slot}
  BY <1>1 DEF CloseDevice, Available, TypeOK
<1>3. ASSUME NEW d, d # l_dev PROVE SlotsOf(d)' = SlotsOf(d)
  BY <1>1, <1>2, <1>3 DEF SlotsOf, Available
<1>4. SlotsOf(l_dev)' = SlotsOf(l_dev) \ {l_slot}
  BY <1>1, <1>2 DEF SlotsOf, Available
<1>5. l_slot \in SlotsOf(l_dev)
  BY <1>1 DEF SlotsOf
<1> QED
  BY <1>1, <1>3, <1>4, <1>5

LEMMA AppStep == TypeOK /\ AtWork /\ AppInformed /\ [Next]_vars => AppInformed'
<1> SUFFICES ASSUME TypeOK, AtWork, AppInformed, [Next]_vars PROVE AppInformed'
  OBVIOUS
<1> USE DEF kernel, table, scan, work, listener, reader, app, marks, history
<1>0. /\ told \in [Device -> Int]
      /\ \A d \in Device : Cardinality(SlotsOf(d)) \in Nat /\ Due(d) \in Int /\ Due(d)' \in Int
  BY SlotsFinite DEF TypeOK, Due
<1>1. ASSUME UNCHANGED <<told, undefined>>, \A d : SlotsOf(d)' = SlotsOf(d),
             \A d \in Device : Due(d)' = Due(d)
      PROVE  AppInformed'
  BY <1>0, <1>1, AppKept
<1>2. ASSUME UNCHANGED <<told, undefined, g_his>>, \A d \in Device : Due(d)' = Due(d)
      PROVE  AppInformed'
  BY <1>1, <1>2, SlotsOfKept DEF Available
<1>3. CASE \/ OpenDir \/ CloseDir \/ InotifyInit \/ InotifyInitFails \/ AddWatch \/ AddWatchFails
           \/ ReadEvents \/ NextEvent \/ EpollAddFails \/ EpollDel \/ EpollDelFails
  <2>1. UNCHANGED <<told, undefined, g_his>> /\ \A d \in Device : Due(d)' = 0 /\ Due(d) = 0
    BY <1>3 DEF OpenDir, CloseDir, InotifyInit, InotifyInitFails, AddWatch, AddWatchFails,
                ReadEvents, NextEvent, EpollAddFails, EpollDel, EpollDelFails, Due, TypeOK
  <2> QED
    BY <1>2, <2>1
<1>4. ASSUME NEW d \in Device, ReadEntry(d) PROVE AppInformed'
  <2>1. UNCHANGED <<told, undefined, g_his>> /\ \A e \in Device : Due(e)' = 0 /\ Due(e) = 0
    BY <1>4 DEF ReadEntry, Due
  <2> QED
    BY <1>2, <2>1
<1>5. ASSUME NEW d \in Device, Plug(d) \/ Unplug(d) \/ InputEvent(d) PROVE AppInformed'
  <2>1. UNCHANGED <<told, undefined, g_his, l_pc, l_dev>>
    BY <1>5 DEF Plug, Unplug, InputEvent
  <2> QED
    BY <1>2, <2>1 DEF Due
<1>6. CASE EpollWait \/ BatchDone \/ UNCHANGED vars
  <2>1. UNCHANGED <<told, undefined, g_his, l_pc, l_dev>>
    BY <1>6 DEF EpollWait, BatchDone, vars
  <2> QED
    BY <1>2, <2>1 DEF Due
<1>7. ASSUME NEW fd \in Fd, ReadInput(fd) PROVE AppInformed'
  <2>1. UNCHANGED <<told, undefined, g_his, l_pc, l_dev>>
    BY <1>7 DEF ReadInput
  <2> QED
    BY <1>2, <2>1 DEF Due
<1>8. CASE AddOverflow \/ RemoveUnknown
  BY <1>8 DEF AddOverflow, RemoveUnknown, AppInformed
<1>9. CASE AddOpen \/ AddOpenFails
  <2>1. UNCHANGED <<told, undefined>> /\ \A d \in Device : Due(d)' = 0 /\ Due(d) = 0
    BY <1>9 DEF AddOpen, AddOpenFails, Due, TypeOK
  <2> QED
    BY <1>1, <1>9, <2>1, SlotsOfOpen
<1>10. CASE AddCallback \/ RemoveCallback
  <2>1. undefined' = undefined /\ g_his' = g_his /\ l_dev \in Device /\ l_dev' = l_dev
    BY <1>10 DEF AddCallback, RemoveCallback, AtWork
  <2>2. \A d : SlotsOf(d)' = SlotsOf(d)
    BY <2>1, SlotsOfKept DEF Available
  <2>3. told' \in [Device -> Int]
    BY <1>0, <1>10 DEF AddCallback, RemoveCallback
  <2>4. \A d \in Device : told'[d] - Due(d)' = told[d] - Due(d)
    <3> TAKE d \in Device
    <3>1. CASE d # l_dev
      BY <1>0, <1>10, <2>1, <3>1 DEF AddCallback, RemoveCallback, Due
    <3>2. CASE d = l_dev /\ AddCallback
      <4>1. Due(d) = -1 /\ Due(d)' = 0 /\ told'[d] = told[d] + 1
        BY <1>0, <2>1, <3>2 DEF AddCallback, Due, TypeOK
      <4> QED
        BY <1>0, <4>1
    <3>3. CASE d = l_dev /\ RemoveCallback
      <4>1. Due(d) = 1 /\ Due(d)' = 0 /\ told'[d] = told[d] - 1
        BY <1>0, <2>1, <3>3 DEF RemoveCallback, Due
      <4> QED
        BY <1>0, <4>1
    <3> QED
      BY <1>10, <3>1, <3>2, <3>3
  <2> QED
    BY <1>0, <2>1, <2>2, <2>3, <2>4, AppKept
<1>11. CASE EpollAdd
  <2>1. UNCHANGED <<told, undefined>> /\ l_dev' = l_dev
    BY <1>11 DEF EpollAdd
  <2>2. \A d \in Device : Due(d) = 0 /\ Due(d)' = IF d = l_dev THEN -1 ELSE 0
    BY <1>11 DEF EpollAdd, Due
  <2>3. \A d \in Device : Cardinality(SlotsOf(d)') =
          IF d = l_dev THEN Cardinality(SlotsOf(d)) + 1 ELSE Cardinality(SlotsOf(d))
    BY <1>11, SlotsOfRegistered, SlotsFinite, FS_AddElement
  <2>4. \A d \in Device : told[d] \in Int
    BY <1>0
  <2> QED
    BY <1>0, <2>1, <2>2, <2>3, <2>4, AppKept
<1>12. CASE CloseDevice
  <2>1. UNCHANGED <<told, undefined>> /\ l_dev' = l_dev
    BY <1>12 DEF CloseDevice
  <2>2. \A d \in Device : Due(d) = 0 /\ Due(d)' = IF d = l_dev THEN 1 ELSE 0
    BY <1>12 DEF CloseDevice, Due
  <2>3. \A d \in Device : /\ Cardinality(SlotsOf(d)') =
                            IF d = l_dev THEN Cardinality(SlotsOf(d)) - 1 ELSE Cardinality(SlotsOf(d))
                          /\ Cardinality(SlotsOf(d)') \in Nat
    <3> TAKE d \in Device
    <3>1. CASE d # l_dev
      BY <1>12, <3>1, SlotsOfClosed, SlotsFinite
    <3>2. CASE d = l_dev
      BY <1>12, <3>2, SlotsOfClosed, SlotsFinite, FS_RemoveElement, FS_CardinalityType
    <3> QED
      BY <3>1, <3>2
  <2>4. \A d \in Device : told[d] \in Int
    BY <1>0
  <2> QED
    BY <1>0, <2>1, <2>2, <2>3, <2>4, AppKept
<1> QED
  BY <1>3, <1>4, <1>5, <1>6, <1>7, <1>8, <1>9, <1>10, <1>11, <1>12
     DEF Next, Environment, Listen, ReadInputs

-----------------------------------------------------------------------------
(* Events of a device among others.                                        *)

LEMMA OwnEvents ==
  ASSUME NEW P \in Seq(Event), NEW d
  PROVE  /\ Len(P) \in Nat /\ DOMAIN P = 1..Len(P)
         /\ Own(P, d) = {k \in 1..Len(P) : P[k].name = d} /\ Own(P, d) \subseteq Nat
         /\ \A k \in 1..Len(P) : P[k] \in Event /\ P[k].mask \in {"create", "delete"}
<1>1. Len(P) \in Nat /\ DOMAIN P = 1..Len(P)
  BY LenProperties
<1>2. \A k \in 1..Len(P) : P[k] \in Event /\ P[k].mask \in {"create", "delete"}
  <2> TAKE k \in 1..Len(P)
  <2>1. P[k] \in Event
    BY ElementOfSeq
  <2> QED
    BY <2>1 DEF Event
<1> QED
  BY <1>1, <1>2 DEF Own

(* Q tells the same of d as P, or leaves out what opens it.                *)
Same(P, Q, d) ==
  /\ Own(Q, d) = {} <=> Own(P, d) = {}
  /\ Alternate(P, d) => Alternate(Q, d)
  /\ \A N : LastSays(P, d, N) => LastSays(Q, d, N)
  /\ Opens(Q, d) => Opens(P, d)

LEMMA SameSelf == ASSUME NEW P, NEW d PROVE Same(P, P, d)
BY DEF Same

LEMMA LastSaysOf ==
  ASSUME NEW P, NEW d, NEW M, NEW N, d \in M <=> d \in N, LastSays(P, d, M)
  PROVE  LastSays(P, d, N)
BY DEF LastSays

LEMMA SameAppend ==
  ASSUME NEW P \in Seq(Event), NEW e \in Event, NEW d, e.name # d
  PROVE  Same(P, Append(P, e), d) /\ Own(Append(P, e), d) = Own(P, d)
<1> DEFINE Q == Append(P, e)
<1>1. /\ Q \in Seq(Event) /\ Len(Q) = Len(P) + 1 /\ Len(P) \in Nat
      /\ \A k \in 1..Len(P) : Q[k] = P[k]
      /\ Q[Len(P) + 1] = e
  BY AppendProperties, LenProperties
<1> HIDE DEF Q
<1>2. /\ Own(Q, d) = {k \in 1..Len(Q) : Q[k].name = d}
      /\ Own(P, d) = {k \in 1..Len(P) : P[k].name = d}
  BY <1>1, OwnEvents
<1>3. Own(Q, d) = Own(P, d) /\ \A k \in Own(P, d) : Q[k] = P[k]
  BY <1>1, <1>2
<1>4. Same(P, Q, d)
  BY <1>3 DEF Same, Alternate, LastSays, Opens
<1> QED
  BY <1>3, <1>4 DEF Q

LEMMA AppendOwn ==
  ASSUME NEW P \in Seq(Event), NEW e \in Event, NEW d, e.name = d, NEW M, NEW N,
         d \in N <=> d \notin M, e.mask = "create" <=> d \in N,
         Alternate(P, d), LastSays(P, d, M)
  PROVE  /\ Alternate(Append(P, e), d) /\ LastSays(Append(P, e), d, N)
         /\ Len(P) + 1 \in Own(Append(P, e), d)
         /\ Opens(Append(P, e), d) => Opens(P, d) \/ (Own(P, d) = {} /\ d \notin M)
<1> DEFINE Q == Append(P, e)
<1>1. /\ Q \in Seq(Event) /\ Len(Q) = Len(P) + 1 /\ Len(P) \in Nat
      /\ \A k \in 1..Len(P) : Q[k] = P[k]
      /\ Q[Len(P) + 1] = e
  BY AppendProperties, LenProperties
<1> HIDE DEF Q
<1>2. /\ Own(Q, d) = {k \in 1..Len(Q) : Q[k].name = d}
      /\ Own(P, d) = {k \in 1..Len(P) : P[k].name = d}
  BY <1>1, OwnEvents
<1>3. /\ Own(Q, d) = Own(P, d) \cup {Len(P) + 1}
      /\ \A k \in Own(P, d) : Q[k] = P[k] /\ k \in Nat /\ k < Len(P) + 1
  BY <1>1, <1>2
<1>4. e.mask \in {"create", "delete"} /\ \A k \in Own(P, d) : P[k].mask \in {"create", "delete"}
  BY <1>2, OwnEvents DEF Event
<1>5. Alternate(Q, d)
  <2> SUFFICES ASSUME NEW j \in Own(Q, d), NEW k \in Own(Q, d), j < k, Q[j].mask = Q[k].mask
               PROVE  \E i \in Own(Q, d) : j < i /\ i < k
    BY DEF Alternate
  <2>1. CASE k \in Own(P, d)
    <3>1. j \in Own(P, d)
      BY <1>1, <1>3, <2>1
    <3> QED
      BY <1>3, <2>1, <3>1 DEF Alternate
  <2>2. CASE k = Len(P) + 1
    <3>1. j # Len(P) + 1
      BY <1>1, <2>2
    <3>2. j \in Own(P, d) /\ Q[j] = P[j] /\ Q[k] = e
      BY <1>1, <1>3, <2>2, <3>1
    <3>3. ~ \A i \in Own(P, d) : i <= j
      BY <3>2 DEF LastSays
    <3>4. PICK i \in Own(P, d) : ~ (i <= j)
      BY <3>3
    <3>5. i \in Nat /\ j \in Nat /\ i < Len(P) + 1 /\ i \in Own(Q, d)
      BY <1>3, <3>2
    <3> QED
      BY <2>2, <3>4, <3>5
  <2> QED
    BY <1>3, <2>1, <2>2
<1>6. LastSays(Q, d, N)
  <2> SUFFICES ASSUME NEW k \in Own(Q, d), \A j \in Own(Q, d) : j <= k
               PROVE  Q[k].mask = "create" <=> d \in N
    BY DEF LastSays
  <2>1. k = Len(P) + 1
    BY <1>1, <1>3
  <2> QED
    BY <1>1, <2>1
<1>7. Opens(Q, d) => Opens(P, d) \/ (Own(P, d) = {} /\ d \notin M)
  <2> SUFFICES ASSUME NEW k \in Own(Q, d), Q[k].mask = "create", \A j \in Own(Q, d) : k <= j
               PROVE  Opens(P, d) \/ (Own(P, d) = {} /\ d \notin M)
    BY DEF Opens
  <2>1. CASE k \in Own(P, d)
    BY <1>3, <2>1 DEF Opens
  <2>2. CASE k = Len(P) + 1
    <3>1. Own(P, d) = {}
      <4> SUFFICES ASSUME NEW j \in Own(P, d) PROVE FALSE
        OBVIOUS
      <4>1. j \in Own(Q, d) /\ j \in Nat /\ j < Len(P) + 1 /\ k <= j
        BY <1>3
      <4> QED
        BY <1>1, <2>2, <4>1
    <3>2. e.mask = "create"
      BY <1>1, <2>2
    <3> QED
      BY <3>1, <3>2
  <2> QED
    BY <1>3, <2>1, <2>2
<1> QED
  BY <1>3, <1>5, <1>6, <1>7 DEF Q

(* The events that follow the first.                                       *)
LEMMA OwnTail ==
  ASSUME NEW P \in Seq(Event), P # <<>>, NEW d
  PROVE  /\ Tail(P) \in Seq(Event) /\ Own(Tail(P), d) \subseteq Nat
         /\ \A k \in Own(Tail(P), d) : k + 1 \in Own(P, d) /\ Tail(P)[k] = P[k + 1] /\ k > 0
         /\ \A k \in Own(P, d) : k # 1 => k - 1 \in Own(Tail(P), d) /\ k > 1
         /\ 1 \in Own(P, d) <=> P[1].name = d
<1>1. /\ Tail(P) \in Seq(Event) /\ Len(Tail(P)) = Len(P) - 1 /\ Len(P) \in Nat \ {0}
      /\ \A k \in 1..Len(Tail(P)) : Tail(P)[k] = P[k + 1]
  BY HeadTailProperties, EmptySeq
<1>2. /\ Own(Tail(P), d) = {k \in 1..Len(Tail(P)) : Tail(P)[k].name = d}
      /\ Own(P, d) = {k \in 1..Len(P) : P[k].name = d}
  BY <1>1, OwnEvents
<1> DEFINE Q == Tail(P)
           n == Len(P)
<1>3. /\ Own(Q, d) = {k \in 1..(n - 1) : P[k + 1].name = d}
      /\ \A k \in 1..(n - 1) : Q[k] = P[k + 1]
      /\ Own(P, d) = {k \in 1..n : P[k].name = d} /\ n \in Nat \ {0}
  BY <1>1, <1>2
<1> HIDE DEF Q, n
<1>4. \A k \in Own(Q, d) : k \in Nat /\ k + 1 \in Own(P, d) /\ Q[k] = P[k + 1] /\ k > 0
  BY <1>3
<1>5. ASSUME NEW k \in Own(P, d), k # 1 PROVE k - 1 \in Own(Q, d) /\ k > 1
  <2>1. k \in 1..n /\ k - 1 \in 1..(n - 1) /\ (k - 1) + 1 = k /\ k > 1
    BY <1>3, <1>5
  <2>2. P[(k - 1) + 1].name = d
    BY <1>3, <2>1
  <2> QED
    BY <1>3, <2>1, <2>2
<1>6. 1 \in Own(P, d) <=> P[1].name = d
  BY <1>3
<1> QED
  BY <1>1, <1>4, <1>5, <1>6 DEF Q

LEMMA TailKeeps ==
  ASSUME NEW P \in Seq(Event), P # <<>>, NEW d
  PROVE  /\ Alternate(P, d) => Alternate(Tail(P), d)
         /\ \A N : LastSays(P, d, N) => LastSays(Tail(P), d, N)
<1> DEFINE Q == Tail(P)
<1>1. /\ Own(Q, d) \subseteq Nat /\ Own(P, d) \subseteq Nat
      /\ \A k \in Own(Q, d) : k + 1 \in Own(P, d) /\ Q[k] = P[k + 1] /\ k > 0
      /\ \A k \in Own(P, d) : k # 1 => k - 1 \in Own(Q, d) /\ k > 1
  BY OwnTail, OwnEvents
<1> HIDE DEF Q
<1>2. ASSUME Alternate(P, d) PROVE Alternate(Q, d)
  <2> SUFFICES ASSUME NEW j \in Own(Q, d), NEW k \in Own(Q, d), j < k, Q[j].mask = Q[k].mask
               PROVE  \E i \in Own(Q, d) : j < i /\ i < k
    BY DEF Alternate
  <2>1. /\ j + 1 \in Own(P, d) /\ k + 1 \in Own(P, d) /\ j + 1 < k + 1
        /\ P[j + 1].mask = P[k + 1].mask /\ j \in Nat /\ k \in Nat /\ j > 0
    BY <1>1
  <2>2. PICK i \in Own(P, d) : j + 1 < i /\ i < k + 1
    BY <1>2, <2>1 DEF Alternate
  <2>3. i - 1 \in Own(Q, d) /\ j < i - 1 /\ i - 1 < k
    BY <1>1, <2>1, <2>2
  <2> QED
    BY <2>3
<1>3. ASSUME NEW N, LastSays(P, d, N) PROVE LastSays(Q, d, N)
  <2> SUFFICES ASSUME NEW k \in Own(Q, d), \A j \in Own(Q, d) : j <= k
               PROVE  Q[k].mask = "create" <=> d \in N
    BY DEF LastSays
  <2>1. k + 1 \in Own(P, d) /\ Q[k] = P[k + 1] /\ k \in Nat /\ k > 0
    BY <1>1
  <2>2. ASSUME NEW j \in Own(P, d) PROVE j <= k + 1
    <3>1. CASE j = 1
      BY <2>1, <3>1
    <3>2. CASE j # 1
      <4>1. j - 1 <= k /\ j \in Nat
        BY <1>1, <3>2
      <4> QED
        BY <2>1, <4>1
    <3> QED
      BY <3>1, <3>2
  <2> QED
    BY <1>3, <2>1, <2>2 DEF LastSays
<1> QED
  BY <1>2, <1>3 DEF Q

LEMMA SameTail ==
  ASSUME NEW P \in Seq(Event), P # <<>>, NEW d, P[1].name # d
  PROVE  Same(P, Tail(P), d) /\ 1 \notin Own(P, d)
<1> DEFINE Q == Tail(P)
<1>1. /\ Own(Q, d) \subseteq Nat /\ Own(P, d) \subseteq Nat /\ 1 \notin Own(P, d)
      /\ \A k \in Own(Q, d) : k + 1 \in Own(P, d) /\ Q[k] = P[k + 1] /\ k > 0
      /\ \A k \in Own(P, d) : k - 1 \in Own(Q, d) /\ k > 1
  BY OwnTail, OwnEvents
<1>2. /\ Alternate(P, d) => Alternate(Q, d)
      /\ \A N : LastSays(P, d, N) => LastSays(Q, d, N)
  BY TailKeeps
<1> HIDE DEF Q
<1>3. Own(Q, d) = {} <=> Own(P, d) = {}
  BY <1>1
<1>4. Opens(Q, d) => Opens(P, d)
  <2> SUFFICES ASSUME NEW k \in Own(Q, d), Q[k].mask = "create", \A j \in Own(Q, d) : k <= j
               PROVE  Opens(P, d)
    BY DEF Opens
  <2>1. k + 1 \in Own(P, d) /\ P[k + 1].mask = "create" /\ k \in Nat
    BY <1>1
  <2>2. ASSUME NEW j \in Own(P, d) PROVE k + 1 <= j
    <3>1. k <= j - 1 /\ j \in Nat
      BY <1>1
    <3> QED
      BY <2>1, <3>1
  <2> QED
    BY <2>1, <2>2 DEF Opens
<1> QED
  BY <1>1, <1>2, <1>3, <1>4 DEF Q, Same

LEMMA HeadOwn ==
  ASSUME NEW P \in Seq(Event), P # <<>>, NEW d, P[1].name = d, Alternate(P, d)
  PROVE  /\ Own(P, d) # {}
         /\ Own(Tail(P), d) = {} => Own(P, d) = {1}
         /\ P[1].mask = "create" => Opens(P, d) /\ ~ Opens(Tail(P), d)
         /\ \A N : LastSays(P, d, N) /\ Own(P, d) = {1} => (P[1].mask = "create" <=> d \in N)
<1> DEFINE Q == Tail(P)
<1>1. /\ Own(Q, d) \subseteq Nat /\ Own(P, d) \subseteq Nat /\ 1 \in Own(P, d)
      /\ \A k \in Own(Q, d) : k + 1 \in Own(P, d) /\ Q[k] = P[k + 1] /\ k > 0
      /\ \A k \in Own(P, d) : k # 1 => k - 1 \in Own(Q, d) /\ k > 1
  BY OwnTail, OwnEvents
<1> HIDE DEF Q
<1>2. Own(Q, d) = {} => Own(P, d) = {1}
  BY <1>1
<1>3. P[1].mask = "create" => Opens(P, d)
  <2>1. \A j \in Own(P, d) : 1 <= j
    BY <1>1
  <2> QED
    BY <1>1, <2>1 DEF Opens
<1>4. ASSUME P[1].mask = "create", Opens(Q, d) PROVE FALSE
  <2>1. PICK k \in Own(Q, d) : Q[k].mask = "create" /\ \A j \in Own(Q, d) : k <= j
    BY <1>4 DEF Opens
  <2>2. k + 1 \in Own(P, d) /\ P[k + 1].mask = P[1].mask /\ 1 < k + 1 /\ k \in Nat
    BY <1>1, <1>4, <2>1
  <2>3. PICK i \in Own(P, d) : 1 < i /\ i < k + 1
    BY <1>1, <2>2 DEF Alternate
  <2>4. i - 1 \in Own(Q, d) /\ i - 1 < k /\ i \in Nat
    BY <1>1, <2>2, <2>3
  <2> QED
    BY <2>1, <2>2, <2>4
<1>5. ASSUME NEW N, LastSays(P, d, N), Own(P, d) = {1} PROVE P[1].mask = "create" <=> d \in N
  BY <1>5 DEF LastSays
<1> QED
  BY <1>1, <1>2, <1>3, <1>4, <1>5 DEF Q

-----------------------------------------------------------------------------
(* The events that wait.                                                   *)

LEMMA PendingType ==
  ASSUME TypeOK, AtWork
  PROVE  /\ InWork \in Seq(Event) /\ l_events \in Seq(Event) /\ queue \in Seq(Event)
         /\ l_events \o queue \in Seq(Event) /\ Pending \in Seq(Event)
<1>1. InWork \in Seq(Event)
  <2>1. CASE l_pc \in {"add", "epoll_add", "remove", "close"}
    <3>1. l_dev \in Device
      BY <2>1 DEF AtWork
    <3>2. [mask |-> "create", name |-> l_dev] \in Event /\ [mask |-> "delete", name |-> l_dev] \in Event
      BY <3>1 DEF Event
    <3> QED
      BY <2>1, <3>2 DEF InWork
  <2>2. CASE l_pc \notin {"add", "epoll_add", "remove", "close"}
    BY <2>2 DEF InWork
  <2> QED
    BY <2>1, <2>2
<1>2. l_events \in Seq(Event) /\ queue \in Seq(Event)
  BY DEF TypeOK
<1>3. l_events \o queue \in Seq(Event)
  BY <1>2, ConcatProperties
<1> QED
  BY <1>1, <1>2, <1>3, ConcatProperties DEF Pending

(* A change of the directory is the last of them.                          *)
LEMMA PendingGrows ==
  ASSUME TypeOK, AtWork, NEW e \in Event, queue' = Append(queue, e),
         l_events' = l_events, InWork' = InWork
  PROVE  Pending' = Append(Pending, e)
<1>1. <<e>> \in Seq(Event)
  OBVIOUS
<1>2. Pending' = InWork \o (l_events \o (queue \o <<e>>))
  BY PendingType, AppendIsConcat DEF Pending
<1>3. l_events \o (queue \o <<e>>) = (l_events \o queue) \o <<e>>
  BY <1>1, PendingType, ConcatAssociative
<1>4. InWork \o ((l_events \o queue) \o <<e>>) = (InWork \o (l_events \o queue)) \o <<e>>
  BY <1>1, PendingType, ConcatAssociative
<1>5. Append(Pending, e) = Pending \o <<e>>
  BY PendingType, AppendIsConcat
<1> QED
  BY <1>2, <1>3, <1>4, <1>5 DEF Pending

(* The listener is done with the first of them.                            *)
LEMMA TailOfConcat ==
  ASSUME NEW e \in Event, NEW R \in Seq(Event)
  PROVE  /\ <<e>> \o R # <<>> /\ (<<e>> \o R)[1] = e
         /\ Tail(<<e>> \o R) = R
<1> DEFINE P == <<e>> \o R
<1>1. <<e>> \in Seq(Event) /\ Len(<<e>>) = 1 /\ Len(R) \in Nat
  BY LenProperties
<1>2. /\ P \in Seq(Event) /\ Len(P) = 1 + Len(R)
      /\ \A i \in 1..(1 + Len(R)) : P[i] = IF i <= 1 THEN <<e>>[i] ELSE R[i - 1]
  BY <1>1, ConcatProperties
<1> HIDE DEF P
<1>3. P # <<>> /\ P[1] = e
  BY <1>1, <1>2, EmptySeq
<1>4. /\ Tail(P) \in Seq(Event) /\ Len(Tail(P)) = Len(R)
      /\ \A i \in 1..Len(R) : Tail(P)[i] = P[i + 1]
  BY <1>1, <1>2, <1>3, HeadTailProperties
<1>5. \A i \in 1..Len(R) : Tail(P)[i] = R[i]
  BY <1>1, <1>2, <1>4
<1>6. Tail(P) = R
  BY <1>4, <1>5, SeqEqual
<1> QED
  BY <1>3, <1>6 DEF P

LEMMA PendingDone ==
  ASSUME TypeOK, AtWork, l_pc \in {"add", "epoll_add", "remove", "close"},
         UNCHANGED <<l_events, queue>>,
         l_pc' \in {"add_callback", "remove_callback", "scan", "events"}
  PROVE  /\ Pending # <<>> /\ Pending' = Tail(Pending)
         /\ Pending[1] = [mask |-> IF l_pc \in {"add", "epoll_add"} THEN "create" ELSE "delete",
                          name |-> l_dev]
<1> DEFINE e == [mask |-> IF l_pc \in {"add", "epoll_add"} THEN "create" ELSE "delete", name |-> l_dev]
<1>1. l_dev \in Device
  BY DEF AtWork
<1>2. e \in Event
  BY <1>1 DEF Event
<1>3. InWork = <<e>>
  BY DEF InWork
<1>4. InWork' = <<>>
  BY DEF InWork
<1>5. Pending' = l_events \o queue
  BY <1>4, PendingType, ConcatEmptySeq DEF Pending
<1> HIDE DEF e
<1>6. Pending = <<e>> \o (l_events \o queue)
  BY <1>3 DEF Pending
<1>7. Pending # <<>> /\ Pending' = Tail(Pending) /\ Pending[1] = e
  BY <1>2, <1>5, <1>6, PendingType, TailOfConcat
<1> QED
  BY <1>7 DEF e

(* Reading and taking events moves them only.                              *)
LEMMA PendingMoves ==
  ASSUME TypeOK, AtWork, Phases, ReadEvents \/ NextEvent
  PROVE  Pending' = Pending
<1>1. CASE ReadEvents
  <2>1. PICK n \in 0..Len(queue) :
          l_events' = SubSeq(queue, 1, n) /\ queue' = SubSeq(queue, n + 1, Len(queue))
    <3>1. ReadSize \in Nat /\ Len(queue) \in Nat
      BY SizeAssumption, LenProperties DEF TypeOK
    <3> DEFINE n == IF Len(queue) < ReadSize THEN Len(queue) ELSE ReadSize
    <3>2. n \in 0..Len(queue)
      BY <3>1
    <3>3. l_events' = SubSeq(queue, 1, n) /\ queue' = SubSeq(queue, n + 1, Len(queue))
      BY <1>1 DEF ReadEvents
    <3> HIDE DEF n
    <3> QED
      BY <3>2, <3>3
  <2>2. queue \in Seq(Event) /\ Len(queue) \in Nat
    BY PendingType, LenProperties
  <2>3. 1 \in 1..(Len(queue) + 1) /\ n \in (1 - 1)..Len(queue) /\ Len(queue) \in n..Len(queue)
    BY <2>2
  <2>4. SubSeq(queue, 1, n) \o SubSeq(queue, n + 1, Len(queue)) = SubSeq(queue, 1, Len(queue))
    BY <2>2, <2>3, ConcatAdjacentSubSeq
  <2>5. l_events' \o queue' = queue
    BY <2>1, <2>2, <2>4, SubSeqFull
  <2>6. l_events = <<>> /\ InWork = <<>> /\ InWork' = <<>>
    BY <1>1 DEF ReadEvents, Phases, InWork
  <2> QED
    BY <2>2, <2>5, <2>6, ConcatEmptySeq DEF Pending
<1>2. CASE NextEvent
  <2>1. CASE l_events = <<>>
    <3>1. UNCHANGED <<l_events, queue>> /\ InWork = <<>> /\ InWork' = <<>>
      BY <1>2, <2>1 DEF NextEvent, InWork, kernel
    <3> QED
      BY <3>1 DEF Pending
  <2>2. CASE l_events # <<>>
    <3> DEFINE e == Head(l_events)
    <3>1. e \in Event /\ Tail(l_events) \in Seq(Event) /\ l_events \in Seq(Event)
      BY <2>2, PendingType, HeadTailProperties
    <3>2. e = [mask |-> e.mask, name |-> e.name] /\ e.mask \in {"create", "delete"}
      BY <3>1 DEF Event
    <3>3. /\ l_pc = "events" /\ l_pc' = IF e.mask = "create" THEN "add" ELSE "remove"
          /\ l_dev' = e.name /\ l_events' = Tail(l_events) /\ queue' = queue
      BY <1>2, <2>2 DEF NextEvent, kernel
    <3>4. InWork = <<>> /\ InWork' = <<[mask |-> e.mask, name |-> e.name]>>
      BY <3>2, <3>3 DEF InWork
    <3>5. l_events = <<e>> \o Tail(l_events)
      <4>1. l_events = <<l_events[1]>> \o SubSeq(l_events, 2, Len(l_events))
        <5>1. Len(l_events) \in Nat \ {0}
          BY <2>2, <3>1, EmptySeq
        <5>2. 1 \in 1..Len(l_events) /\ Len(l_events) \in 1..Len(l_events) /\ 1 + 1 = 2
          BY <5>1
        <5>3. SubSeq(l_events, 1, Len(l_events)) = <<l_events[1]>> \o SubSeq(l_events, 2, Len(l_events))
          BY <3>1, <5>2, SubSeqRecursiveFirst
        <5> QED
          BY <3>1, <5>3, SubSeqFull
      <4>2. l_events[1] = e
        BY <2>2, <3>1
      <4> QED
        BY <2>2, <3>1, <4>1, <4>2, TailIsSubSeq
    <3> HIDE DEF e
    <3>6. <<e>> \in Seq(Event)
      BY <3>1
    <3>7. (<<e>> \o Tail(l_events)) \o queue = <<e>> \o (Tail(l_events) \o queue)
      BY <3>1, <3>6, PendingType, ConcatAssociative
    <3>8. Pending = l_events \o queue
      BY <3>4, PendingType, ConcatEmptySeq DEF Pending
    <3>9. Pending' = <<e>> \o (Tail(l_events) \o queue)
      BY <3>2, <3>3, <3>4 DEF Pending
    <3> QED
      BY <3>5, <3>7, <3>8, <3>9
  <2> QED
    BY <2>1, <2>2
<1> QED
  BY <1>1, <1>2

-----------------------------------------------------------------------------
(* Directory, events and slots stay in step.                               *)

(* The two last conjuncts of InStep.                                       *)
Opening(d) ==
  l_pc = "epoll_add" /\ l_dev = d /\ Own(Pending, d) = {1} => files[g_his[l_slot].fd].kind = "device"
ToRead(d) == ~watching /\ l_pc # "opendir" /\ d \in nodes \ l_seen => d \in l_entries

LEMMA LiveKept ==
  ASSUME NEW d, SlotsOf(d)' = SlotsOf(d),
         \A s \in SlotsOf(d) :
           files'[g_his'[s].fd].kind = "device" <=> files[g_his[s].fd].kind = "device"
  PROVE  Live(d)' = Live(d)
<1>1. Live(d) = {s \in SlotsOf(d) : files[g_his[s].fd].kind = "device"}
  BY DEF Live, SlotsOf
<1>2. Live(d)' = {s \in SlotsOf(d)' : files'[g_his'[s].fd].kind = "device"}
  BY DEF Live, SlotsOf
<1> QED
  BY <1>1, <1>2

LEMMA InStepKept ==
  ASSUME NEW d \in Device, InStep(d), Same(Pending, Pending', d),
         SlotsOf(d)' = SlotsOf(d), Live(d)' = Live(d),
         d \in nodes' <=> d \in nodes, d \in Unscanned' <=> d \in Unscanned,
         Opening(d)', ToRead(d)'
  PROVE  InStep(d)'
<1>1. /\ \A s, t \in SlotsOf(d) : s = t
      /\ Alternate(Pending, d) /\ LastSays(Pending, d, nodes)
      /\ Opens(Pending, d) => SlotsOf(d) = {}
      /\ Own(Pending, d) # {} => d \notin Unscanned
      /\ Own(Pending, d) = {} =>
           IF d \in nodes \ Unscanned THEN SlotsOf(d) # {} /\ Live(d) = SlotsOf(d)
           ELSE SlotsOf(d) = {}
  BY DEF InStep
<1>2. /\ Own(Pending', d) = {} <=> Own(Pending, d) = {}
      /\ Alternate(Pending', d) /\ LastSays(Pending', d, nodes)
      /\ Opens(Pending', d) => Opens(Pending, d)
  BY <1>1 DEF Same
<1>3. LastSays(Pending', d, nodes')
  BY <1>2, LastSaysOf
<1> QED
  BY <1>1, <1>2, <1>3 DEF InStep, Opening, ToRead

(* A step that leaves the work, the events and the scan alone.             *)
LEMMA InStepSame ==
  ASSUME NEW d \in Device, InStep(d), Pending' = Pending,
         SlotsOf(d)' = SlotsOf(d), Live(d)' = Live(d),
         UNCHANGED <<nodes, l_entries, l_seen>>, l_pc' = "opendir" <=> l_pc = "opendir",
         watching => watching', Opening(d)'
  PROVE  InStep(d)'
<1>1. d \in Unscanned' <=> d \in Unscanned
  BY DEF Unscanned
<1>2. ToRead(d)'
  BY DEF ToRead, InStep
<1>3. Same(Pending, Pending', d)
  BY SameSelf
<1> QED
  BY <1>1, <1>2, <1>3, InStepKept

(* The listener is done with the first event: one of another device.       *)
LEMMA InStepOther ==
  ASSUME NEW d \in Device, InStep(d), Pending \in Seq(Event), Pending # <<>>,
         Pending' = Tail(Pending), Pending[1].name # d,
         SlotsOf(d)' = SlotsOf(d), Live(d)' = Live(d),
         UNCHANGED <<nodes, l_entries, l_seen, watching>>, l_pc # "opendir", l_pc' # "opendir",
         l_pc' # "epoll_add"
  PROVE  InStep(d)'
<1>1. d \in Unscanned' <=> d \in Unscanned
  BY DEF Unscanned
<1>2. ToRead(d)' /\ Opening(d)'
  BY DEF ToRead, Opening, InStep
<1>3. Same(Pending, Pending', d)
  BY SameTail
<1> QED
  BY <1>1, <1>2, <1>3, InStepKept

(* The same, of the device itself, which is then in the right slot or none. *)
LEMMA InStepOwn ==
  ASSUME NEW d \in Device, InStep(d), Pending \in Seq(Event), Pending # <<>>,
         Pending' = Tail(Pending), Pending[1].name = d,
         UNCHANGED <<nodes, l_entries, l_seen, watching>>, l_pc # "opendir", l_pc' # "opendir",
         l_pc' # "epoll_add",
         \A s, t \in SlotsOf(d)' : s = t,
         SlotsOf(d)' # {} => Pending[1].mask = "create",
         Own(Pending, d) = {1} =>
           IF d \in nodes THEN SlotsOf(d)' # {} /\ Live(d)' = SlotsOf(d)' ELSE SlotsOf(d)' = {}
  PROVE  InStep(d)'
<1>1. /\ Alternate(Pending, d) /\ LastSays(Pending, d, nodes)
      /\ Own(Pending, d) # {} => d \notin Unscanned
  BY DEF InStep
<1>2. /\ Own(Pending, d) # {}
      /\ Own(Pending', d) = {} => Own(Pending, d) = {1}
      /\ Pending[1].mask = "create" => ~ Opens(Pending', d)
  <2> DEFINE P == Pending
  <2>1. P \in Seq(Event) /\ P # <<>> /\ P[1].name = d /\ Alternate(P, d)
    BY <1>1
  <2> HIDE DEF P
  <2>2. /\ Own(P, d) # {}
        /\ Own(Tail(P), d) = {} => Own(P, d) = {1}
        /\ P[1].mask = "create" => ~ Opens(Tail(P), d)
    BY <2>1, HeadOwn
  <2> QED
    BY <2>2 DEF P
<1>3. Alternate(Pending', d) /\ LastSays(Pending', d, nodes')
  <2>1. Alternate(Tail(Pending), d) /\ LastSays(Tail(Pending), d, nodes)
    BY <1>1, TailKeeps
  <2> QED
    BY <2>1
<1>4. d \notin Unscanned' /\ d \notin Unscanned
  BY <1>1, <1>2 DEF Unscanned
<1>5. ToRead(d)'
  BY DEF ToRead, InStep
<1> QED
  BY <1>2, <1>3, <1>4, <1>5 DEF InStep, ToRead

(* The slots of a device own open descriptors on it.                       *)
LEMMA SlotFiles ==
  ASSUME TypeOK, AtWork, Owns, NEW d
  PROVE  /\ \A s \in SlotsOf(d) : /\ s \in Available /\ g_his[s].fd \in Fd
                                  /\ IsOpen(g_his[s].fd) /\ files[g_his[s].fd].device = d
         /\ l_pc = "epoll_add" => /\ l_slot \in Slot /\ g_his[l_slot].fd \in Fd
                                  /\ IsOpen(g_his[l_slot].fd)
                                  /\ files[g_his[l_slot].fd].device = l_dev
<1>1. \A s \in Busy : /\ g_his[s].fd \in Fd /\ IsOpen(g_his[s].fd)
                      /\ files[g_his[s].fd].device = g_his[s].device_name
  BY DEF Owns
<1>2. \A s \in SlotsOf(d) : s \in Available /\ s \in Busy /\ g_his[s].device_name = d
  BY DEF SlotsOf, Busy
<1>3. l_pc = "epoll_add" => l_slot \in Busy /\ l_slot \in Slot /\ g_his[l_slot].device_name = l_dev
  BY DEF AtWork, Busy, InHand
<1> QED
  BY <1>1, <1>2, <1>3

(* Steps of the input listener, and inputs.                                *)
LEMMA InStepQuiet ==
  ASSUME TypeOK, AtWork, Owns, NEW d \in Device, InStep(d),
         UNCHANGED <<nodes, watching, queue, g_his, l_pc, l_entries, l_seen, l_dev, l_slot, l_events>>,
         \A fd \in Fd : files'[fd].kind = files[fd].kind
  PROVE  InStep(d)'
<1>1. SlotsOf(d)' = SlotsOf(d)
  BY DEF SlotsOf, Available
<1>2. Live(d)' = Live(d)
  BY <1>1, SlotFiles, LiveKept
<1>3. Pending' = Pending
  BY DEF Pending, InWork
<1>4. Opening(d)'
  BY <1>3, SlotFiles DEF Opening, InStep
<1> QED
  BY <1>1, <1>2, <1>3, <1>4, InStepSame

(* A device comes or goes.                                                 *)
LEMMA InStepChange ==
  ASSUME TypeOK, AtWork, Owns, Phases, NEW d \in Device, InStep(d), ~faulted', d \notin missed',
         NEW c \in Device, Plug(c) \/ Unplug(c)
  PROVE  InStep(d)'
<1> USE DEF kernel, table, scan, work, listener, reader, app, marks, history
<1>1. /\ UNCHANGED <<l_pc, l_dev, l_slot, g_his, l_events, watching, l_seen>>
      /\ l_entries' \subseteq l_entries /\ l_entries \ {c} \subseteq l_entries'
      /\ c \in nodes' <=> c \notin nodes
      /\ \A e \in Device \ {c} : e \in nodes' <=> e \in nodes
      /\ \A fd \in Fd : files[fd].device # c => files'[fd] = files[fd]
  <2>1. CASE Plug(c)
    BY <2>1 DEF Plug, TypeOK
  <2>2. CASE Unplug(c)
    BY <2>2 DEF Unplug, TypeOK
  <2> QED
    BY <2>1, <2>2
<1>2. SlotsOf(d)' = SlotsOf(d) /\ InWork' = InWork
  BY <1>1 DEF SlotsOf, Available, InWork
<1>3. PICK mask \in {"create", "delete"} : Notify(mask, c) /\ (mask = "create" <=> c \in nodes')
  BY DEF Plug, Unplug
<1> DEFINE e == [mask |-> mask, name |-> c]
<1>4. e \in Event /\ e.name = c /\ (e.mask = "create" <=> c \in nodes')
  BY <1>3 DEF Event
<1>5. /\ watching => queue' = Append(queue, e)
      /\ ~watching => queue' = queue
      /\ ~watching /\ l_pc # "opendir" => c \in missed'
  BY <1>3 DEF Notify
<1> HIDE DEF e
<1>6. /\ watching => Pending' = Append(Pending, e)
      /\ ~watching => Pending' = Pending
      /\ Pending \in Seq(Event)
  <2>1. watching => Pending' = Append(Pending, e)
    BY <1>1, <1>2, <1>4, <1>5, PendingGrows
  <2>2. ~watching => Pending' = Pending
    BY <1>1, <1>2, <1>5 DEF Pending
  <2> QED
    BY <2>1, <2>2, PendingType
<1>7. CASE d # c
  <2>1. Same(Pending, Pending', d) /\ Own(Pending', d) = Own(Pending, d)
    <3>1. CASE watching
      BY <1>4, <1>6, <1>7, <3>1, SameAppend
    <3>2. CASE ~watching
      BY <1>6, <3>2, SameSelf
    <3> QED
      BY <3>1, <3>2
  <2>2. Live(d)' = Live(d)
    <3>1. \A s \in SlotsOf(d) : g_his'[s].fd = g_his[s].fd /\ files'[g_his[s].fd] = files[g_his[s].fd]
      BY <1>1, <1>7, SlotFiles
    <3> QED
      BY <1>2, <3>1, LiveKept
  <2>3. d \in Unscanned' <=> d \in Unscanned
    BY <1>1, <1>7 DEF Unscanned
  <2>4. ToRead(d)'
    BY <1>1, <1>7 DEF ToRead, InStep
  <2>5. Opening(d)'
    <3> SUFFICES ASSUME l_pc' = "epoll_add", l_dev' = d, Own(Pending', d) = {1}
                 PROVE  files'[g_his'[l_slot'].fd].kind = "device"
      BY DEF Opening
    <3>1. files[g_his[l_slot].fd].kind = "device"
      BY <1>1, <2>1 DEF InStep
    <3>2. files'[g_his[l_slot].fd] = files[g_his[l_slot].fd]
      BY <1>1, <1>7, SlotFiles
    <3> QED
      BY <1>1, <3>1, <3>2
  <2> QED
    BY <1>1, <1>2, <1>7, <2>1, <2>2, <2>3, <2>4, <2>5, InStepKept
<1>8. CASE d = c /\ watching
  <2>1. /\ Alternate(Pending, d) /\ LastSays(Pending, d, nodes)
        /\ Opens(Pending, d) => SlotsOf(d) = {}
        /\ \A s, t \in SlotsOf(d) : s = t
    BY DEF InStep
  <2>2. /\ Alternate(Pending', d) /\ LastSays(Pending', d, nodes')
        /\ Len(Pending) + 1 \in Own(Pending', d)
        /\ Opens(Pending', d) => Opens(Pending, d) \/ (Own(Pending, d) = {} /\ d \notin nodes)
    <3>1. /\ e.name = d /\ e \in Event /\ Pending \in Seq(Event)
          /\ e.mask = "create" <=> d \in nodes'
          /\ d \in nodes' <=> d \notin nodes
      BY <1>1, <1>4, <1>6, <1>8
    <3>2. Pending' = Append(Pending, e)
      BY <1>6, <1>8
    <3> DEFINE P == Pending
               N == nodes'
               M == nodes
    <3>3. /\ P \in Seq(Event) /\ Alternate(P, d) /\ LastSays(P, d, M)
          /\ e \in Event /\ e.name = d
          /\ e.mask = "create" <=> d \in N
          /\ d \in N <=> d \notin M
      BY <2>1, <3>1
    <3> HIDE DEF P, N, M
    <3>4. /\ Alternate(Append(P, e), d) /\ LastSays(Append(P, e), d, N)
          /\ Len(P) + 1 \in Own(Append(P, e), d)
          /\ Opens(Append(P, e), d) => Opens(P, d) \/ (Own(P, d) = {} /\ d \notin M)
      BY ONLY <3>3, AppendOwn
    <3> QED
      BY <3>2, <3>4 DEF P, N, M
  <2>3. Unscanned' = {} /\ watching'
    BY <1>1, <1>8 DEF Unscanned, Phases
  <2>4. Opens(Pending', d) => SlotsOf(d) = {}
    BY <2>1, <2>2 DEF InStep
  <2>5. l_pc = "epoll_add" => Own(Pending', d) # {1}
    <3> SUFFICES ASSUME l_pc = "epoll_add" PROVE Len(Pending) \in Nat \ {0}
      BY <2>2
    <3>1. Len(InWork) = 1
      BY DEF InWork
    <3>2. Len(Pending) = Len(InWork) + Len(l_events \o queue) /\ Len(l_events \o queue) \in Nat
      BY PendingType, ConcatProperties, LenProperties DEF Pending
    <3> QED
      BY <3>1, <3>2
  <2> QED
    BY <1>1, <1>2, <2>1, <2>2, <2>3, <2>4, <2>5 DEF InStep
<1>9. CASE d = c /\ ~watching
  <2>1. l_pc = "opendir" /\ l_pc' = "opendir"
    BY <1>1, <1>5, <1>9
  <2>2. l_events = <<>> /\ queue = <<>> /\ InWork = <<>>
    BY <1>9, <2>1 DEF Phases, InWork
  <2>3. Pending = <<>>
    <3>1. <<>> \o <<>> = <<>>
      BY PendingType, <2>2, ConcatEmptySeq
    <3> QED
      BY <2>2, <3>1 DEF Pending
  <2>4. Own(Pending, d) = {} /\ Pending' = Pending
    BY <1>6, <1>9, <2>3 DEF Own
  <2>5. Unscanned = Device /\ Unscanned' = Device
    BY <2>1 DEF Unscanned
  <2>6. SlotsOf(d) = {}
    BY <2>4, <2>5 DEF InStep
  <2>7. /\ Alternate(Pending', d) /\ LastSays(Pending', d, nodes') /\ ~ Opens(Pending', d)
        /\ Own(Pending', d) = {}
    BY <2>4 DEF Alternate, LastSays, Opens
  <2> QED
    BY <1>2, <2>1, <2>5, <2>6, <2>7 DEF InStep
<1> QED
  BY <1>7, <1>8, <1>9

(* The scan starts, finds a device, and ends.                              *)
LEMMA InStepScan ==
  ASSUME TypeOK, AtWork, Owns, Phases, NEW d \in Device, InStep(d),
         OpenDir \/ \E c \in Device : ReadEntry(c)
  PROVE  InStep(d)'
<1> USE DEF kernel, table, scan, work, listener, reader, app, marks, history
<1>1. /\ UNCHANGED <<nodes, watching, queue, files, g_his, l_events>>
      /\ l_pc \in {"opendir", "scan"} /\ ~watching
  BY DEF OpenDir, ReadEntry, Phases
<1>2. SlotsOf(d)' = SlotsOf(d)
  BY <1>1 DEF SlotsOf, Available
<1>3. Live(d)' = Live(d)
  BY <1>1, <1>2, LiveKept
<1>4. Pending = <<>>
  <2>1. l_events = <<>> /\ queue = <<>> /\ InWork = <<>>
    BY <1>1 DEF Phases, InWork
  <2>2. <<>> \o <<>> = <<>>
    BY <2>1, PendingType, ConcatEmptySeq
  <2> QED
    BY <2>1, <2>2 DEF Pending
<1>5. Own(Pending, d) = {}
  BY <1>4 DEF Own
<1>6. CASE OpenDir
  <2>1. /\ l_pc = "opendir" /\ l_pc' = "scan" /\ l_entries' = nodes
    BY <1>6 DEF OpenDir
  <2>2. Pending' = Pending
    BY <1>1, <2>1 DEF Pending, InWork
  <2>3. Unscanned = Device /\ Unscanned' = nodes
    BY <2>1 DEF Unscanned
  <2>4. SlotsOf(d) = {}
    BY <1>5, <2>3 DEF InStep
  <2>5. /\ Alternate(Pending', d) /\ LastSays(Pending', d, nodes') /\ ~ Opens(Pending', d)
        /\ Own(Pending', d) = {}
    BY <1>5, <2>2 DEF Alternate, LastSays, Opens
  <2> QED
    BY <1>1, <1>2, <2>1, <2>3, <2>4, <2>5 DEF InStep
<1>7. ASSUME NEW c \in Device, ReadEntry(c) PROVE InStep(d)'
  <2>1. /\ l_pc = "scan" /\ l_pc' = "add" /\ l_dev' = c
        /\ c \in nodes \ l_seen /\ l_seen' = l_seen \cup {c} /\ l_entries' = l_entries \ {c}
    BY <1>7 DEF ReadEntry
  <2>2. Unscanned = l_entries /\ Unscanned' = l_entries \ {c}
    BY <2>1 DEF Unscanned
  <2> DEFINE e == [mask |-> "create", name |-> c]
  <2>3. e \in Event /\ e.name = c /\ e.mask = "create"
    BY DEF Event
  <2>4. Pending' = <<e>>
    <3>1. InWork' = <<e>> /\ l_events' = <<>> /\ queue' = <<>>
      BY <1>1, <2>1 DEF InWork, Phases
    <3>2. <<e>> \in Seq(Event) /\ <<>> \in Seq(Event)
      BY <2>3
    <3>3. <<>> \o <<>> = <<>> /\ <<e>> \o <<>> = <<e>>
      BY <3>2, ConcatEmptySeq
    <3> QED
      BY <3>1, <3>3 DEF Pending
  <2> HIDE DEF e
  <2>5. Own(<<e>>, d) = IF d = c THEN {1} ELSE {}
    BY <2>3 DEF Own
  <2>6. Alternate(<<e>>, d) /\ (d \in nodes \/ d # c => LastSays(<<e>>, d, nodes))
        /\ (Opens(<<e>>, d) => d = c)
    BY <2>3, <2>5 DEF Alternate, LastSays, Opens
  <2>7. ToRead(d)'
    BY <1>1, <2>1 DEF ToRead, InStep
  <2>8. CASE d # c
    <3>1. Same(Pending, Pending', d)
      BY <1>5, <2>4, <2>5, <2>6, <2>8 DEF Same, LastSays
    <3>2. Opening(d)'
      BY <2>1 DEF Opening
    <3> QED
      BY <1>1, <1>2, <1>3, <2>2, <2>7, <2>8, <3>1, <3>2, InStepKept
  <2>9. CASE d = c
    <3>1. d \in l_entries
      BY <1>1, <2>1, <2>9 DEF InStep
    <3>2. SlotsOf(d) = {}
      BY <1>5, <2>2, <3>1 DEF InStep
    <3>3. d \notin Unscanned' /\ d \in nodes
      BY <2>1, <2>2, <2>9
    <3>4. /\ Own(Pending', d) # {} /\ Alternate(Pending', d) /\ LastSays(Pending', d, nodes')
      BY <1>1, <2>4, <2>5, <2>6, <2>9, <3>3
    <3> QED
      BY <1>2, <2>1, <2>7, <3>2, <3>3, <3>4 DEF InStep, ToRead
  <2> QED
    BY <2>8, <2>9
<1> QED
  BY <1>6, <1>7

(* The listener moves on without being done with an event.                 *)
LEMMA InStepMove ==
  ASSUME TypeOK, AtWork, Owns, Phases, NEW d \in Device, InStep(d),
         \/ CloseDir \/ InotifyInit \/ AddWatch \/ ReadEvents \/ NextEvent
         \/ AddCallback \/ RemoveCallback \/ EpollDel
  PROVE  InStep(d)'
<1> USE DEF kernel, table, scan, work, listener, reader, app, marks, history
<1>1. /\ UNCHANGED <<nodes, g_his, l_entries, l_seen>>
      /\ watching => watching'
      /\ l_pc # "opendir" /\ l_pc' # "opendir" /\ l_pc' # "epoll_add"
  BY DEF CloseDir, InotifyInit, AddWatch, ReadEvents, NextEvent, AddCallback, RemoveCallback,
         EpollDel, TypeOK
<1>2. Pending' = Pending
  <2>1. CASE ReadEvents \/ NextEvent
    BY <2>1, PendingMoves
  <2>2. CASE EpollDel
    <3>1. UNCHANGED <<l_events, queue>> /\ InWork' = InWork
      BY <2>2 DEF EpollDel, InWork
    <3> QED
      BY <3>1 DEF Pending
  <2>3. CASE CloseDir \/ InotifyInit \/ AddWatch \/ AddCallback \/ RemoveCallback
    <3>1. UNCHANGED <<l_events, queue>> /\ InWork' = <<>> /\ InWork = <<>>
      BY <2>3 DEF CloseDir, InotifyInit, AddWatch, AddCallback, RemoveCallback, InWork, TypeOK
    <3> QED
      BY <3>1 DEF Pending
  <2> QED
    BY <2>1, <2>2, <2>3
<1>3. SlotsOf(d)' = SlotsOf(d)
  BY <1>1 DEF SlotsOf, Available
<1>4. \A fd \in Fd : IsOpen(fd) => files'[fd] = files[fd]
  <2>1. CASE InotifyInit
    BY <2>1, FreeFd DEF InotifyInit, IsOpen, TypeOK
  <2>2. CASE ~ InotifyInit
    BY <2>2 DEF CloseDir, AddWatch, ReadEvents, NextEvent, AddCallback, RemoveCallback, EpollDel
  <2> QED
    BY <2>1, <2>2
<1>5. Live(d)' = Live(d)
  <2>1. \A s \in SlotsOf(d) : g_his'[s].fd = g_his[s].fd /\ files'[g_his[s].fd] = files[g_his[s].fd]
    BY <1>1, <1>4, SlotFiles
  <2> QED
    BY <1>3, <2>1, LiveKept
<1>6. Opening(d)'
  BY <1>1 DEF Opening
<1> QED
  BY <1>1, <1>2, <1>3, <1>5, <1>6, InStepSame

(* add_his opens the device.                                               *)
LEMMA InStepOpened ==
  ASSUME TypeOK, AtWork, Owns, NEW d \in Device, InStep(d), AddOpen
  PROVE  InStep(d)'
<1> USE DEF kernel, table, scan, work, listener, reader, app, marks, history
<1> DEFINE s == First(Slot \ Available)
<1>1. s \in Slot
  BY FirstSlot DEF AddOpen, Available
<1>2. /\ UNCHANGED <<nodes, l_entries, l_seen, watching, l_dev, l_events, queue>>
      /\ l_pc = "add" /\ l_pc' = "epoll_add" /\ l_slot' = s
      /\ files' = [files EXCEPT ![LowestFd] = Opened(l_dev)]
      /\ g_his' = [g_his EXCEPT ![s].device_name = l_dev, ![s].fd = LowestFd]
      /\ LowestFd \in Fd /\ ~IsOpen(LowestFd)
  BY FreeFd DEF AddOpen, IsOpen
<1>3. Pending' = Pending
  BY <1>2 DEF Pending, InWork
<1>4. SlotsOf(d)' = SlotsOf(d) /\ \A t \in Available : g_his'[t] = g_his[t]
  BY SlotsOfOpen
<1>5. Live(d)' = Live(d)
  <2>1. \A t \in SlotsOf(d) : g_his'[t].fd = g_his[t].fd /\ files'[g_his[t].fd] = files[g_his[t].fd]
    <3> TAKE t \in SlotsOf(d)
    <3>1. t \in Available /\ g_his[t].fd \in Fd /\ IsOpen(g_his[t].fd)
      BY SlotFiles
    <3>2. g_his[t].fd # LowestFd
      BY <1>2, <3>1
    <3> QED
      BY <1>2, <1>4, <3>1, <3>2 DEF TypeOK
  <2> QED
    BY <1>4, <2>1, LiveKept
<1>6. Opening(d)'
  <2>1. l_dev \in Device
    BY <1>2 DEF AtWork
  <2>2. g_his'[l_slot'].fd = LowestFd /\ files'[LowestFd].kind = "device"
    BY <1>1, <1>2, <2>1, FileFacts DEF TypeOK
  <2> QED
    BY <2>2 DEF Opening
<1> QED
  BY <1>2, <1>3, <1>4, <1>5, <1>6, InStepSame

(* The listener is done with an event.                                     *)
LEMMA InStepDone ==
  ASSUME TypeOK, AtWork, Owns, Phases, NEW d \in Device, InStep(d), ~faulted',
         AddOpenFails \/ EpollAdd \/ RemoveUnknown \/ CloseDevice
  PROVE  InStep(d)'
<1> USE DEF kernel, table, scan, work, listener, reader, app, marks, history
<1>1. /\ UNCHANGED <<nodes, l_entries, l_seen, watching, l_events, queue>>
      /\ l_pc \in {"add", "epoll_add", "remove", "close"}
      /\ l_pc' \in {"add_callback", "remove_callback", "scan", "events"}
  BY DEF AddOpenFails, EpollAdd, RemoveUnknown, CloseDevice, TypeOK
<1>2. /\ Pending # <<>> /\ Pending' = Tail(Pending) /\ Pending \in Seq(Event)
      /\ Pending[1].name = l_dev
      /\ Pending[1].mask = "create" <=> l_pc \in {"add", "epoll_add"}
  <2>1. /\ Pending # <<>> /\ Pending' = Tail(Pending)
        /\ Pending[1] = [mask |-> IF l_pc \in {"add", "epoll_add"} THEN "create" ELSE "delete",
                         name |-> l_dev]
    BY <1>1, PendingDone
  <2> QED
    BY <2>1, PendingType
<1>3. l_pc # "opendir" /\ l_pc' # "opendir" /\ l_pc' # "epoll_add"
  BY <1>1
<1>4. CASE d # l_dev
  <2>1. SlotsOf(d)' = SlotsOf(d)
    <3>1. CASE RemoveUnknown
      BY <3>1 DEF RemoveUnknown, SlotsOf, Available
    <3> QED
      BY <1>4, <3>1, SlotsOfOpen, SlotsOfRegistered, SlotsOfClosed
  <2>2. \A s \in SlotsOf(d) : g_his'[s].fd = g_his[s].fd /\ files'[g_his[s].fd] = files[g_his[s].fd]
    <3> SUFFICES ASSUME NEW s \in SlotsOf(d)
                 PROVE  g_his'[s].fd = g_his[s].fd /\ files'[g_his[s].fd] = files[g_his[s].fd]
      OBVIOUS
    <3>1. /\ s \in Available /\ s \in Slot /\ g_his[s].fd \in Fd /\ s \in Busy
          /\ g_his[s].device_name = d
      BY SlotFiles DEF Available, Busy, SlotsOf
    <3>2. CASE AddOpenFails
      BY <3>1, <3>2, SlotsOfOpen DEF AddOpenFails
    <3>3. CASE EpollAdd
      BY <3>1, <3>3 DEF EpollAdd, TypeOK
    <3>4. CASE RemoveUnknown
      BY <3>4 DEF RemoveUnknown
    <3>5. CASE CloseDevice
      <4>1. l_slot \in Busy /\ g_his[l_slot].device_name = l_dev
        BY <3>5 DEF CloseDevice, AtWork, Busy
      <4>2. s # l_slot
        BY <1>4, <3>1, <4>1
      <4>3. g_his[s].fd # g_his[l_slot].fd
        BY <3>1, <4>1, <4>2 DEF Owns
      <4> QED
        BY <3>1, <3>5, <4>2, <4>3 DEF CloseDevice, TypeOK
    <3> QED
      BY <3>2, <3>3, <3>4, <3>5
  <2>3. Live(d)' = Live(d)
    BY <2>1, <2>2, LiveKept
  <2> QED
    BY <1>1, <1>2, <1>3, <1>4, <2>1, <2>3, InStepOther
<1>5. CASE d = l_dev
  <2>1. /\ Alternate(Pending, d) /\ LastSays(Pending, d, nodes)
        /\ Opens(Pending, d) => SlotsOf(d) = {}
        /\ \A s, t \in SlotsOf(d) : s = t
    BY DEF InStep
  <2>2. /\ Pending[1].mask = "create" => SlotsOf(d) = {}
        /\ Own(Pending, d) = {1} => (Pending[1].mask = "create" <=> d \in nodes)
    BY <1>2, <1>5, <2>1, HeadOwn
  <2>3. CASE AddOpenFails
    <3>1. l_pc = "add" /\ l_dev \notin nodes
      BY <2>3 DEF AddOpenFails
    <3>2. SlotsOf(d)' = {}
      BY <1>2, <2>2, <2>3, <3>1, SlotsOfOpen
    <3> QED
      BY <1>1, <1>2, <1>3, <1>5, <3>1, <3>2, InStepOwn
  <2>4. CASE RemoveUnknown
    <3>1. l_pc = "remove" /\ SlotsOf(d) = {} /\ g_his' = g_his
      BY <1>5, <2>4 DEF RemoveUnknown
    <3>2. SlotsOf(d)' = {}
      BY <3>1 DEF SlotsOf, Available
    <3>3. Own(Pending, d) = {1} => d \notin nodes
      BY <1>2, <2>2, <3>1
    <3> QED
      BY <1>1, <1>2, <1>3, <1>5, <3>2, <3>3, InStepOwn
  <2>5. CASE CloseDevice
    <3>1. l_pc = "close"
      BY <2>5 DEF CloseDevice
    <3>2. SlotsOf(d)' = {}
      BY <1>5, <2>1, <2>5, SlotsOfClosed
    <3>3. Own(Pending, d) = {1} => d \notin nodes
      BY <1>2, <2>2, <3>1
    <3> QED
      BY <1>1, <1>2, <1>3, <1>5, <3>2, <3>3, InStepOwn
  <2>6. CASE EpollAdd
    <3>1. l_pc = "epoll_add" /\ files' = files /\ l_slot \in Slot
      BY <2>6 DEF EpollAdd, AtWork
    <3>2. SlotsOf(d)' = {l_slot}
      BY <1>2, <1>5, <2>2, <2>6, <3>1, SlotsOfRegistered
    <3>3. g_his'[l_slot].fd = g_his[l_slot].fd
      BY <2>6, <3>1 DEF EpollAdd, TypeOK
    <3>4. ASSUME Own(Pending, d) = {1} PROVE d \in nodes /\ Live(d)' = SlotsOf(d)'
      <4>1. d \in nodes
        BY <1>2, <2>2, <3>1, <3>4
      <4>2. files'[g_his'[l_slot].fd].kind = "device"
        BY <1>5, <3>1, <3>3, <3>4 DEF InStep
      <4>3. Live(d)' = {s \in SlotsOf(d)' : files'[g_his'[s].fd].kind = "device"}
        BY DEF Live, SlotsOf
      <4> QED
        BY <3>2, <4>1, <4>2, <4>3
    <3>5. Pending[1].mask = "create"
      BY <1>2, <3>1
    <3>6. SlotsOf(d)' # {} /\ \A s, t \in SlotsOf(d)' : s = t
      BY <3>2
    <3> QED
      BY <1>1, <1>2, <1>3, <1>5, <3>4, <3>5, <3>6, InStepOwn
  <2> QED
    BY <2>3, <2>4, <2>5, <2>6
<1> QED
  BY <1>4, <1>5

LEMMA HistoryGrows == TypeOK /\ [Next]_vars => (faulted => faulted') /\ missed \subseteq missed'
<1> SUFFICES ASSUME TypeOK, [Next]_vars PROVE (faulted => faulted') /\ missed \subseteq missed'
  OBVIOUS
<1> USE DEF kernel, table, scan, work, listener, reader, app, marks, history
<1>0. faulted \in BOOLEAN
  BY DEF TypeOK
<1>1. CASE Environment
  <2>1. ASSUME NEW mask, NEW d, Notify(mask, d)
        PROVE  (faulted => faulted') /\ missed \subseteq missed'
    BY <1>0, <2>1 DEF Notify
  <2>2. ASSUME NEW d \in Device, InputEvent(d)
        PROVE  (faulted => faulted') /\ missed \subseteq missed'
    BY <2>2 DEF InputEvent
  <2> QED
    BY <1>1, <2>1, <2>2 DEF Environment, Plug, Unplug
<1>2. CASE Listen
  <2>1. CASE \/ InotifyInitFails \/ AddWatchFails \/ AddOverflow \/ EpollAddFails
             \/ EpollDelFails \/ AddOpenFails
    BY <1>0, <2>1 DEF InotifyInitFails, AddWatchFails, AddOverflow, EpollAddFails, EpollDelFails,
                      AddOpenFails
  <2>2. ASSUME NEW d \in Device, ReadEntry(d) PROVE UNCHANGED <<faulted, missed>>
    BY <2>2 DEF ReadEntry
  <2>3. CASE \/ OpenDir \/ CloseDir \/ InotifyInit \/ AddWatch \/ ReadEvents \/ NextEvent
             \/ AddCallback \/ RemoveCallback \/ AddOpen \/ EpollAdd \/ RemoveUnknown
             \/ EpollDel \/ CloseDevice
    BY <2>3 DEF OpenDir, CloseDir, InotifyInit, AddWatch, ReadEvents, NextEvent, AddCallback,
                RemoveCallback, AddOpen, EpollAdd, RemoveUnknown, EpollDel, CloseDevice
  <2> QED
    BY <1>2, <2>1, <2>2, <2>3 DEF Listen
<1>3. CASE ReadInputs
  BY <1>3 DEF ReadInputs, EpollWait, ReadInput, BatchDone
<1>4. CASE UNCHANGED vars
  BY <1>4 DEF vars
<1> QED
  BY <1>1, <1>2, <1>3, <1>4 DEF Next

LEMMA InStepStep ==
  ASSUME TypeOK, AtWork, Owns, Phases, [Next]_vars,
         NEW d \in Device, InStep(d), ~faulted', d \notin missed'
  PROVE  InStep(d)'
<1> USE DEF kernel, table, scan, work, listener, reader, app, marks, history
<1>1. ASSUME NEW c \in Device, InputEvent(c) PROVE InStep(d)'
  <2>1. ASSUME NEW fd \in Fd PROVE files'[fd].kind = files[fd].kind
    <3>1. files[fd] \in File
      BY DEF TypeOK
    <3>2. files'[fd] = files[fd] \/ files'[fd] = [files[fd] EXCEPT !.input = TRUE]
      BY <1>1 DEF InputEvent
    <3> QED
      BY <3>1, <3>2, FileChanges
  <2>2. UNCHANGED <<nodes, watching, queue, g_his, l_pc, l_entries, l_seen, l_dev, l_slot, l_events>>
    BY <1>1 DEF InputEvent
  <2> QED
    BY <2>1, <2>2, InStepQuiet
<1>2. CASE ReadInputs
  <2>1. \A fd \in Fd : files'[fd].kind = files[fd].kind
    <3>1. ASSUME NEW fd \in Fd, ReadInput(fd), NEW g \in Fd PROVE files'[g].kind = files[g].kind
      <4>1. files[g] \in File
        BY DEF TypeOK
      <4>2. files'[g] = files[g] \/ files'[g] = [files[g] EXCEPT !.input = FALSE]
        BY <3>1 DEF ReadInput, TypeOK
      <4> QED
        BY <4>1, <4>2, FileChanges
    <3> QED
      BY <1>2, <3>1 DEF ReadInputs, EpollWait, BatchDone
  <2>2. UNCHANGED <<nodes, watching, queue, g_his, l_pc, l_entries, l_seen, l_dev, l_slot, l_events>>
    BY <1>2 DEF ReadInputs, EpollWait, ReadInput, BatchDone
  <2> QED
    BY <2>1, <2>2, InStepQuiet
<1>3. CASE UNCHANGED vars
  BY <1>3, InStepQuiet DEF vars
<1>4. ASSUME NEW c \in Device, Plug(c) \/ Unplug(c) PROVE InStep(d)'
  BY <1>4, InStepChange
<1>5. CASE InotifyInitFails \/ AddWatchFails \/ AddOverflow \/ EpollAddFails \/ EpollDelFails
  BY <1>5 DEF InotifyInitFails, AddWatchFails, AddOverflow, EpollAddFails, EpollDelFails
<1>6. ASSUME OpenDir \/ \E c \in Device : ReadEntry(c) PROVE InStep(d)'
  BY <1>6, InStepScan
<1>7. CASE \/ CloseDir \/ InotifyInit \/ AddWatch \/ ReadEvents \/ NextEvent
           \/ AddCallback \/ RemoveCallback \/ EpollDel
  BY <1>7, InStepMove
<1>8. CASE AddOpen
  BY <1>8, InStepOpened
<1>9. CASE AddOpenFails \/ EpollAdd \/ RemoveUnknown \/ CloseDevice
  BY <1>9, InStepDone
<1> QED
  BY <1>1, <1>2, <1>3, <1>4, <1>5, <1>6, <1>7, <1>8, <1>9 DEF Next, Environment, Listen

-----------------------------------------------------------------------------
LEMMA Start == Init => IInv
<1> SUFFICES ASSUME Init PROVE IInv
  OBVIOUS
<1> USE DEF Init
<1>1. TypeOK
  <2>1. <<>> \in Seq(Event) /\ Len(<<>>) = 0 /\ Len(<<>>) <= QueueSize
    BY EmptySeq, SizeAssumption
  <2>2. files \in [Fd -> File] /\ told \in [Device -> Int]
    BY FileFacts
  <2>3. 0 \in 0..MaxPlugs /\ 0 \in 0..MaxScans
    BY SizeAssumption
  <2> QED
    BY <2>1, <2>2, <2>3 DEF TypeOK, FreeSlot, ListenerPc
<1>2. Available = {} /\ InHand = {}
  BY DEF Available, InHand, FreeSlot
<1>3. AtWork /\ BatchReady /\ BlocksOnlyOnReuse /\ Phases
  BY DEF AtWork, BatchReady, BlocksOnlyOnReuse, Phases
<1>4. SlotsOwnFiles
  BY <1>2 DEF SlotsOwnFiles, Closed
<1>5. \A d : SlotsOf(d) = {} /\ Live(d) = {}
  BY <1>2 DEF SlotsOf, Live
<1>6. AppInformed
  BY <1>5, FS_EmptySet DEF AppInformed
<1>7. Pending = <<>>
  <2>1. <<>> \o <<>> = <<>>
    BY <1>1, PendingType, <1>3, ConcatEmptySeq DEF TypeOK
  <2> QED
    BY <2>1 DEF Pending, InWork
<1>8. ASSUME NEW d \in Device PROVE InStep(d)
  <2>1. Own(Pending, d) = {}
    BY <1>7 DEF Own
  <2>2. Alternate(Pending, d) /\ LastSays(Pending, d, nodes) /\ ~ Opens(Pending, d)
    BY <2>1 DEF Alternate, LastSays, Opens
  <2>3. Unscanned = Device
    BY DEF Unscanned
  <2> QED
    BY <1>5, <2>1, <2>2, <2>3 DEF InStep
<1> QED
  BY <1>1, <1>3, <1>4, <1>6, <1>8 DEF IInv

LEMMA Step == IInv /\ [Next]_vars => IInv'
<1> SUFFICES ASSUME IInv, [Next]_vars PROVE IInv'
  OBVIOUS
<1>1. /\ TypeOK /\ AtWork /\ SlotsOwnFiles /\ AppInformed /\ BatchReady
      /\ BlocksOnlyOnReuse /\ Phases /\ Owns
  BY OwnsFromSlots DEF IInv
<1>2. TypeOK' /\ AtWork' /\ Phases' /\ AppInformed' /\ BatchReady' /\ BlocksOnlyOnReuse'
  BY <1>1, TypeStep, AtWorkStep, PhasesStep, AppStep, BatchStep
<1>3. SlotsOwnFiles'
  BY <1>1, OwnsStep, SlotsFromOwnsNext
<1>4. ASSUME ~faulted', NEW d \in Device \ missed' PROVE InStep(d)'
  <2>1. ~faulted /\ d \in Device \ missed
    BY <1>1, <1>4, HistoryGrows
  <2>2. InStep(d)
    BY <2>1 DEF IInv
  <2> QED
    BY <1>1, <1>4, <2>1, <2>2, InStepStep
<1> QED
  BY <1>2, <1>3, <1>4 DEF IInv

(* The invariant holds, for any devices, any numbers of slots and          *)
(* descriptors, any sizes of the inotify queue and of its reads, and       *)
(* whatever fails (input_reader.c:46-216).                                 *)
THEOREM Invariant == Spec => []IInv
BY Start, Step, PTL DEF Spec

(* No device descriptor leaks, and none stays in epoll without its slot,   *)
(* whatever fails in add_his or remove_his (input_reader.c:60-95).         *)
THEOREM OwnFiles == Spec => []SlotsOwnFiles
<1>1. IInv => SlotsOwnFiles
  BY DEF IInv
<1> QED
  BY <1>1, Invariant, PTL

(* The application is told of exactly the devices in the slots             *)
(* (input_reader.c:60-95, 117-129, 187-205).                               *)
THEOREM Informed == Spec => []AppInformed
<1>1. IInv => AppInformed
  BY DEF IInv
<1> QED
  BY <1>1, Invariant, PTL

(* A read only blocks on a descriptor that was closed after epoll_wait     *)
(* returned it (input_reader.c:230-245).                                   *)
THEOREM BlocksOnReuse == Spec => []BlocksOnlyOnReuse
<1>1. IInv => BlocksOnlyOnReuse
  BY DEF IInv
<1> QED
  BY <1>1, Invariant, PTL

(* No device is ever in two slots at once, so none is listened to twice,   *)
(* as long as no call fails and no event is lost (input_reader.c:143-205). *)
THEOREM Once == Spec => []LiveOnce
<1>1. ASSUME IInv PROVE LiveOnce
  <2> SUFFICES ASSUME ~faulted, NEW d \in Device \ missed PROVE Cardinality(Live(d)) <= 1
    BY DEF LiveOnce
  <2>1. \A s, t \in SlotsOf(d) : s = t
    BY <1>1 DEF IInv, InStep
  <2>2. \A s, t \in Live(d) : s = t
    BY <2>1 DEF Live, SlotsOf
  <2>3. CASE Live(d) = {}
    BY <2>3, FS_EmptySet
  <2>4. CASE Live(d) # {}
    <3>1. PICK s \in Live(d) : TRUE
      BY <2>4
    <3>2. Live(d) = {s}
      BY <2>2, <3>1
    <3>3. Cardinality(Live(d)) = 1
      BY <3>2, FS_Singleton
    <3> QED
      BY <3>3
  <2> QED
    BY <2>3, <2>4
<1> QED
  BY <1>1, Invariant, PTL

(* Once the listener has caught up, the devices in the slots are those of  *)
(* the directory, each once (input_reader.c:108-205).                      *)
THEOREM SettledDown == Spec => []Settled
<1>1. ASSUME IInv PROVE Settled
  <2> SUFFICES ASSUME CaughtUp, ~faulted, NEW d \in Device \ missed
               PROVE  /\ Cardinality(SlotsOf(d)) = IF d \in nodes THEN 1 ELSE 0
                      /\ Live(d) = SlotsOf(d)
    BY DEF Settled
  <2>1. InStep(d) /\ TypeOK /\ AtWork /\ Phases
    BY <1>1 DEF IInv
  <2>2. queue = <<>> /\ l_events = <<>> /\ InWork = <<>> /\ Unscanned = {}
    BY <2>1 DEF CaughtUp, Phases, InWork, Unscanned
  <2>3. Pending = <<>>
    <3>1. <<>> \o <<>> = <<>>
      BY <2>1, <2>2, PendingType, ConcatEmptySeq
    <3> QED
      BY <2>2, <3>1 DEF Pending
  <2>4. Own(Pending, d) = {}
    BY <2>3 DEF Own
  <2>5. /\ \A s, t \in SlotsOf(d) : s = t
        /\ IF d \in nodes THEN SlotsOf(d) # {} /\ Live(d) = SlotsOf(d) ELSE SlotsOf(d) = {}
    BY <2>1, <2>2, <2>4 DEF InStep
  <2>6. CASE d \in nodes
    <3>1. PICK s \in SlotsOf(d) : TRUE
      BY <2>5, <2>6
    <3>2. SlotsOf(d) = {s}
      BY <2>5, <3>1
    <3> QED
      BY <2>5, <2>6, <3>2, FS_Singleton
  <2>7. CASE d \notin nodes
    <3>1. SlotsOf(d) = {} /\ Live(d) = {}
      BY <2>5, <2>7 DEF Live, SlotsOf
    <3> QED
      BY <2>7, <3>1, FS_EmptySet
  <2> QED
    BY <2>6, <2>7
<1> QED
  BY <1>1, Invariant, PTL

-----------------------------------------------------------------------------
(* A missed device stays unheard.                                          *)

LEMMA UnheardKept ==
  ASSUME NEW d \in Device, Unheard(d), d \in nodes', watching' = watching,
         Own(Pending', d) = {},
         \A fd \in Fd : files'[fd].kind = "device" =>
                          \/ files[fd].kind = "device" /\ files'[fd].device = files[fd].device
                          \/ files'[fd].device # d
  PROVE  Unheard(d)'
BY DEF Unheard

(* No event of it is being handled.                                        *)
LEMMA OthersInWork ==
  ASSUME TypeOK, AtWork, NEW d \in Device, Own(Pending, d) = {},
         l_pc \in {"add", "epoll_add", "remove", "close"}
  PROVE  l_dev # d
<1> DEFINE e == [mask |-> IF l_pc \in {"add", "epoll_add"} THEN "create" ELSE "delete", name |-> l_dev]
<1>1. e \in Event /\ e.name = l_dev
  BY DEF AtWork, Event
<1>2. Pending = <<e>> \o (l_events \o queue)
  BY DEF Pending, InWork
<1> HIDE DEF e
<1>3. Pending \in Seq(Event) /\ Pending # <<>> /\ Pending[1] = e
  BY <1>1, <1>2, PendingType, TailOfConcat
<1>4. 1 \in Own(Pending, d) <=> Pending[1].name = d
  BY <1>3, OwnTail
<1> QED
  BY <1>1, <1>3, <1>4

(* Another device comes or goes.                                           *)
LEMMA UnheardChange ==
  ASSUME TypeOK, AtWork, NEW d \in Device, Unheard(d), d \in nodes',
         NEW c \in Device, Plug(c) \/ Unplug(c)
  PROVE  Unheard(d)'
<1> USE DEF kernel, table, scan, work, listener, reader, app, marks, history
<1>1. c # d
  BY DEF Plug, Unplug, Unheard
<1>2. PICK mask \in {"create", "delete"} : Notify(mask, c)
  BY DEF Plug, Unplug
<1>3. /\ UNCHANGED <<l_pc, l_dev, l_events, watching>>
      /\ InWork' = InWork
  BY DEF Plug, Unplug, InWork
<1> DEFINE e == [mask |-> mask, name |-> c]
<1>4. e \in Event /\ e.name = c
  BY DEF Event
<1>5. queue' = queue \/ queue' = Append(queue, e)
  BY <1>2 DEF Notify
<1> HIDE DEF e
<1>6. Own(Pending', d) = {}
  <2>1. CASE queue' = queue
    BY <1>3, <2>1 DEF Pending, Unheard
  <2>2. CASE queue' = Append(queue, e)
    <3>1. Pending' = Append(Pending, e)
      BY <1>3, <1>4, <2>2, PendingGrows
    <3>2. Own(Append(Pending, e), d) = Own(Pending, d)
      BY <1>1, <1>4, PendingType, SameAppend
    <3> QED
      BY <3>1, <3>2 DEF Unheard
  <2> QED
    BY <1>5, <2>1, <2>2
<1>7. \A fd \in Fd : files'[fd].kind = "device" =>
                       files[fd].kind = "device" /\ files'[fd].device = files[fd].device
  <2>1. CASE Plug(c)
    BY <2>1 DEF Plug
  <2>2. CASE Unplug(c)
    <3> SUFFICES ASSUME NEW fd \in Fd, files'[fd].kind = "device" PROVE files'[fd] = files[fd]
      OBVIOUS
    <3>1. files[fd] \in File
      BY DEF TypeOK
    <3>2. files'[fd] = files[fd] \/ files'[fd] = [files[fd] EXCEPT !.kind = "gone", !.input = FALSE]
      BY <2>2 DEF Unplug
    <3> QED
      BY <3>1, <3>2, FileChanges
  <2> QED
    BY <2>1, <2>2
<1> QED
  BY <1>3, <1>6, <1>7, UnheardKept

(* The listener handles an event, which is one of another device.          *)
LEMMA UnheardWork ==
  ASSUME TypeOK, AtWork, NEW d \in Device, Unheard(d),
         \/ AddOverflow \/ AddOpen \/ AddOpenFails \/ EpollAdd \/ EpollAddFails
         \/ RemoveUnknown \/ EpollDel \/ EpollDelFails \/ CloseDevice
  PROVE  Unheard(d)'
<1> USE DEF kernel, table, scan, work, listener, reader, app, marks, history
<1>1. /\ UNCHANGED <<nodes, watching, l_dev, l_events, queue>>
      /\ l_pc \in {"add", "epoll_add", "remove", "close"}
  BY DEF AddOverflow, AddOpen, AddOpenFails, EpollAdd, EpollAddFails, RemoveUnknown, EpollDel,
         EpollDelFails, CloseDevice
<1>2. l_dev # d
  BY <1>1, OthersInWork DEF Unheard
<1>3. Own(Pending', d) = {}
  <2>1. CASE AddOpen \/ EpollDel
    <3>1. InWork' = InWork
      BY <2>1 DEF AddOpen, EpollDel, InWork
    <3> QED
      BY <1>1, <3>1 DEF Pending, Unheard
  <2>2. CASE ~(AddOpen \/ EpollDel)
    <3>1. l_pc' \in {"add_callback", "remove_callback", "scan", "events"}
      BY <2>2 DEF AddOverflow, AddOpenFails, EpollAdd, EpollAddFails, RemoveUnknown,
                  EpollDelFails, CloseDevice, TypeOK
    <3>2. Pending # <<>> /\ Pending' = Tail(Pending) /\ Pending \in Seq(Event)
      BY <1>1, <3>1, PendingDone, PendingType
    <3>3. \A k \in Own(Tail(Pending), d) : k + 1 \in Own(Pending, d)
      BY <3>2, OwnTail
    <3> QED
      BY <3>2, <3>3 DEF Unheard
  <2> QED
    BY <2>1, <2>2
<1>4. ASSUME NEW fd \in Fd, files'[fd].kind = "device"
      PROVE  files'[fd] = files[fd] \/ files'[fd].device # d
  <2>1. CASE AddOpen
    BY <1>2, <2>1, FileFacts DEF AddOpen, TypeOK
  <2>2. CASE EpollAddFails \/ CloseDevice
    BY <1>4, <2>2, FileFacts DEF EpollAddFails, CloseDevice, TypeOK
  <2>3. CASE ~(AddOpen \/ EpollAddFails \/ CloseDevice)
    BY <2>3 DEF AddOverflow, AddOpenFails, EpollAdd, RemoveUnknown, EpollDel, EpollDelFails
  <2> QED
    BY <2>1, <2>2, <2>3
<1> QED
  BY <1>1, <1>3, <1>4, UnheardKept DEF Unheard

LEMMA UnheardStep ==
  ASSUME TypeOK, AtWork, Phases, [Next]_vars, NEW d \in Device, Unheard(d), d \in nodes'
  PROVE  Unheard(d)'
<1> USE DEF kernel, table, scan, work, listener, reader, app, marks, history
<1>1. ASSUME NEW c \in Device, InputEvent(c) PROVE Unheard(d)'
  <2>1. ASSUME NEW fd \in Fd PROVE files'[fd].kind = files[fd].kind /\ files'[fd].device = files[fd].device
    <3>1. files[fd] \in File
      BY DEF TypeOK
    <3>2. files'[fd] = files[fd] \/ files'[fd] = [files[fd] EXCEPT !.input = TRUE]
      BY <1>1 DEF InputEvent
    <3> QED
      BY <3>1, <3>2, FileChanges
  <2>2. watching' = watching /\ Pending' = Pending
    BY <1>1 DEF InputEvent, Pending, InWork
  <2> QED
    BY <2>1, <2>2, UnheardKept DEF Unheard
<1>2. CASE ReadInputs
  <2>1. ASSUME NEW g \in Fd PROVE files'[g].kind = files[g].kind /\ files'[g].device = files[g].device
    <3>1. files[g] \in File
      BY DEF TypeOK
    <3>2. files'[g] = files[g] \/ files'[g] = [files[g] EXCEPT !.input = FALSE]
      BY <1>2 DEF ReadInputs, EpollWait, ReadInput, BatchDone, TypeOK
    <3> QED
      BY <3>1, <3>2, FileChanges
  <2>2. watching' = watching /\ Pending' = Pending
    BY <1>2 DEF ReadInputs, EpollWait, ReadInput, BatchDone, Pending, InWork
  <2> QED
    BY <2>1, <2>2, UnheardKept DEF Unheard
<1>3. CASE UNCHANGED vars
  BY <1>3 DEF vars, Unheard, Pending, InWork
<1>4. ASSUME NEW c \in Device, Plug(c) \/ Unplug(c) PROVE Unheard(d)'
  BY <1>4, UnheardChange
<1>5. CASE \/ OpenDir \/ (\E c \in Device : ReadEntry(c)) \/ CloseDir
           \/ InotifyInit \/ InotifyInitFails \/ AddWatch \/ AddWatchFails
  BY <1>5 DEF Phases, Unheard, OpenDir, ReadEntry, CloseDir, InotifyInit, InotifyInitFails,
              AddWatch, AddWatchFails
<1>6. CASE ReadEvents \/ NextEvent \/ AddCallback \/ RemoveCallback
  <2>1. UNCHANGED <<watching, files>>
    BY <1>6 DEF ReadEvents, NextEvent, AddCallback, RemoveCallback
  <2>2. CASE ReadEvents \/ NextEvent
    BY <2>1, <2>2, PendingMoves, UnheardKept DEF Unheard
  <2>3. CASE AddCallback \/ RemoveCallback
    <3>1. UNCHANGED <<l_events, queue>> /\ InWork' = <<>> /\ InWork = <<>>
      BY <2>3 DEF AddCallback, RemoveCallback, InWork, TypeOK
    <3> QED
      BY <2>1, <3>1, UnheardKept DEF Pending, Unheard
  <2> QED
    BY <1>6, <2>2, <2>3
<1>7. CASE \/ AddOverflow \/ AddOpen \/ AddOpenFails \/ EpollAdd \/ EpollAddFails
           \/ RemoveUnknown \/ EpollDel \/ EpollDelFails \/ CloseDevice
  BY <1>7, UnheardWork
<1> QED
  BY <1>1, <1>2, <1>3, <1>4, <1>5, <1>6, <1>7 DEF Next, Environment, Listen

(* The listener that waits for events and has missed a device has no       *)
(* descriptor for it (input_reader.c:149-156).                             *)
THEOREM Missed == Spec => []MissedIsUnheard
<1>1. ASSUME IInv PROVE MissedIsUnheard
  <2> SUFFICES ASSUME CaughtUp, NEW d \in nodes, Live(d) = {} PROVE Unheard(d)
    BY DEF MissedIsUnheard
  <2>1. TypeOK /\ AtWork /\ Phases /\ Owns /\ d \in Device
    BY <1>1, OwnsFromSlots DEF IInv, TypeOK
  <2>2. queue = <<>> /\ l_events = <<>> /\ InWork = <<>> /\ InHand = {} /\ watching
    BY <2>1 DEF CaughtUp, Phases, InWork, InHand
  <2>3. Own(Pending, d) = {}
    <3>1. <<>> \o <<>> = <<>>
      BY <2>1, <2>2, PendingType, ConcatEmptySeq
    <3> QED
      BY <2>2, <3>1 DEF Pending, Own
  <2>4. ASSUME NEW fd \in Fd, files[fd].kind = "device", files[fd].device = d PROVE FALSE
    <3>1. PICK s \in Available : g_his[s].fd = fd /\ g_his[s].device_name = d
      BY <2>1, <2>2, <2>4 DEF Owns, Busy, IsOpen
    <3>2. s \in Live(d)
      BY <2>4, <3>1 DEF Live
    <3> QED
      BY <3>2
  <2> QED
    BY <2>2, <2>3, <2>4 DEF Unheard
<1> QED
  BY <1>1, Invariant, PTL

(* What the finding of the run input_missed shows for one instance: a      *)
(* device that was missed is not heard until it is unplugged, for any      *)
(* number of devices and whatever happens to the others.                   *)
THEOREM MissedForGood == Spec => UnheardStays
<1>1. IInv /\ [Next]_vars => \A d \in Device : Unheard(d) /\ d \in nodes' => Unheard(d)'
  BY UnheardStep DEF IInv
<1> DEFINE Stays == \A d \in Device : Unheard(d) /\ d \in nodes' => Unheard(d)'
<1>2. IInv /\ [Next]_vars => [Stays]_vars
  BY <1>1
<1> HIDE DEF Stays
<1>3. Spec => [][Stays]_vars
  BY <1>2, Invariant, PTL DEF Spec
<1> QED
  BY <1>3 DEF UnheardStays, Stays
=============================================================================
