----------------------------- MODULE DemoProofs -----------------------------
(***************************************************************************)
(* Proofs about Demo, for any number of frames, any width of the unsigned  *)
(* integers and any range of positions and colours.                        *)
(***************************************************************************)
EXTENDS Demo, TLAPS

-----------------------------------------------------------------------------
(* Unsigned arithmetic, one step below 0 and up to the largest value.      *)
LEMMA Unsigned ==
  ASSUME NEW w \in Nat \ {0}, NEW x \in Int
  PROVE  /\ x % w \in 0..(w - 1)
         /\ 0 <= x /\ x < w => x % w = x
         /\ -w <= x /\ x < 0 => x % w = x + w
OBVIOUS

(* Clamping the unsigned position is clamping the signed one, but for the  *)
(* positions below 0, which come out at the other end.                     *)
LEMMA ClampedMovement ==
  ASSUME NEW pos \in 0..MaxPos, NEW v \in Movement
  PROVE  Clamped((pos + v) % WordSize) = Reference(pos, v)
<1> DEFINE half == WordSize \div 2
<1>1. WordSize \in Nat \ {0} /\ half \in Nat /\ WordSize = 2 * half /\ MaxPos \in Nat \ {0}
      /\ MaxPos < half /\ v \in Int /\ -half <= v /\ v < half
  BY DemoAssumption
<1>2. pos + v \in Int /\ -WordSize <= pos + v /\ pos + v < WordSize
  BY <1>1
<1>3. CASE pos + v < 0
  <2>1. (pos + v) % WordSize = pos + v + WordSize
    BY <1>1, <1>2, <1>3, Unsigned
  <2> QED
    BY <1>1, <1>2, <1>3, <2>1 DEF Clamped, Reference
<1>4. CASE pos + v >= 0
  <2>1. (pos + v) % WordSize = pos + v
    BY <1>1, <1>2, <1>4, Unsigned
  <2> QED
    BY <1>1, <1>2, <1>4, <2>1 DEF Clamped, Reference
<1> QED
  BY <1>2, <1>3, <1>4

-----------------------------------------------------------------------------
(* What most actions leave alone.                                          *)
LEMMA Untouched ==
  /\ Main \/ Move \/ Clamp \/ Consume \/ Undefined => UNCHANGED colour
  /\ Main \/ Take \/ DrawFb \/ Consume \/ Undefined => UNCHANGED event
  /\ DrmStep \/ QueryFails \/ GotResources \/ GetConnector \/ GotConnector \/ NoConnector
     \/ CreateFb \/ StartMBuffer \/ Take \/ DrawFb \/ Consume => UNCHANGED mouse
  /\ Move \/ Clamp \/ Take \/ DrawFb \/ Consume => UNCHANGED setup
  /\ DrmStep \/ QueryFails \/ GotResources \/ GetConnector \/ GotConnector \/ NoConnector
     \/ StartInput \/ CreateFb \/ Move \/ Clamp \/ Undefined => UNCHANGED display
<1> USE DEF setup, pipeline, display, mouse, colour
<1>1. DrawFb => UNCHANGED <<setup, mouse>>
  <2> SUFFICES ASSUME NEW f \in Frame,
                      TestTrend(f) \/ LoadColor(f) \/ StoreColor(f) \/ CheckColor(f) \/ Turn(f)
                      \/ Paint(f)
               PROVE  UNCHANGED <<setup, mouse>>
    BY DEF DrawFb
  <2> QED
    BY DEF TestTrend, LoadColor, StoreColor, CheckColor, Turn, Paint, Goto
<1>2. Consume => UNCHANGED <<setup, mouse, colour>>
  BY DEF Consume, Show, SetCrtc, Return
<1>3. Take => UNCHANGED <<setup, mouse>>
  BY DEF Take
<1>4. Move \/ Clamp => UNCHANGED <<setup, display, colour>>
  BY DEF Move, Clamp
<1>5. Main => UNCHANGED <<event, colour>>
  BY DEF Main, DrmStep, QueryFails, GotResources, GetConnector, GotConnector, NoConnector,
         StartInput, CreateFb, StartMBuffer
<1>6. DrmStep \/ QueryFails \/ GotResources \/ GetConnector \/ GotConnector \/ NoConnector
      \/ StartInput \/ CreateFb => UNCHANGED display
  BY DEF DrmStep, QueryFails, GotResources, GetConnector, GotConnector, NoConnector,
         StartInput, CreateFb
<1>7. DrmStep \/ QueryFails \/ GotResources \/ GetConnector \/ GotConnector \/ NoConnector
      \/ CreateFb \/ StartMBuffer => UNCHANGED mouse
  BY DEF DrmStep, QueryFails, GotResources, GetConnector, GotConnector, NoConnector,
         CreateFb, StartMBuffer
<1>8. Undefined => UNCHANGED <<event, colour, display>>
  BY DEF Undefined
<1> QED
  BY <1>1, <1>2, <1>3, <1>4, <1>5, <1>6, <1>7, <1>8

-----------------------------------------------------------------------------
(* The mouse.                                                              *)
LEMMA MouseInvStep == TypeOK /\ MouseInv /\ [Next]_vars => MouseInv'
<1> SUFFICES ASSUME TypeOK, MouseInv, [Next]_vars PROVE MouseInv'
  OBVIOUS
<1>0. WordSize \in Nat \ {0} /\ MaxPos \in Nat \ {0}
  BY DemoAssumption
<1>1. CASE UNCHANGED vars
  BY <1>1 DEF vars, mouse, MouseInv
<1>2. CASE DrmStep \/ QueryFails \/ GotResources \/ GetConnector \/ GotConnector \/ NoConnector
           \/ CreateFb \/ StartMBuffer
  <2>1. UNCHANGED mouse
    BY <1>2, Untouched
  <2>2. main_pc' \in {"resources", "loop", "connector"}
          => main_pc \in {"resources", "loop", "connector"}
    BY <1>2 DEF DrmStep, QueryFails, GotResources, GetConnector, GotConnector, NoConnector,
                CreateFb, StartMBuffer, Asking
  <2> QED
    BY <2>1, <2>2 DEF MouseInv, mouse
<1>3. CASE StartInput
  <2>1. event = NoEvent /\ event' = NoEvent /\ g_mp' = [a \in Axis |-> MaxPos \div 2]
        /\ main_pc' = "create"
    BY <1>3 DEF StartInput, MouseInv
  <2>2. MaxPos \div 2 \in 0..MaxPos
    BY <1>0
  <2> QED
    BY <2>1, <2>2 DEF MouseInv
<1>4. CASE Move
  <2>1. PICK a \in Axis, v \in Movement :
          /\ event' = [axis |-> a, value |-> v, from |-> g_mp[a]]
          /\ g_mp' = [g_mp EXCEPT ![a] = (@ + v) % WordSize]
    BY <1>4 DEF Move
  <2>2. event = NoEvent /\ \A b \in Axis : g_mp[b] \in 0..MaxPos
    BY <1>4 DEF Move, MouseInv
  <2>3. main_pc' \notin {"resources", "loop", "connector"}
    BY <1>4 DEF Move
  <2>4. event' # NoEvent
    BY <2>1, DemoAssumption DEF NoEvent
  <2> QED
    BY <2>1, <2>2, <2>3, <2>4 DEF MouseInv, TypeOK
<1>5. CASE Clamp
  <2>1. \A x \in Word : Clamped(x) \in 0..MaxPos
    BY <1>0 DEF Clamped, Word
  <2>2. event # NoEvent /\ g_mp[event.axis] \in Word /\ event.axis \in Axis
    BY <1>5 DEF Clamp, TypeOK
  <2> QED
    BY <1>5, <2>1, <2>2 DEF Clamp, MouseInv, TypeOK
<1>6. CASE Take \/ DrawFb \/ Consume
  <2>1. UNCHANGED mouse
    BY <1>6, Untouched
  <2>2. main_pc = "running" /\ main_pc' \in {"running", "crashed"}
    BY <1>6 DEF Take, DrawFb, Consume, TestTrend, LoadColor, StoreColor, CheckColor, Turn, Paint,
                Goto, Show, SetCrtc, Return
  <2> QED
    BY <2>1, <2>2 DEF MouseInv, mouse
<1>7. CASE Undefined
  BY <1>7 DEF Undefined, MouseInv, mouse
<1> QED
  BY <1>1, <1>2, <1>3, <1>4, <1>5, <1>6, <1>7 DEF Next, Main

-----------------------------------------------------------------------------
(* The colour.                                                             *)
LEMMA ColourInvStep == TypeOK /\ ColourInv /\ [Next]_vars => ColourInv'
<1> SUFFICES ASSUME TypeOK, ColourInv, [Next]_vars PROVE ColourInv'
  OBVIOUS
<1>0. WordSize \in Nat /\ Low \in Nat \ {0} /\ High \in Nat /\ Low < High /\ High < WordSize
      /\ g_color \in 0..(WordSize - 1) /\ trend_flag \in {0, 1}
      /\ \A f \in Frame : draw[f].up \in BOOLEAN /\ draw[f].r \in 0..(WordSize - 1)
  BY DemoAssumption DEF TypeOK, Word
<1>1. CASE UNCHANGED vars \/ Main \/ Move \/ Clamp \/ Consume \/ Undefined
  <2>1. UNCHANGED colour
    BY <1>1, Untouched DEF vars
  <2> QED
    BY <2>1 DEF colour, ColourInv, Stepping, BeforeStep, AtTurn
<1>2. CASE Take
  <2>1. alone' => alone /\ Stepping = {}
    BY <1>2 DEF Take
  <2>2. Stepping' \subseteq Stepping \cup {Head(free)}
    BY <1>2 DEF Take, Stepping, TypeOK
  <2>3. Head(free) \in Frame => draw'[Head(free)].pc = "test"
    BY <1>2 DEF Take, TypeOK
  <2>4. g_color' = g_color /\ trend_flag' = trend_flag
    BY <1>2 DEF Take
  <2> QED
    BY <2>1, <2>2, <2>3, <2>4 DEF ColourInv, BeforeStep, Stepping
<1>3. ASSUME NEW f \in Frame,
             TestTrend(f) \/ LoadColor(f) \/ StoreColor(f) \/ CheckColor(f) \/ Turn(f), alone'
      PROVE  /\ \A g \in Frame \ {f} : g \notin Stepping /\ draw'[g] = draw[g]
             /\ f \in Stepping
             /\ Stepping' = IF draw'[f].pc = "paint" THEN {} ELSE {f}
             /\ alone
  <2>1. alone /\ draw[f].pc \in {"test", "load", "store", "check", "turn"}
        /\ \A g \in Frame \ {f} : draw'[g] = draw[g]
    BY <1>3 DEF TestTrend, LoadColor, StoreColor, CheckColor, Turn, Goto, TypeOK
  <2>2. f \in Stepping /\ \A g \in Frame \ {f} : g \notin Stepping
    BY <2>1 DEF Stepping, ColourInv
  <2>3. draw'[f].pc \in {"load", "store", "check", "turn", "paint"}
    <3>1. CASE TestTrend(f)
      BY <3>1 DEF TestTrend, Goto, TypeOK
    <3>2. CASE LoadColor(f)
      BY <3>2 DEF LoadColor, Goto, TypeOK
    <3>3. CASE StoreColor(f)
      BY <3>3 DEF StoreColor, Goto, TypeOK
    <3>4. CASE CheckColor(f)
      <4>1. draw'[f] = IF AtTurn(draw[f].up) THEN [draw[f] EXCEPT !.pc = "turn"]
                       ELSE [pc |-> "paint", up |-> TRUE, r |-> 0]
        BY <3>4 DEF CheckColor, Goto, TypeOK
      <4>2. CASE AtTurn(draw[f].up)
        BY <4>1, <4>2 DEF TypeOK
      <4>3. CASE ~AtTurn(draw[f].up)
        BY <4>1, <4>3 DEF TypeOK
      <4> QED
        BY <4>2, <4>3
    <3>5. CASE Turn(f)
      BY <3>5 DEF Turn, Goto, TypeOK
    <3> QED
      BY <1>3, <3>1, <3>2, <3>3, <3>4, <3>5
  <2> QED
    BY <2>1, <2>2, <2>3 DEF Stepping
<1>4. ASSUME NEW f \in Frame, TestTrend(f) PROVE ColourInv'
  <2> SUFFICES ASSUME alone' PROVE ColourInv'
    BY DEF ColourInv
  <2>1. draw[f].pc = "test" /\ BeforeStep
    BY <1>3, <1>4 DEF TestTrend, Goto, ColourInv
  <2>2. draw'[f].pc = "load" /\ draw'[f].up = (trend_flag = 0)
        /\ g_color' = g_color /\ trend_flag' = trend_flag
    BY <1>4 DEF TestTrend, Goto, TypeOK
  <2> QED
    BY <1>3, <1>4, <2>1, <2>2 DEF ColourInv, BeforeStep
<1>5. ASSUME NEW f \in Frame, LoadColor(f) PROVE ColourInv'
  <2> SUFFICES ASSUME alone' PROVE ColourInv'
    BY DEF ColourInv
  <2>1. draw[f].pc = "load" /\ draw[f].up = (trend_flag = 0) /\ BeforeStep
    BY <1>3, <1>5 DEF LoadColor, Goto, ColourInv
  <2>2. draw'[f].pc = "store" /\ draw'[f].up = draw[f].up /\ draw'[f].r = g_color
        /\ g_color' = g_color /\ trend_flag' = trend_flag
    BY <1>5 DEF LoadColor, Goto, TypeOK
  <2> QED
    BY <1>3, <1>5, <2>1, <2>2 DEF ColourInv, BeforeStep
<1>6. ASSUME NEW f \in Frame, StoreColor(f) PROVE ColourInv'
  <2> SUFFICES ASSUME alone' PROVE ColourInv'
    BY DEF ColourInv
  <2>1. draw[f].pc = "store" /\ draw[f].up = (trend_flag = 0) /\ draw[f].r = g_color /\ BeforeStep
    BY <1>3, <1>6 DEF StoreColor, Goto, ColourInv
  <2>2. g_color' = IF trend_flag = 0 THEN g_color + 1 ELSE g_color - 1
    <3>1. CASE trend_flag = 0
      <4>0. WordSize \in Nat \ {0} /\ g_color + 1 \in Int
            /\ 0 <= g_color + 1 /\ g_color + 1 < WordSize
        BY <1>0, <2>1, <3>1 DEF BeforeStep
      <4>1. (g_color + 1) % WordSize = g_color + 1
        BY <4>0, Unsigned
      <4> QED
        BY <1>6, <2>1, <3>1, <4>1 DEF StoreColor
    <3>2. CASE trend_flag # 0
      <4>0. WordSize \in Nat \ {0} /\ g_color - 1 \in Int
            /\ 0 <= g_color - 1 /\ g_color - 1 < WordSize
        BY <1>0, <2>1, <3>2 DEF BeforeStep
      <4>1. (g_color - 1) % WordSize = g_color - 1
        BY <4>0, Unsigned
      <4> QED
        BY <1>6, <2>1, <3>2, <4>1 DEF StoreColor
    <3> QED
      BY <3>1, <3>2
  <2>3. trend_flag' = trend_flag /\ draw'[f].pc = "check" /\ draw'[f].up = draw[f].up
    BY <1>6 DEF StoreColor, Goto, TypeOK
  <2> QED
    BY <1>0, <1>3, <1>6, <2>1, <2>2, <2>3 DEF ColourInv, BeforeStep
<1>7. ASSUME NEW f \in Frame, CheckColor(f) PROVE ColourInv'
  <2> SUFFICES ASSUME alone' PROVE ColourInv'
    BY DEF ColourInv
  <2>1. draw[f].pc = "check" /\ draw[f].up = (trend_flag = 0)
        /\ g_color <= High /\ (trend_flag = 1 => Low <= g_color)
    BY <1>3, <1>7 DEF CheckColor, Goto, ColourInv
  <2>2. g_color' = g_color /\ trend_flag' = trend_flag
    BY <1>7 DEF CheckColor
  <2>3. CASE AtTurn(draw[f].up)
    <3>1. draw'[f].pc = "turn" /\ draw'[f].up = draw[f].up
      BY <1>7, <2>3 DEF CheckColor, Goto, TypeOK
    <3> QED
      BY <1>0, <1>3, <1>7, <2>1, <2>2, <2>3, <3>1 DEF ColourInv, AtTurn
  <2>4. CASE ~AtTurn(draw[f].up)
    <3>1. draw'[f].pc = "paint"
      BY <1>7, <2>4 DEF CheckColor, Goto, TypeOK
    <3> QED
      BY <1>0, <1>3, <1>7, <2>1, <2>2, <2>4, <3>1 DEF ColourInv, AtTurn, BeforeStep
  <2> QED
    BY <2>3, <2>4
<1>8. ASSUME NEW f \in Frame, Turn(f) PROVE ColourInv'
  <2> SUFFICES ASSUME alone' PROVE ColourInv'
    BY DEF ColourInv
  <2>1. draw[f].up = (trend_flag = 0) /\ AtTurn(draw[f].up)
        /\ g_color <= High /\ (trend_flag = 1 => Low <= g_color)
    BY <1>3, <1>8 DEF Turn, Goto, ColourInv
  <2>2. g_color' = g_color /\ trend_flag' = (IF trend_flag = 0 THEN 1 ELSE 0)
        /\ draw'[f].pc = "paint"
    BY <1>8, <2>1 DEF Turn, Goto, TypeOK
  <2> QED
    BY <1>0, <1>3, <1>8, <2>1, <2>2 DEF ColourInv, AtTurn, BeforeStep
<1>9. ASSUME NEW f \in Frame, Paint(f) PROVE ColourInv'
  <2>1. Stepping' = Stepping /\ \A g \in Stepping : draw'[g] = draw[g]
    BY <1>9 DEF Paint, Stepping, NotDrawing, TypeOK
  <2>2. UNCHANGED <<g_color, trend_flag, alone>>
    BY <1>9 DEF Paint
  <2> QED
    BY <2>1, <2>2 DEF ColourInv, BeforeStep, AtTurn
<1> QED
  BY <1>1, <1>2, <1>4, <1>5, <1>6, <1>7, <1>8, <1>9 DEF Next, DrawFb

-----------------------------------------------------------------------------
(* The frames.                                                             *)

(* FramePipeline never has a frame in two places.                          *)
LEMMA PlacesInvStep == TypeOK /\ PlacesInv /\ ScreenInv /\ [Next]_vars => PlacesInv'
<1> SUFFICES ASSUME TypeOK, PlacesInv, ScreenInv, [Next]_vars PROVE PlacesInv'
  OBVIOUS
<1>0. free \in Seq(Frame) /\ ready \in Seq(Frame) /\ drawing \subseteq Frame
      /\ showing \subseteq Frame /\ BUFFER_TASK_SIZE \in Nat \ {0}
  BY DemoAssumption DEF TypeOK
<1>1. CASE UNCHANGED pipeline
  BY <1>1 DEF pipeline, PlacesInv
<1>2. CASE StartMBuffer
  <2>1. free' = [k \in 1..BUFFER_TASK_SIZE |-> k] /\ drawing' = {} /\ ready' = <<>>
        /\ showing' = {}
    BY <1>2 DEF StartMBuffer, ScreenInv
  <2>2. Len(free') = BUFFER_TASK_SIZE /\ Len(ready') = 0
        /\ \A k \in 1..Len(free') : free'[k] = k
    BY <1>0, <2>1
  <2>3. 1..Len(ready') = {}
    BY <2>2
  <2> QED
    BY <2>1, <2>2, <2>3 DEF PlacesInv
<1>3. CASE Pipeline!Take
  <2>1. free # <<>> /\ free' = Tail(free) /\ drawing' = drawing \cup {Head(free)}
        /\ ready' = ready /\ showing' = showing
    BY <1>3 DEF Pipeline!Take
  <2>2. Len(free) \in Nat \ {0} /\ Head(free) = free[1] /\ Len(free') = Len(free) - 1
        /\ \A k \in 1..Len(free') : free'[k] = free[k + 1] /\ k + 1 \in 2..Len(free)
    BY <1>0, <2>1
  <2> QED
    BY <1>0, <2>1, <2>2 DEF PlacesInv
<1>4. ASSUME NEW f \in Frame, Pipeline!Finish(f)
      PROVE  PlacesInv'
  <2>1. f \in drawing /\ drawing' = drawing \ {f} /\ ready' = Append(ready, f)
        /\ free' = free /\ showing' = showing
    BY <1>4 DEF Pipeline!Finish
  <2>2. Len(ready') = Len(ready) + 1 /\ Len(ready) \in Nat
        /\ \A k \in 1..Len(ready') : ready'[k] = IF k \in 1..Len(ready) THEN ready[k] ELSE f
    BY <1>0, <2>1
  <2> QED
    BY <1>0, <2>1, <2>2 DEF PlacesInv
<1>5. CASE Pipeline!Show
  <2>1. showing = {} /\ ready # <<>> /\ ready' = Tail(ready) /\ showing' = {Head(ready)}
        /\ free' = free /\ drawing' = drawing
    BY <1>5 DEF Pipeline!Show
  <2>2. Len(ready) \in Nat \ {0} /\ Head(ready) = ready[1] /\ Len(ready') = Len(ready) - 1
        /\ \A k \in 1..Len(ready') : ready'[k] = ready[k + 1] /\ k + 1 \in 2..Len(ready)
    BY <1>0, <2>1
  <2> QED
    BY <1>0, <2>1, <2>2 DEF PlacesInv
<1>6. ASSUME NEW f \in Frame, Pipeline!Return(f)
      PROVE  PlacesInv'
  <2>1. f \in showing /\ showing' = showing \ {f} /\ free' = Append(free, f)
        /\ ready' = ready /\ drawing' = drawing
    BY <1>6 DEF Pipeline!Return
  <2>2. Len(free') = Len(free) + 1 /\ Len(free) \in Nat
        /\ \A k \in 1..Len(free') : free'[k] = IF k \in 1..Len(free) THEN free[k] ELSE f
    BY <1>0, <2>1
  <2> QED
    BY <1>0, <2>1, <2>2 DEF PlacesInv
<1>7. CASE UNCHANGED vars \/ DrmStep \/ QueryFails \/ GotResources \/ GetConnector \/ GotConnector
           \/ NoConnector \/ StartInput \/ CreateFb \/ Move \/ Clamp \/ Undefined
  BY <1>1, <1>7, Untouched DEF vars, display
<1>8. CASE Take
  BY <1>3, <1>8 DEF Take
<1>9. CASE DrawFb
  <2>1. PICK f \in Frame : TestTrend(f) \/ LoadColor(f) \/ StoreColor(f) \/ CheckColor(f) \/ Turn(f)
                           \/ Paint(f)
    BY <1>9 DEF DrawFb
  <2> QED
    BY <1>1, <1>4, <2>1 DEF TestTrend, LoadColor, StoreColor, CheckColor, Turn, Paint, Goto, display
<1>10. CASE Consume
  BY <1>1, <1>5, <1>6, <1>10 DEF Consume, Show, SetCrtc, Return
<1> QED
  BY <1>2, <1>7, <1>8, <1>9, <1>10 DEF Next, Main

(* Nothing stands in the queues before M_buffer is started, and the frame  *)
(* on the screen is the last to be drawn over.                             *)
LEMMA ScreenInvStep ==
  TypeOK /\ SetupInv /\ PlacesInv /\ ScreenInv /\ [Next]_vars => ScreenInv'
<1> SUFFICES ASSUME TypeOK, SetupInv, PlacesInv, ScreenInv, [Next]_vars PROVE ScreenInv'
  OBVIOUS
<1> DEFINE early == main_pc \in {"resources", "loop", "connector", "create"}
<1>0. free \in Seq(Frame) /\ BUFFER_TASK_SIZE \in Nat \ {0} /\ failed \in BOOLEAN
      /\ showing \subseteq Frame
  BY DemoAssumption DEF TypeOK
<1>1. CASE UNCHANGED vars
  BY <1>1 DEF vars, display, pipeline, ScreenInv
<1>2. CASE DrmStep \/ QueryFails \/ GotResources \/ GetConnector \/ GotConnector \/ NoConnector
           \/ StartInput \/ CreateFb \/ Move \/ Clamp \/ Undefined
  <2>1. UNCHANGED display
    BY <1>2, Untouched
  <2>2. early' => early
    BY <1>2 DEF DrmStep, QueryFails, GotResources, GetConnector, GotConnector, NoConnector,
                StartInput, CreateFb, Move, Clamp, Undefined, Asking
  <2>3. failed => failed'
    BY <1>2 DEF DrmStep, QueryFails, GotResources, GetConnector, GotConnector, NoConnector,
                StartInput, CreateFb, Move, Clamp, Undefined
  <2> QED
    BY <2>1, <2>2, <2>3 DEF ScreenInv, display, pipeline
<1>3. CASE StartMBuffer
  <2>1. free' = [k \in 1..BUFFER_TASK_SIZE |-> k] /\ screen' = NoFrame /\ drawing' = {}
        /\ showing' = {} /\ main_pc' = "running"
    BY <1>3 DEF StartMBuffer, ScreenInv
  <2> QED
    BY <2>1, <1>0 DEF ScreenInv, NoFrame
<1>4. CASE Take
  <2>1. free # <<>> /\ free' = Tail(free) /\ drawing' = drawing \cup {Head(free)}
        /\ showing' = showing /\ main_pc = "running" /\ main_pc' = main_pc
        /\ screen' = screen /\ crtc_set' = crtc_set /\ failed' = failed
    BY <1>4 DEF Take, Pipeline!Take
  <2>2. Len(free) \in Nat \ {0} /\ Head(free) = free[1] /\ Len(free') = Len(free) - 1
        /\ free' \in Seq(Frame)
        /\ \A k \in 1..Len(free') : free'[k] = free[k + 1] /\ k + 1 \in 2..Len(free)
    BY <1>0, <2>1
  <2>3. ASSUME ~failed, screen \in drawing'
        PROVE  free' = <<>>
    <3>1. screen = free[1]
      BY <2>1, <2>2, <2>3 DEF ScreenInv
    <3>2. Len(free) = 1
      BY <3>1, <2>2, <2>3 DEF ScreenInv
    <3> QED
      BY <3>2, <2>2
  <2>4. ASSUME ~failed, NEW k \in 1..Len(free'), free'[k] = screen
        PROVE  k = Len(free')
    <3>1. k + 1 = Len(free)
      BY <2>2, <2>4 DEF ScreenInv
    <3> QED
      BY <3>1, <2>2
  <2> QED
    BY <2>1, <2>3, <2>4 DEF ScreenInv
<1>5. CASE DrawFb
  <2>1. main_pc = "running" /\ main_pc' \in {"running", "crashed"} /\ drawing' \subseteq drawing
        /\ free' = free /\ showing' = showing /\ screen' = screen /\ crtc_set' = crtc_set
        /\ failed' = failed
    BY <1>5 DEF DrawFb, TestTrend, LoadColor, StoreColor, CheckColor, Turn, Paint, Goto, display,
                pipeline, Pipeline!Finish
  <2> QED
    BY <2>1 DEF ScreenInv
<1>6. CASE Show
  <2>1. main_pc = "running" /\ main_pc' = main_pc /\ drawing' = drawing
        /\ free' = free /\ screen' = screen /\ crtc_set' = FALSE /\ failed' = failed
    BY <1>6 DEF Show, Pipeline!Show
  <2> QED
    BY <2>1 DEF ScreenInv
<1>7. ASSUME NEW f \in Frame, SetCrtc(f)
      PROVE  ScreenInv'
  <2>1. main_pc = "running" /\ main_pc' = main_pc /\ f \in showing /\ UNCHANGED pipeline
    BY <1>7 DEF SetCrtc
  <2>2. ASSUME ~failed' PROVE screen' = f
    BY <1>7, <2>2 DEF SetCrtc, SetupInv
  <2>3. \A k \in 1..Len(free) : free[k] # f
    BY <2>1 DEF PlacesInv
  <2>4. f \notin drawing /\ \A g \in showing : g = f
    BY <2>1 DEF PlacesInv
  <2> QED
    BY <2>1, <2>2, <2>3, <2>4 DEF ScreenInv, pipeline
<1>8. ASSUME NEW f \in Frame, Return(f)
      PROVE  ScreenInv'
  <2>1. main_pc = "running" /\ main_pc' = main_pc /\ f \in showing /\ showing' = showing \ {f}
        /\ free' = Append(free, f) /\ drawing' = drawing /\ crtc_set /\ crtc_set' = FALSE
        /\ screen' = screen /\ failed' = failed
    BY <1>8 DEF Return, Pipeline!Return
  <2>2. Len(free') = Len(free) + 1 /\ Len(free) \in Nat
        /\ \A k \in 1..Len(free') : free'[k] = IF k \in 1..Len(free) THEN free[k] ELSE f
    BY <1>0, <2>1
  <2>3. ~failed => screen = f
    BY <2>1 DEF ScreenInv
  <2>4. f \notin drawing /\ \A k \in 1..Len(free) : free[k] # f
    BY <2>1 DEF PlacesInv
  <2> QED
    BY <2>1, <2>2, <2>3, <2>4 DEF ScreenInv
<1> QED
  BY <1>1, <1>2, <1>3, <1>4, <1>5, <1>6, <1>7, <1>8 DEF Next, Main, Consume

-----------------------------------------------------------------------------
(* main.                                                                   *)
LEMMA SetupInvStep == TypeOK /\ SetupInv /\ [Next]_vars => SetupInv'
<1> SUFFICES ASSUME TypeOK, SetupInv, [Next]_vars PROVE SetupInv'
  OBVIOUS
<1>0. BUFFER_TASK_SIZE \in Nat \ {0} /\ MaxCount \in Nat /\ i \in Nat /\ connectors \in Nat
      /\ Frame = 1..BUFFER_TASK_SIZE
  BY DemoAssumption DEF TypeOK, Count, Frame
<1> USE DEF SetupInv, CrashExplained
<1>1. CASE UNCHANGED vars
  BY <1>1 DEF vars, setup
<1>2. CASE DrmStep \/ QueryFails \/ GotResources \/ GetConnector
  <2>1. CASE DrmStep
    BY <2>1 DEF DrmStep
  <2>2. CASE QueryFails
    BY <2>2 DEF QueryFails, Asking
  <2>3. CASE GotResources
    <3>1. answer["connectors"] \in Nat
      BY DemoAssumption DEF TypeOK, List, Count
    <3> QED
      BY <1>0, <2>3, <3>1 DEF GotResources
  <2>4. CASE GetConnector
    BY <1>0, <2>4 DEF GetConnector
  <2> QED
    BY <1>2, <2>1, <2>2, <2>3, <2>4
<1>3. CASE GotConnector
  BY <1>0, <1>3 DEF GotConnector
<1>4. CASE NoConnector \/ StartInput
  BY <1>0, <1>4 DEF NoConnector, StartInput, setup
<1>5. CASE CreateFb
  <2>1. PICK made \in {"ok", "unmapped", "unregistered"} :
          fb' = [fb EXCEPT ![i + 1] = made] /\ failed' = (failed \/ made # "ok")
    BY <1>5 DEF CreateFb
  <2>2. main_pc = "create" /\ main_pc' = "create" /\ i' = i + 1 /\ i + 1 \in Frame
    BY <1>0, <1>5 DEF CreateFb
  <2>3. \A f \in Frame : fb'[f] = IF f = i + 1 THEN made ELSE fb[f]
    BY <2>1, <2>2 DEF TypeOK
  <2>4. \A f \in 1..i' : fb'[f] # "none"
    BY <1>0, <2>1, <2>2, <2>3
  <2>5. ASSUME ~failed' PROVE \A f \in Frame : fb'[f] \in {"none", "ok"}
    BY <2>1, <2>3, <2>5
  <2>6. i' <= BUFFER_TASK_SIZE
    BY <1>0, <2>2
  <2>7. modes' = modes
    BY <1>5 DEF CreateFb
  <2> QED
    BY <2>2, <2>4, <2>5, <2>6, <2>7
<1>6. CASE StartMBuffer
  BY <1>0, <1>6 DEF StartMBuffer, setup
<1>7. CASE Move \/ Clamp
  BY <1>7 DEF Move, Clamp, setup
<1>8. CASE Take
  BY <1>8 DEF Take, setup
<1>9. CASE DrawFb
  <2>1. PICK f \in Frame : TestTrend(f) \/ LoadColor(f) \/ StoreColor(f) \/ CheckColor(f) \/ Turn(f)
                           \/ Paint(f)
    BY <1>9 DEF DrawFb
  <2>2. CASE Paint(f)
    BY <2>2 DEF Paint, setup
  <2>3. CASE ~Paint(f)
    BY <2>1, <2>3 DEF TestTrend, LoadColor, StoreColor, CheckColor, Turn, Goto, setup
  <2> QED
    BY <2>2, <2>3
<1>10. CASE Consume
  BY <1>10 DEF Consume, Show, SetCrtc, Return, setup
<1>11. CASE Undefined
  BY <1>11 DEF Undefined, setup
<1> QED
  BY <1>1, <1>2, <1>3, <1>4, <1>5, <1>6, <1>7, <1>8, <1>9, <1>10, <1>11 DEF Next, Main

-----------------------------------------------------------------------------
(* Types.                                                                  *)
LEMMA TypeStep == TypeOK /\ SetupInv /\ [Next]_vars => TypeOK'
<1> SUFFICES ASSUME TypeOK, SetupInv, [Next]_vars PROVE TypeOK'
  OBVIOUS
<1> DEFINE Pc == {"idle", "test", "load", "store", "check", "turn", "paint"}
           Draws == [Frame -> [pc : Pc, up : BOOLEAN, r : Word]]
<1>0. /\ BUFFER_TASK_SIZE \in Nat \ {0} /\ MaxCount \in Nat /\ WordSize \in Nat \ {0}
      /\ MaxPos \in Nat \ {0} /\ MaxPos < WordSize /\ Movement \subseteq Int
      /\ 0 \in Count /\ 0 \in Word /\ draw \in Draws
  BY DemoAssumption DEF TypeOK, Count, Word
<1>1. CASE UNCHANGED vars
  BY <1>1 DEF vars, setup, display, pipeline, mouse, colour, TypeOK
<1>2. CASE DrmStep \/ QueryFails \/ GotResources \/ GetConnector \/ GotConnector
  <2>1. lists' \in [List -> Count] /\ answer' \in [List -> Count]
        /\ status' \in {"asked", "answered", "returned", "failed"}
    BY <1>0, <1>2 DEF DrmStep, QueryFails, GotResources, GetConnector, GotConnector, TypeOK,
                      Drm!Answer, Drm!Return, Drm!Fail, Drm!Hotplug, Drm!NoAnswer
  <2>2. crtcs' \in Count /\ connectors' \in Count /\ modes' \in Count \cup {NULL}
    BY <1>2 DEF DrmStep, QueryFails, GotResources, GetConnector, GotConnector, TypeOK, List
  <2>3. i' \in 0..(MaxCount + BUFFER_TASK_SIZE)
    <3>1. i' = i \/ (main_pc = "connector" /\ i' = i + 1)
      <4>1. CASE DrmStep
        BY <4>1 DEF DrmStep
      <4>2. CASE QueryFails
        BY <4>2 DEF QueryFails
      <4>3. CASE GotResources
        BY <4>3 DEF GotResources
      <4>4. CASE GetConnector
        BY <4>4 DEF GetConnector
      <4>5. CASE GotConnector
        BY <4>5 DEF GotConnector
      <4> QED
        BY <1>2, <4>1, <4>2, <4>3, <4>4, <4>5
    <3>2. main_pc = "connector" => i < MaxCount
      BY <1>0 DEF SetupInv, TypeOK, Count
    <3> QED
      BY <1>0, <3>1, <3>2 DEF TypeOK
  <2>4. main_pc' \in {"resources", "loop", "connector", "create", "running", "crashed",
                    "undefined", "exited"}
        /\ failed' \in BOOLEAN
    BY <1>2 DEF DrmStep, QueryFails, GotResources, GetConnector, GotConnector, TypeOK
  <2>5. UNCHANGED <<fb, display, mouse, colour>>
    BY <1>2 DEF DrmStep, QueryFails, GotResources, GetConnector, GotConnector
  <2> QED
    BY <2>1, <2>2, <2>3, <2>4, <2>5 DEF TypeOK, display, pipeline, mouse, colour
<1>3. CASE NoConnector
  BY <1>3 DEF NoConnector, setup, display, pipeline, mouse, colour, TypeOK
<1>4. CASE StartInput
  <2>1. MaxPos \div 2 \in Word
    BY <1>0 DEF Word
  <2>2. g_mp' \in [Axis -> Word] /\ event' = event
    BY <1>4, <2>1 DEF StartInput
  <2>3. lists' \in [List -> Count] /\ answer' \in [List -> Count] /\ crtcs' \in Count
        /\ connectors' \in Count /\ i' \in 0..(MaxCount + BUFFER_TASK_SIZE)
    BY <1>0, <1>4 DEF StartInput, Drm!NoAnswer
  <2> QED
    BY <1>4, <2>2, <2>3 DEF StartInput, display, pipeline, colour, TypeOK
<1>5. CASE CreateFb
  <2>1. i' \in 0..(MaxCount + BUFFER_TASK_SIZE)
    BY <1>0, <1>5 DEF CreateFb, TypeOK
  <2>2. fb' \in [Frame -> {"none", "ok", "unmapped", "unregistered"}] /\ failed' \in BOOLEAN
    BY <1>5 DEF CreateFb, TypeOK
  <2> QED
    BY <1>5, <2>1, <2>2 DEF CreateFb, display, pipeline, mouse, colour, TypeOK
<1>6. CASE StartMBuffer
  <2>1. free' \in Seq(Frame)
    BY <1>0, <1>6 DEF StartMBuffer, Frame
  <2> QED
    BY <1>6, <2>1 DEF StartMBuffer, setup, mouse, colour, TypeOK
<1>7. CASE Move
  <2>1. PICK a \in Axis, v \in Movement :
          /\ event' = [axis |-> a, value |-> v, from |-> g_mp[a]]
          /\ g_mp' = [g_mp EXCEPT ![a] = (@ + v) % WordSize]
    BY <1>7 DEF Move
  <2>2. (g_mp[a] + v) % WordSize \in Word
    <3>1. g_mp[a] + v \in Int
      BY <1>0, <2>1 DEF Word, TypeOK
    <3> QED
      BY <1>0, <3>1, Unsigned DEF Word
  <2>3. g_mp' \in [Axis -> Word] /\ event' \in [axis : Axis, value : Movement, from : Word]
    BY <2>1, <2>2 DEF TypeOK
  <2> QED
    BY <1>7, <2>3 DEF Move, setup, display, pipeline, colour, TypeOK
<1>8. CASE Clamp
  <2>1. \A x \in Word : Clamped(x) \in Word
    BY <1>0 DEF Clamped, Word
  <2>2. g_mp' \in [Axis -> Word] /\ event' = NoEvent
    BY <1>8, <2>1 DEF Clamp, TypeOK
  <2> QED
    BY <1>8, <2>2 DEF Clamp, setup, display, pipeline, colour, TypeOK
<1>9. CASE Take
  <2>1. free' \in Seq(Frame) /\ drawing' \subseteq Frame /\ ready' = ready /\ showing' = showing
    BY <1>9 DEF Take, Pipeline!Take, TypeOK
  <2>2. draw' \in Draws
    BY <1>0, <1>9 DEF Take
  <2>3. alone' \in BOOLEAN
    BY <1>9 DEF Take, TypeOK
  <2> QED
    BY <1>9, <2>1, <2>2, <2>3 DEF Take, setup, mouse, TypeOK
<1>10. ASSUME NEW f \in Frame,
              TestTrend(f) \/ LoadColor(f) \/ StoreColor(f) \/ CheckColor(f) \/ Turn(f)
       PROVE  TypeOK'
  <2>1. draw[f] \in [pc : Pc, up : BOOLEAN, r : Word] /\ g_color \in Word
    BY <1>0 DEF TypeOK
  <2>2. draw' \in Draws
    <3>1. CASE TestTrend(f)
      BY <1>0, <3>1 DEF TestTrend, Goto
    <3>2. CASE LoadColor(f)
      BY <1>0, <2>1, <3>2 DEF LoadColor, Goto
    <3>3. CASE StoreColor(f)
      BY <1>0, <2>1, <3>3 DEF StoreColor, Goto
    <3>4. CASE CheckColor(f)
      BY <1>0, <2>1, <3>4 DEF CheckColor, Goto
    <3>5. CASE Turn(f)
      BY <1>0, <3>5 DEF Turn, Goto
    <3> QED
      BY <1>10, <3>1, <3>2, <3>3, <3>4, <3>5
  <2>3. g_color' \in Word /\ trend_flag' \in {0, 1}
    <3>1. draw[f].r + 1 \in Int /\ draw[f].r - 1 \in Int
      BY <1>0, <2>1 DEF Word
    <3>2. (draw[f].r + 1) % WordSize \in Word /\ (draw[f].r - 1) % WordSize \in Word
      BY <1>0, <3>1, Unsigned DEF Word
    <3> QED
      BY <1>10, <2>1, <3>2 DEF TestTrend, LoadColor, StoreColor, CheckColor, Turn, TypeOK
  <2>4. UNCHANGED <<main_pc, setup, display, mouse, alone, failed>>
    BY <1>10 DEF TestTrend, LoadColor, StoreColor, CheckColor, Turn, Goto
  <2> QED
    BY <2>2, <2>3, <2>4 DEF setup, display, pipeline, mouse, TypeOK
<1>11. ASSUME NEW f \in Frame, Paint(f)
       PROVE  TypeOK'
  <2>1. draw' \in Draws
    <3>1. NotDrawing \in [pc : Pc, up : BOOLEAN, r : Word]
      BY <1>0 DEF NotDrawing
    <3>2. draw' = draw \/ draw' = [draw EXCEPT ![f] = NotDrawing]
      BY <1>11 DEF Paint
    <3> QED
      BY <1>0, <3>1, <3>2
  <2>2. free' \in Seq(Frame) /\ ready' \in Seq(Frame) /\ drawing' \subseteq Frame
        /\ showing' \subseteq Frame
    <3>1. free' = free /\ showing' = showing
      BY <1>11 DEF Paint, Pipeline!Finish, pipeline
    <3>2. /\ ready' = ready \/ ready' = Append(ready, f)
          /\ drawing' = drawing \/ drawing' = drawing \ {f}
      BY <1>11 DEF Paint, Pipeline!Finish, pipeline
    <3>3. ready' \in Seq(Frame)
      <4>1. ready \in Seq(Frame) /\ f \in Frame
        BY DEF TypeOK
      <4>2. Append(ready, f) \in Seq(Frame)
        BY <4>1
      <4> QED
        BY <3>2, <4>1, <4>2
    <3>4. drawing' \subseteq Frame
      BY <3>2 DEF TypeOK
    <3> QED
      BY <3>1, <3>3, <3>4 DEF TypeOK
  <2>3. main_pc' \in {"running", "crashed"}
    BY <1>11 DEF Paint
  <2> QED
    BY <1>11, <2>1, <2>2, <2>3 DEF Paint, setup, mouse, TypeOK
<1>12. CASE Show
  <2>1. free' \in Seq(Frame) /\ ready' \in Seq(Frame) /\ drawing' \subseteq Frame
        /\ showing' \subseteq Frame
    BY <1>12 DEF Show, Pipeline!Show, TypeOK
  <2> QED
    BY <1>12, <2>1 DEF Show, setup, mouse, colour, TypeOK
<1>13. ASSUME NEW f \in Frame, SetCrtc(f)
       PROVE  TypeOK'
  BY <1>13 DEF SetCrtc, setup, pipeline, mouse, colour, TypeOK
<1>14. ASSUME NEW f \in Frame, Return(f)
       PROVE  TypeOK'
  <2>1. free' \in Seq(Frame) /\ ready' \in Seq(Frame) /\ drawing' \subseteq Frame
        /\ showing' \subseteq Frame
    BY <1>14 DEF Return, Pipeline!Return, TypeOK
  <2> QED
    BY <1>14, <2>1 DEF Return, setup, mouse, colour, TypeOK
<1>15. CASE Undefined
  BY <1>15 DEF Undefined, setup, display, pipeline, mouse, colour, TypeOK
<1> QED
  BY <1>1, <1>2, <1>3, <1>4, <1>5, <1>6, <1>7, <1>8, <1>9, <1>10, <1>11, <1>12, <1>13, <1>14,
     <1>15 DEF Next, Main, DrawFb, Consume

LEMMA InitInv == Init => IInv
<1> SUFFICES ASSUME Init PROVE IInv
  OBVIOUS
<1>0. BUFFER_TASK_SIZE \in Nat \ {0} /\ MaxCount \in Nat /\ WordSize \in Nat \ {0}
      /\ MaxPos \in Nat \ {0} /\ High \in Nat \ {0} /\ 0 \in Count /\ 0 \in Word
  BY DemoAssumption DEF Count, Word
<1>1. TypeOK
  <2>1. lists \in [List -> Count] /\ answer \in [List -> Count] /\ status = "asked"
    BY <1>0 DEF Init, Drm!Init, Drm!Asked, Drm!NoAnswer
  <2>2. main_pc = "resources" /\ crtcs \in Count /\ connectors \in Count
        /\ i \in 0..(MaxCount + BUFFER_TASK_SIZE) /\ modes = NULL
    BY <1>0 DEF Init
  <2>3. fb \in [Frame -> {"none", "ok", "unmapped", "unregistered"}]
    BY DEF Init
  <2>4. free \in Seq(Frame) /\ ready \in Seq(Frame) /\ drawing \subseteq Frame
        /\ showing \subseteq Frame
    BY DEF Init
  <2>5. draw \in [Frame -> [pc : {"idle", "test", "load", "store", "check", "turn", "paint"},
                           up : BOOLEAN, r : Word]]
    BY <1>0 DEF Init, NotDrawing
  <2>6. g_mp \in [Axis -> Word] /\ event = NoEvent /\ g_color \in Word /\ trend_flag \in {0, 1}
    BY <1>0 DEF Init
  <2>7. crtc_set \in BOOLEAN /\ screen = NoFrame /\ failed \in BOOLEAN /\ alone \in BOOLEAN
    BY DEF Init
  <2> QED
    BY <2>1, <2>2, <2>3, <2>4, <2>5, <2>6, <2>7 DEF TypeOK
<1>2. SetupInv
  BY DEF Init, SetupInv, CrashExplained
<1>3. MouseInv
  BY <1>0 DEF Init, MouseInv
<1>4. ColourInv
  <2>1. Stepping = {}
    BY DEF Init, Stepping, NotDrawing
  <2> QED
    BY <1>0, <2>1 DEF Init, ColourInv, BeforeStep
<1>5. PlacesInv /\ ScreenInv
  <2>1. Len(free) = 0 /\ Len(ready) = 0
    BY DEF Init
  <2>2. 1..Len(free) = {} /\ 1..Len(ready) = {}
    BY <2>1
  <2> QED
    BY <2>2 DEF Init, PlacesInv, ScreenInv
<1> QED
  BY <1>1, <1>2, <1>3, <1>4, <1>5 DEF IInv

-----------------------------------------------------------------------------
(* The invariant holds for the demo as a whole                             *)
(* (m_buffer_input_show_test.cpp).                                         *)
THEOREM Invariant == Spec => []IInv
<1>1. IInv /\ [Next]_vars => IInv'
  BY TypeStep, SetupInvStep, MouseInvStep, ColourInvStep, PlacesInvStep, ScreenInvStep DEF IInv
<1> QED
  BY <1>1, InitInv, PTL DEF Spec

(* Every variable keeps its type; nothing unsigned leaves its width.       *)
THEOREM TypeCorrect == Spec => []TypeOK
BY Invariant, PTL DEF IInv

(* Apart from the code whose behaviour is undefined, only a failed call or *)
(* an array read past its end makes the demo follow a pointer to nowhere,  *)
(* and main gets to that code only with a connector that has a mode        *)
(* (m_buffer_input_show_test.cpp:330-379).                                 *)
THEOREM OrderlyEnd == Spec => []CrashExplained
BY Invariant, PTL DEF IInv, SetupInv

(* The frame on the screen is the last to be drawn over                    *)
(* (m_buffer_input_show_test.cpp:322, m_buffer.cpp:136).                   *)
THEOREM ScreenKept == Spec => []OnScreenLast
<1>1. IInv => OnScreenLast
  <2> SUFFICES ASSUME IInv, ~failed
               PROVE  /\ screen \in Range(free) => Last(free) = screen
                      /\ screen \in drawing => free = <<>>
    BY DEF OnScreenLast
  <2>1. ASSUME screen \in Range(free)
        PROVE  Last(free) = screen
    <3>1. free \in Seq(Frame)
      BY DEF IInv, TypeOK
    <3>2. PICK k \in 1..Len(free) : free[k] = screen
      BY <2>1, <3>1 DEF Range
    <3>3. k = Len(free)
      BY <3>2 DEF IInv, ScreenInv
    <3> QED
      BY <3>2, <3>3 DEF Last
  <2> QED
    BY <2>1 DEF IInv, ScreenInv
<1> QED
  BY <1>1, Invariant, PTL

(* Draws that do not meet keep the colour in its range                     *)
(* (m_buffer_input_show_test.cpp:227-237).                                 *)
THEOREM ColourKept == Spec => []ColourInRange
<1>1. IInv => ColourInRange
  <2> SUFFICES ASSUME IInv, alone
               PROVE  g_color <= High /\ (trend_flag = 1 => g_color >= Low)
    BY DEF ColourInRange
  <2>0. g_color \in Nat /\ High \in Nat /\ Low \in Nat /\ Low < High
    BY DemoAssumption DEF IInv, TypeOK, Word
  <2>1. CASE Stepping = {}
    BY <2>0, <2>1 DEF IInv, ColourInv, BeforeStep
  <2>2. ASSUME NEW f \in Stepping
        PROVE  g_color <= High /\ (trend_flag = 1 => g_color >= Low)
    <3>1. draw[f].pc \in {"test", "load", "store", "check", "turn"}
      BY <2>2 DEF Stepping, IInv, TypeOK
    <3> QED
      BY <2>0, <2>2, <3>1 DEF IInv, ColourInv, BeforeStep
  <2> QED
    BY <2>1, <2>2
<1> QED
  BY <1>1, Invariant, PTL

(* Each mouse event moves the mouse where signed arithmetic would, but for *)
(* a movement over the left or upper edge                                  *)
(* (m_buffer_input_show_test.cpp:100-108).                                 *)
THEOREM MouseMoves == Spec => MouseStep
<1>1. IInv /\ [Next]_vars => [event # NoEvent /\ event' = NoEvent =>
         g_mp'[event.axis] = Reference(event.from, event.value)]_vars
  <2> SUFFICES ASSUME IInv, Next, event # NoEvent, event' = NoEvent
               PROVE  g_mp'[event.axis] = Reference(event.from, event.value)
    BY DEF vars
  <2>1. Clamp
    <3>1. ~Move
      BY DEF Move
    <3> QED
      BY <3>1, Untouched DEF Next
  <2>2. event \in [axis : Axis, value : Movement, from : Word]
    BY DEF IInv, TypeOK
  <2>3. event.axis \in Axis /\ event.value \in Movement
    BY <2>2
  <2>4. event.from \in 0..MaxPos /\ g_mp[event.axis] = (event.from + event.value) % WordSize
    BY DEF IInv, MouseInv
  <2>5. g_mp'[event.axis] = Clamped(g_mp[event.axis])
    BY <2>1, <2>3 DEF Clamp, IInv, TypeOK
  <2> QED
    BY <2>3, <2>4, <2>5, ClampedMovement
<1> QED
  BY <1>1, Invariant, PTL DEF Spec, MouseStep

-----------------------------------------------------------------------------
(* The demo implements the pipeline.                                       *)

(* Before M_buffer is started it has no frames.                            *)
NoFrames == main_pc \in {"resources", "loop", "connector", "create"} => free = <<>>

LEMMA NoFramesYet == Spec => []NoFrames
<1>1. Init => NoFrames
  BY DEF Init, NoFrames
<1>2. TypeOK /\ NoFrames /\ [Next]_vars => NoFrames'
  <2> SUFFICES ASSUME TypeOK, NoFrames, [Next]_vars PROVE NoFrames'
    OBVIOUS
  <2>1. CASE \/ DrmStep \/ QueryFails \/ GotResources \/ GetConnector \/ GotConnector
             \/ NoConnector \/ StartInput \/ CreateFb \/ Move \/ Clamp \/ Undefined
    <3>1. UNCHANGED free
      BY <2>1, Untouched DEF display, pipeline
    <3>2. main_pc' \in {"resources", "loop", "connector", "create"} =>
            main_pc \in {"resources", "loop", "connector", "create"}
      BY <2>1 DEF DrmStep, QueryFails, GotResources, GetConnector, GotConnector, NoConnector,
                  StartInput, CreateFb, Move, Clamp, Undefined
    <3> QED
      BY <3>1, <3>2 DEF NoFrames
  <2>2. CASE StartMBuffer
    BY <2>2 DEF StartMBuffer, NoFrames
  <2>3. CASE Take \/ DrawFb \/ Consume
    <3>1. main_pc' \in {"running", "crashed"}
      BY <2>3 DEF Take, DrawFb, TestTrend, LoadColor, StoreColor, CheckColor, Turn, Goto, Paint,
                  Consume, Show, SetCrtc, Return
    <3> QED
      BY <3>1 DEF NoFrames
  <2>4. CASE UNCHANGED vars
    BY <2>4 DEF vars, display, pipeline, NoFrames
  <2> QED
    BY <2>1, <2>2, <2>3, <2>4 DEF Next, Main
<1> QED
  BY <1>1, <1>2, TypeCorrect, PTL DEF Spec

(* A step of the pipeline leaves some frame somewhere.                     *)
LEMMA FramesStay ==
  ASSUME TypeOK, Pipeline!Next
  PROVE  ~AllFree /\ ~AllFree'
<1>1. CASE Pipeline!Take
  <2>1. Head(free) \in drawing' /\ free # <<>>
    BY <1>1 DEF Pipeline!Take
  <2> QED
    BY <2>1 DEF AllFree
<1>2. CASE Pipeline!Show
  <2>1. Head(ready) \in showing' /\ ready # <<>>
    BY <1>2 DEF Pipeline!Show
  <2> QED
    BY <2>1 DEF AllFree
<1>3. ASSUME NEW f \in Frame, Pipeline!Finish(f) PROVE ~AllFree /\ ~AllFree'
  <2>1. ready' = Append(ready, f) /\ f \in drawing
    BY <1>3 DEF Pipeline!Finish
  <2>2. ready' # <<>>
    BY <2>1 DEF TypeOK
  <2> QED
    BY <2>1, <2>2 DEF AllFree
<1>4. ASSUME NEW f \in Frame, Pipeline!Return(f) PROVE ~AllFree /\ ~AllFree'
  <2>1. free' = Append(free, f) /\ f \in showing
    BY <1>4 DEF Pipeline!Return
  <2>2. free' # <<>>
    BY <2>1 DEF TypeOK
  <2> QED
    BY <2>1, <2>2 DEF AllFree
<1> QED
  BY <1>1, <1>2, <1>3, <1>4 DEF Pipeline!Next

(* The steps of the demo that move a frame.                                *)
LEMMA PipelineMoves ==
  ASSUME TypeOK, [Next]_vars
  PROVE  Pipeline!Next \/ StartMBuffer \/ UNCHANGED pipeline
<1>1. CASE \/ DrmStep \/ QueryFails \/ GotResources \/ GetConnector \/ GotConnector
           \/ NoConnector \/ StartInput \/ CreateFb \/ Move \/ Clamp \/ Undefined
  BY <1>1, Untouched DEF display
<1>2. CASE Take
  BY <1>2 DEF Take, Pipeline!Next
<1>3. CASE DrawFb
  <2>1. PICK f \in Frame : \/ TestTrend(f) \/ LoadColor(f) \/ StoreColor(f)
                           \/ CheckColor(f) \/ Turn(f) \/ Paint(f)
    BY <1>3 DEF DrawFb
  <2> QED
    BY <2>1 DEF TestTrend, LoadColor, StoreColor, CheckColor, Turn, Goto, Paint, display,
                Pipeline!Next
<1>4. CASE Consume
  BY <1>4 DEF Consume, Show, SetCrtc, Return, Pipeline!Next
<1>5. CASE UNCHANGED vars
  BY <1>5 DEF vars, display
<1> QED
  BY <1>1, <1>2, <1>3, <1>4, <1>5 DEF Next, Main

LEMMA CycleStep == IInv /\ NoFrames /\ [Next]_vars => [Cycle!Next]_(Cycle!vars)
<1> SUFFICES ASSUME IInv, NoFrames, [Next]_vars PROVE [Cycle!Next]_(Cycle!vars)
  OBVIOUS
<1>1. CASE Pipeline!Next
  <2>1. Waiting = free /\ Waiting' = free'
    BY <1>1, FramesStay DEF IInv, Waiting
  <2>2. Cycle!Next
    BY <1>1, <2>1 DEF Pipeline!Next, Cycle!Next, Pipeline!Take, Cycle!Take, Pipeline!Show,
                      Cycle!Show, Pipeline!Finish, Cycle!Finish, Pipeline!Return, Cycle!Return
  <2> QED
    BY <2>2
<1>2. CASE StartMBuffer
  <2>1. /\ free' = [k \in Frame |-> k]
        /\ UNCHANGED <<drawing, ready, showing>>
    BY <1>2 DEF StartMBuffer, Frame
  <2>2. AllFree
    BY <1>2 DEF StartMBuffer, NoFrames, IInv, ScreenInv, AllFree
  <2>3. Waiting = free' /\ Waiting' = free'
    BY <2>1, <2>2 DEF Waiting
  <2> QED
    BY <2>1, <2>3 DEF Cycle!vars
<1>3. CASE UNCHANGED pipeline
  BY <1>3 DEF pipeline, Cycle!vars, Waiting, AllFree
<1> QED
  BY <1>1, <1>2, <1>3, PipelineMoves DEF IInv

(* The demo implements the same pipeline that M_buffer implements: its     *)
(* frames circulate as FramePipeline promises, for any number of frames    *)
(* (m_buffer_input_show_test.cpp:213-283).                                 *)
THEOREM Circulates == Spec => FramesCirculate
<1>1. Init => Cycle!Init
  <2> SUFFICES ASSUME Init PROVE Cycle!Init
    OBVIOUS
  <2>1. Waiting = [f \in Frame |-> f] /\ drawing = {} /\ ready = <<>> /\ showing = {}
    BY DEF Init, Waiting, AllFree
  <2>2. BUFFER_TASK_SIZE \in Nat
    BY DemoAssumption
  <2>3. [f \in Frame |-> f] \in Seq(Frame)
    BY <2>2 DEF Frame
  <2>4. Cycle!IsInjective([f \in Frame |-> f])
    BY DEF Cycle!IsInjective
  <2> QED
    BY <2>1, <2>3, <2>4 DEF Cycle!Init
<1> QED
  BY <1>1, CycleStep, Invariant, NoFramesYet, PTL DEF Spec, FramesCirculate, Cycle!Spec
=============================================================================
