-------------------------------- MODULE Demo --------------------------------
(***************************************************************************)
(* The demo m_buffer_input_show_test.cpp: main asks DRM for a connector    *)
(* with a mode, creates the framebuffers and starts M_buffer, whose        *)
(* threads draw them (draw_fb) and put them on the screen                  *)
(* (consume_frame_buffer); the thread of input_reader moves the mouse.     *)
(*                                                                         *)
(* libdrm is represented by DrmQuery and M_buffer by FramePipeline, which  *)
(* DrmMode and MBuffer implement.  The pixels of a frame are left out.     *)
(***************************************************************************)
EXTENDS Integers, FiniteSets, SequencesExt

CONSTANTS BUFFER_TASK_SIZE,  \* number of frames
          MaxCount,          \* bound on the lengths of DRM's lists
          WordSize,          \* number of values of uint32_t
          MaxPos,            \* g_mp.max_x and max_y; min_x and min_y are 0
          Movement,          \* values of a mouse event
          Axis,              \* REL_X and REL_Y, which have the same code
          Low, High          \* where draw_fb turns the colour round

ASSUME DemoAssumption ==
  /\ BUFFER_TASK_SIZE \in Nat \ {0} /\ MaxCount \in Nat
  /\ WordSize \in Nat /\ WordSize % 2 = 0 /\ MaxPos \in Nat \ {0}
  /\ 2 * MaxPos < WordSize
  /\ Movement \subseteq (-(WordSize \div 2))..(WordSize \div 2 - 1)
  /\ Low \in Nat \ {0} /\ High \in Nat /\ Low < High /\ High < WordSize
  /\ "none" \notin Axis

Frame == 1..BUFFER_TASK_SIZE
NoFrame == 0
List == {"crtcs", "connectors", "modes"}
Count == 0..MaxCount
Word == 0..(WordSize - 1)

VARIABLES
  main_pc,     \* position of main
  lists,       \* length of each list in the kernel
  status,      \* of the current query
  answer,      \* its answer
  crtcs,       \* resources->count_crtcs
  connectors,  \* connectors_num
  i,           \* the loop counter of main
  modes,       \* connector->count_modes, or NULL
  fb,          \* what create_fb has made of each frame's buffer
  free, drawing, ready, showing,  \* M_buffer, see FramePipeline
  draw,        \* position and locals of draw_fb for each frame
  crtc_set,    \* the callback of the frame on show has called drmModeSetCrtc
  screen,      \* the frame whose buffer the screen scans out
  g_mp,        \* mouse position on each axis
  event,       \* the mouse event in test_input_callback, or NoEvent
  g_color, trend_flag,
  failed,      \* history: a call has failed, or main read past an array
  alone        \* history: no two draws have stepped the colour at once

NULL == -1
NoEvent == [axis |-> "none", value |-> 0, from |-> 0]
NotDrawing == [pc |-> "idle", up |-> TRUE, r |-> 0]

setup == <<lists, status, answer, crtcs, connectors, i, modes, fb>>
pipeline == <<free, drawing, ready, showing>>
display == <<pipeline, crtc_set, screen>>
mouse == <<g_mp, event>>
colour == <<draw, g_color, trend_flag, alone>>
vars == <<main_pc, setup, display, mouse, colour, failed>>

Drm == INSTANCE DrmQuery
Pipeline == INSTANCE FramePipeline WITH NoProduce <- {}, NoConsume <- {}

TypeOK ==
  /\ main_pc \in {"resources", "loop", "connector", "create", "running",
                 "crashed", "undefined", "exited"}
  /\ lists \in [List -> Count] /\ answer \in [List -> Count]
  /\ status \in {"asked", "answered", "returned", "failed"}
  /\ crtcs \in Count /\ connectors \in Count /\ i \in 0..(MaxCount + BUFFER_TASK_SIZE)
  /\ modes \in Count \cup {NULL}
  /\ fb \in [Frame -> {"none", "ok", "unmapped", "unregistered"}]
  /\ free \in Seq(Frame) /\ ready \in Seq(Frame)
  /\ drawing \subseteq Frame /\ showing \subseteq Frame
  /\ draw \in [Frame -> [pc : {"idle", "test", "load", "store", "check", "turn", "paint"},
                         up : BOOLEAN, r : Word]]
  /\ crtc_set \in BOOLEAN /\ screen \in Frame \cup {NoFrame}
  /\ g_mp \in [Axis -> Word]
  /\ event = NoEvent \/ event \in [axis : Axis, value : Movement, from : Word]
  /\ g_color \in Word /\ trend_flag \in {0, 1}
  /\ failed \in BOOLEAN /\ alone \in BOOLEAN

Init ==
  /\ main_pc = "resources" /\ Drm!Init
  /\ crtcs = 0 /\ connectors = 0 /\ i = 0 /\ modes = NULL
  /\ fb = [f \in Frame |-> "none"]
  /\ free = <<>> /\ drawing = {} /\ ready = <<>> /\ showing = {}
  /\ draw = [f \in Frame |-> NotDrawing] 
  /\ crtc_set = FALSE /\ screen = NoFrame
  /\ g_mp = [a \in Axis |-> 0] /\ event = NoEvent
  /\ g_color = 0 /\ trend_flag = 0
  /\ failed = FALSE /\ alone = TRUE

-----------------------------------------------------------------------------
(* main.                                                                   *)

Asking == main_pc \in {"resources", "connector"}

(* A query proceeds, or a monitor comes or goes.  The lists are not        *)
(* followed any longer than main asks for them.                            *)
DrmStep ==
  /\ \/ Asking /\ (Drm!Answer \/ Drm!Return)
     \/ (Asking \/ main_pc = "loop") /\ Drm!Hotplug
  /\ UNCHANGED <<main_pc, crtcs, connectors, i, modes, fb, display, mouse, colour, failed>>

(* NULL is dereferenced by the printf that follows either query (331, 338) *)
(* and comes before main's test of the connector.                          *)
QueryFails ==
  /\ Asking /\ main_pc' = "crashed"
  /\ Drm!Fail /\ failed' = TRUE
  /\ UNCHANGED <<crtcs, connectors, i, modes, fb, display, mouse, colour>>

GotResources ==
  /\ main_pc = "resources" /\ status = "returned" /\ main_pc' = "loop"
  /\ crtcs' = answer["crtcs"] /\ connectors' = answer["connectors"]
  /\ UNCHANGED <<lists, status, answer, i, modes, fb, display, mouse, colour, failed>>

(* Each iteration asks for connectors[1] and will use crtcs[1]: with fewer *)
(* than two of them it reads past an array.                                *)
GetConnector ==
  /\ main_pc = "loop" /\ i < connectors /\ main_pc' = "connector"
  /\ status' = "asked" /\ answer' = Drm!NoAnswer
  /\ failed' = (failed \/ crtcs < 2 \/ connectors < 2)
  /\ UNCHANGED <<lists, crtcs, connectors, i, modes, fb, display, mouse, colour>>

(* The connector of the iteration before, if any, is leaked.               *)
GotConnector ==
  /\ main_pc = "connector" /\ status = "returned"
  /\ modes' = answer["modes"]
  /\ IF modes' = 0 THEN main_pc' = "exited" /\ i' = i
                   ELSE main_pc' = "loop" /\ i' = i + 1
  /\ UNCHANGED <<lists, status, answer, crtcs, connectors, fb, display, mouse, colour, failed>>

NoConnector ==
  /\ main_pc = "loop" /\ i = connectors /\ modes \in {NULL, 0}
  /\ main_pc' = "exited"
  /\ UNCHANGED <<setup, display, mouse, colour, failed>>

(* init_mp and init_input.  The variables of the queries, which main does  *)
(* not read again, are reset.                                              *)
StartInput ==
  /\ main_pc = "loop" /\ i = connectors /\ modes \notin {NULL, 0}
  /\ main_pc' = "create" /\ i' = 0
  /\ g_mp' = [a \in Axis |-> MaxPos \div 2]
  /\ lists' = Drm!NoAnswer /\ answer' = Drm!NoAnswer /\ crtcs' = 0 /\ connectors' = 0
  /\ UNCHANGED <<status, modes, fb, display, event, colour, failed>>

(* create_fb looks at no result: without a dumb buffer or a mapping vaddr  *)
(* is MAP_FAILED, without drmModeAddFB fb_id is left undefined.            *)
CreateFb ==
  /\ main_pc = "create" /\ i < BUFFER_TASK_SIZE /\ i' = i + 1
  /\ \E made \in {"ok", "unmapped", "unregistered"} :
       /\ fb' = [fb EXCEPT ![i + 1] = made]
       /\ failed' = (failed \/ made # "ok")
  /\ UNCHANGED <<main_pc, lists, status, answer, crtcs, connectors, modes, display, mouse, colour>>

(* Mutant: the last frame is left without a buffer and callbacks.          *)
StartMBufferEarly ==
  /\ main_pc = "create" /\ i = BUFFER_TASK_SIZE - 1 /\ main_pc' = "running"
  /\ free' = [k \in 1..BUFFER_TASK_SIZE |-> k]
  /\ UNCHANGED <<setup, drawing, ready, showing, crtc_set, screen, mouse, colour, failed>>

(* Undefined stands for what the constructor writes past m_buffer.         *)
StartMBuffer ==
  /\ main_pc = "create" /\ i = BUFFER_TASK_SIZE /\ main_pc' = "running"
  /\ free' = [k \in 1..BUFFER_TASK_SIZE |-> k]
  /\ UNCHANGED <<setup, drawing, ready, showing, crtc_set, screen, mouse, colour, failed>>

Main == \/ DrmStep \/ QueryFails \/ GotResources \/ GetConnector \/ GotConnector
        \/ NoConnector \/ StartInput \/ CreateFb \/ StartMBuffer

-----------------------------------------------------------------------------
(* The mouse: test_input_callback, on the thread of input_reader.          *)

(* Mutant: no test at the right and lower edges.                           *)
ClampedBelow(pos) == IF pos <= 0 THEN 0 ELSE pos

Clamped(pos) == IF pos <= 0 THEN 0 ELSE IF pos >= MaxPos THEN MaxPos ELSE pos

(* The movement is added to the unsigned position ...                      *)
Move ==
  /\ main_pc \in {"create", "running"} /\ event = NoEvent
  /\ \E a \in Axis, v \in Movement :
       /\ event' = [axis |-> a, value |-> v, from |-> g_mp[a]]
       /\ g_mp' = [g_mp EXCEPT ![a] = (@ + v) % WordSize]
  /\ UNCHANGED <<main_pc, setup, display, colour, failed>>

(* ... where a draw may read it, and clamped; the callback then returns    *)
(* (its missing return statement: see Undefined).                          *)
Clamp ==
  /\ main_pc \in {"create", "running"} /\ event # NoEvent
  /\ g_mp' = [g_mp EXCEPT ![event.axis] = Clamped(@)]
  /\ event' = NoEvent
  /\ UNCHANGED <<main_pc, setup, display, colour, failed>>

-----------------------------------------------------------------------------
(* draw_fb, on any produce thread.                                         *)

Stepping == {f \in Frame : draw[f].pc \notin {"idle", "paint"}}

Take ==
  /\ main_pc = "running" /\ Pipeline!Take
  /\ draw' = [draw EXCEPT ![Head(free)].pc = "test"]
  /\ alone' = (alone /\ Stepping = {})
  /\ UNCHANGED <<main_pc, setup, crtc_set, screen, mouse, g_color, trend_flag, failed>>

(* Thread-local effect of a step of draw_fb on frame f.                    *)
Goto(f, from, next) ==
  /\ main_pc = "running" /\ draw[f].pc = from
  /\ draw' = [draw EXCEPT ![f] = next]
  /\ UNCHANGED <<main_pc, setup, display, mouse, alone, failed>>

TestTrend(f) ==
  /\ Goto(f, "test", [pc |-> "load", up |-> trend_flag = 0, r |-> 0])
  /\ UNCHANGED <<g_color, trend_flag>>

LoadColor(f) ==
  /\ Goto(f, "load", [draw[f] EXCEPT !.pc = "store", !.r = g_color])
  /\ UNCHANGED <<g_color, trend_flag>>

(* Mutant: the colour is signed.                                           *)
StoreColorSigned(f) ==
  /\ Goto(f, "store", [draw[f] EXCEPT !.pc = "check", !.r = 0])
  /\ g_color' = IF draw[f].up THEN draw[f].r + 1 ELSE draw[f].r - 1
  /\ UNCHANGED trend_flag

StoreColor(f) ==
  /\ Goto(f, "store", [draw[f] EXCEPT !.pc = "check", !.r = 0])
  /\ g_color' = (IF draw[f].up THEN draw[f].r + 1 ELSE draw[f].r - 1) % WordSize
  /\ UNCHANGED trend_flag

(* Mutant: the colour turns one step too late.                             *)
AtTurnLate(up) == IF up THEN g_color > High ELSE g_color <= Low

AtTurn(up) == IF up THEN g_color >= High ELSE g_color <= Low

CheckColor(f) ==
  /\ Goto(f, "check", IF AtTurn(draw[f].up) THEN [draw[f] EXCEPT !.pc = "turn"]
                      ELSE [pc |-> "paint", up |-> TRUE, r |-> 0])
  /\ UNCHANGED <<g_color, trend_flag>>

Turn(f) ==
  /\ Goto(f, "turn", [pc |-> "paint", up |-> TRUE, r |-> 0])
  /\ trend_flag' = IF draw[f].up THEN 1 ELSE 0
  /\ UNCHANGED g_color

(* Writing the pixels of a buffer that is not mapped ends the process; so  *)
(* does a task that main has not filled in.                                *)
Paint(f) ==
  /\ main_pc = "running" /\ draw[f].pc = "paint"
  /\ IF fb[f] \in {"none", "unmapped"}
       THEN main_pc' = "crashed" /\ UNCHANGED <<pipeline, draw>>
       ELSE Pipeline!Finish(f) /\ draw' = [draw EXCEPT ![f] = NotDrawing] /\ UNCHANGED main_pc
  /\ UNCHANGED <<setup, crtc_set, screen, mouse, g_color, trend_flag, alone, failed>>

DrawFb == \E f \in Frame : TestTrend(f) \/ LoadColor(f) \/ StoreColor(f)
                           \/ CheckColor(f) \/ Turn(f) \/ Paint(f)

-----------------------------------------------------------------------------
(* consume_frame_buffer, on the consume thread.                            *)

Show ==
  /\ main_pc = "running" /\ Pipeline!Show /\ crtc_set' = FALSE
  /\ UNCHANGED <<main_pc, setup, screen, mouse, colour, failed>>

(* The result of drmModeSetCrtc is not looked at.  An undefined fb_id is   *)
(* refused or happens to be that of another frame.                         *)
SetCrtc(f) ==
  /\ main_pc = "running" /\ f \in showing /\ ~crtc_set /\ crtc_set' = TRUE
  /\ \/ fb[f] = "ok" /\ screen' = f /\ UNCHANGED failed
     \/ fb[f] = "unregistered" /\ screen' \in {g \in Frame : fb[g] = "ok"} /\ UNCHANGED failed
     \/ UNCHANGED screen /\ failed' = TRUE
  /\ UNCHANGED <<main_pc, setup, pipeline, mouse, colour>>

(* The callback returns (its missing return statement: see Undefined) and  *)
(* M_buffer takes the frame back.                                          *)
Return(f) ==
  /\ main_pc = "running" /\ crtc_set /\ Pipeline!Return(f) /\ crtc_set' = FALSE
  /\ UNCHANGED <<main_pc, setup, screen, mouse, colour, failed>>

Consume == Show \/ \E f \in Frame : SetCrtc(f) \/ Return(f)

-----------------------------------------------------------------------------
(* What the program does from here on is undefined.  Two causes, from      *)
(* init_input on:                                                          *)
(* - test_input_callback, test_event_callback and consume_frame_buffer end *)
(*   without a return statement (117, 121, 323); without optimisation, as  *)
(*   the Makefile builds them, they return a value nobody reads, otherwise *)
(*   they may not return at all;                                           *)
(* - this file reserves room for one semaphore in m_buffer (29, 379), and  *)
(*   the constructor, compiled for ten (m_buffer.h:10, 30), writes past it *)
(*   into the stack frame of main, where cf lies, which the threads of     *)
(*   input_reader go on using (364-367).                                   *)
Undefined ==
  /\ main_pc \in {"create", "running"} /\ main_pc' = "undefined"
  /\ UNCHANGED <<setup, display, mouse, colour, failed>>

Next == Main \/ Move \/ Clamp \/ Take \/ DrawFb \/ Consume \/ Undefined

Spec == Init /\ [][Next]_vars

-----------------------------------------------------------------------------
(* A monitor that is unplugged between the queries ends main in order.     *)
(* The process is brought down by a pointer to nowhere only after a call   *)
(* has failed or main has read past the arrays of the resources (335-336), *)
(* and gets to the code whose behaviour is undefined only with a connector *)
(* that has a mode (343, 353).  That code may end any run; see Undefined.  *)
CrashExplained ==
  /\ main_pc = "crashed" => failed
  /\ main_pc = "undefined" => modes \notin {NULL, 0}

(* The frame on the screen is only drawn over when there is no other:      *)
(* among the free frames it is the last to be taken, and while it is drawn *)
(* none is free.  M_buffer hands it back as soon as it is shown            *)
(* (m_buffer.cpp:136), so that this is the best it can do.                 *)
OnScreenLast ==
  ~failed => /\ screen \in Range(free) => Last(free) = screen
             /\ screen \in drawing => free = <<>>

(* As long as no two draws step the colour at once it stays in its range   *)
(* and never passes 0; when they do, it may be anything (226-237).         *)
ColourInRange ==
  alone => g_color <= High /\ (trend_flag = 1 => g_color >= Low)

(* Where the signed arithmetic of the earlier demos puts the mouse         *)
(* (input_show.c:58-60), but for a movement over the left or upper edge.   *)
Reference(pos, v) ==
  IF pos + v < 0 THEN MaxPos ELSE IF pos + v > MaxPos THEN MaxPos ELSE pos + v

(* Although the position is unsigned, each event moves the mouse as in the *)
(* earlier demos, with one exception: a movement over the left or upper    *)
(* edge takes it to the opposite one (100-102).                            *)
MouseStep ==
  [][event # NoEvent /\ event' = NoEvent =>
       g_mp'[event.axis] = Reference(event.from, event.value)]_vars

(* Until main has started M_buffer every frame waits to be drawn.          *)
AllFree == free = <<>> /\ drawing = {} /\ ready = <<>> /\ showing = {}
Waiting == IF AllFree THEN [f \in Frame |-> f] ELSE free

Cycle == INSTANCE FramePipeline WITH free <- Waiting, NoProduce <- {}, NoConsume <- {}

(* Whatever main, the mouse and the callbacks do in between, and wherever  *)
(* the process ends, the frames go round as M_buffer promises: what was    *)
(* shown of MBuffer holds for the demo as a whole.                         *)
FramesCirculate == Cycle!Spec

-----------------------------------------------------------------------------
(* The inductive invariant.                                                *)

(* A call of main that fails is remembered, and a frame is only drawn once *)
(* it has its buffer.                                                      *)
SetupInv ==
  /\ main_pc = "resources" => i = 0
  /\ main_pc = "loop" => i <= connectors
  /\ main_pc = "connector" => i < connectors
  /\ main_pc = "create" => i <= BUFFER_TASK_SIZE /\ \A f \in 1..i : fb[f] # "none"
  /\ main_pc = "running" => \A f \in Frame : fb[f] # "none"
  /\ ~failed => \A f \in Frame : fb[f] \in {"none", "ok"}
  /\ main_pc \in {"create", "running"} => modes \notin {NULL, 0}
  /\ CrashExplained

(* Between two events the mouse is on the screen; during one it is where   *)
(* the event has taken it.                                                 *)
MouseInv ==
  /\ main_pc \in {"resources", "loop", "connector"} => event = NoEvent
  /\ event = NoEvent => \A a \in Axis : g_mp[a] \in 0..MaxPos
  /\ event # NoEvent =>
       /\ event.from \in 0..MaxPos
       /\ g_mp[event.axis] = (event.from + event.value) % WordSize
       /\ \A a \in Axis \ {event.axis} : g_mp[a] \in 0..MaxPos

(* The colour when a draw is about to step it: the next step is not past   *)
(* the turning point.                                                      *)
BeforeStep == IF trend_flag = 0 THEN g_color < High ELSE Low < g_color /\ g_color <= High

ColourInv ==
  alone => /\ \A f, g \in Stepping : f = g
           /\ Stepping = {} => BeforeStep
           /\ \A f \in Stepping :
                /\ draw[f].pc \in {"test", "load", "store"} => BeforeStep
                /\ draw[f].pc # "test" => draw[f].up = (trend_flag = 0)
                /\ draw[f].pc = "store" => draw[f].r = g_color
                /\ draw[f].pc \in {"check", "turn"} =>
                     g_color <= High /\ (trend_flag = 1 => Low <= g_color)
                /\ draw[f].pc = "turn" => AtTurn(draw[f].up)

(* A frame is in one place at a time.                                      *)
PlacesInv ==
  /\ \A j, k \in 1..Len(free) : free[j] = free[k] => j = k
  /\ \A j, k \in 1..Len(ready) : ready[j] = ready[k] => j = k
  /\ \A j \in 1..Len(free), k \in 1..Len(ready) : free[j] # ready[k]
  /\ \A j \in 1..Len(free) : free[j] \notin drawing /\ free[j] \notin showing
  /\ \A j \in 1..Len(ready) : ready[j] \notin drawing /\ ready[j] \notin showing
  /\ drawing \cap showing = {}
  /\ \A f, g \in showing : f = g

ScreenInv ==
  /\ main_pc \in {"resources", "loop", "connector", "create"} =>
       screen = NoFrame /\ drawing = {} /\ ready = <<>> /\ showing = {}
  /\ ~failed =>
       /\ crtc_set => \A f \in showing : screen = f
       /\ \A k \in 1..Len(free) : free[k] = screen => k = Len(free)
       /\ screen \in drawing => free = <<>>

(* The invariant of the proofs: each thread's part of it.                  *)
IInv == TypeOK /\ SetupInv /\ MouseInv /\ ColourInv /\ PlacesInv /\ ScreenInv
=============================================================================
