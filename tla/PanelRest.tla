------------------------------ MODULE PanelRest ------------------------------
(* The panel's rest (st7305/st7305.c, main/main.c): a push goes to 32 frames  *)
(* a second and starts a timer; the timer's callback only asks for one frame *)
(* a second, and the main loop's next pass sets it. The cursor's blink, which*)
(* pushes, stops once typing has paused.                                     *)
VARIABLES hpm, wantLpm, idleTimer,
          solid,     \* the cursor is drawn
          at,        \* where the pass is
          typing     \* "on", "paused" (longer than BLINK_WINDOW), "over"
restVars == <<hpm, wantLpm, idleTimer, solid, at, typing>>

(* push_window(), its set_mode() failing or not.                             *)
Push == \/ hpm' = TRUE /\ idleTimer' = "armed"
        \/ UNCHANGED <<hpm, idleTimer>>
Type == /\ at = "wait" /\ typing # "over" /\ typing' = "on" /\ solid' = TRUE
        /\ at' = "service" /\ UNCHANGED <<hpm, wantLpm, idleTimer>>
Wait == /\ at = "wait" /\ at' = "service"
        /\ \/ typing' = typing
           \/ typing # "over" /\ typing' \in {"paused", "over"}
        /\ UNCHANGED <<hpm, wantLpm, idleTimer, solid>>
(* st7305_service(); its command is taken to get through.                    *)
\* mutant: the request is dropped with the timer that made it
ServedIfArmed == wantLpm /\ idleTimer = "armed"
Served == wantLpm
Service == /\ at = "service" /\ at' = "draw" /\ wantLpm' = FALSE
           /\ hpm' = (hpm /\ ~Served)
           /\ UNCHANGED <<idleTimer, solid, typing>>
RestDraw == /\ at = "draw" /\ at' = "blink"
        /\ \/ typing = "on" /\ Push
           \/ UNCHANGED <<hpm, idleTimer>>
        /\ UNCHANGED <<wantLpm, solid, typing>>
(* The blink is bounded: one left off is put back, and that is all.          *)
RestBlink == /\ at = "blink" /\ at' = "wait"
         /\ \/ (typing = "on" \/ ~solid) /\ solid' = ~solid /\ Push
            \/ (typing = "on" \/ solid) /\ UNCHANGED <<solid, hpm, idleTimer>>
         /\ UNCHANGED <<wantLpm, typing>>
Pass == Service \/ RestDraw \/ RestBlink
(* idle_timer_cb(), on the timer task.                                       *)
IdleTimer == /\ idleTimer = "armed" /\ idleTimer' = "off" /\ wantLpm' = TRUE
             /\ UNCHANGED <<hpm, solid, at, typing>>

RestInit == /\ hpm = TRUE /\ wantLpm = FALSE /\ idleTimer = "off"
            /\ solid = TRUE /\ at = "wait" /\ typing = "paused"
RestNext == Type \/ Wait \/ Pass \/ IdleTimer
(* The loop turns - a wait for keys is five milliseconds - and the timer     *)
(* fires in the end.                                                         *)
RestFair == WF_restVars(Pass) /\ WF_restVars(Wait) /\ WF_restVars(IdleTimer)

(* 'Drop back to 1 Hz once typing stops' (idle_timer_cb, st7305_service): a  *)
(* panel that pushed goes to rest when nobody types any more.                *)
PanelRests == (hpm /\ idleTimer = "armed" /\ typing = "over") ~> ~hpm
==============================================================================
