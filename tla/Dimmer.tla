-------------------------------- MODULE Dimmer --------------------------------
(***************************************************************************)
(* The dimmer of DimmerWithSerial (model_handler.c, serial_cmd.c): a       *)
(* button that toggles the light when pressed shortly and dims it while it *)
(* is held, a button that recalls and stores scenes, and the serial        *)
(* commands `on`, `off`, `dim up` and `dim down`.                          *)
(*                                                                         *)
(* Both buttons and the two delayable works run on the system work queue,  *)
(* one after the other; the shell runs while the queue is empty, and can   *)
(* lose the CPU to it between any two of its calls.  Time passes while     *)
(* nothing is due.  A press is timed with the uptime, in whole ms, and the *)
(* works with timers, which expire at the due ms or later in it: within    *)
(* that ms a timer and a button may come in either order.                  *)
(*                                                                         *)
(* External: the kernel's works and timers, the buttons, and the light,    *)
(* which obeys the last message it got.  Any message can miss it: sending  *)
(* may fail, which the buttons log, the works do not even look at and the  *)
(* shell prints, and no message is sent again.                             *)
(***************************************************************************)
EXTENDS Integers, Sequences

CONSTANTS
  SHORT_PRESS_THRESHOLD_MS,
  LONG_PRESS_TIMEOUT,        (* LONG_PRESS_TIMEOUT_SEC, in ms              *)
  SCENE_COUNT

ASSUME TimesAssumption ==
  /\ SHORT_PRESS_THRESHOLD_MS \in Nat \ {0}
  /\ LONG_PRESS_TIMEOUT \in Nat \ {0}
ASSUME ScenesAssumption == SCENE_COUNT \in Nat \ {0}

VARIABLES
  provisioned,
  held,          (* the buttons that are down                              *)
  since,         (* uptime minus press_start_time, up to the first value
                    beyond the threshold                                   *)
  direction,
  current_scene,
  timer,         (* ms until a delayable work is due, Unset if not scheduled *)
  queue,         (* the works the work queue has to run                    *)
  serial,        (* the command the shell is running, and how far it is    *)
  light,         (* the last OnOff, and the move under way                 *)
  missed         (* the last message to the light did not reach it         *)

lamp == <<light, missed>>
buttons == <<held, since>>
works == <<timer, queue>>

vars == <<provisioned, buttons, direction, current_scene, works, serial, lamp>>

Buttons == {"dimmer", "scene"}
Works == {"start", "stop"}
Commands == {"on", "off", "dim"}
Unset == -1

TypeOK ==
  /\ provisioned \in BOOLEAN
  /\ held \subseteq Buttons
  /\ since \in [Buttons -> 0 .. SHORT_PRESS_THRESHOLD_MS + 1]
  /\ direction \in {"up", "down"}
  /\ current_scene \in 1 .. SCENE_COUNT
  /\ timer \in [Works -> {Unset} \cup Nat]
  /\ queue \in Seq(Works)
  /\ serial \in [at : {"idle", "called", "start_cancelled", "stop_cancelled"},
                 command : Commands]
  /\ light \in [on : BOOLEAN, moving : {"no", "up", "down"}]
  /\ missed \in BOOLEAN

Init ==
  /\ provisioned \in BOOLEAN
  /\ held = {} /\ since = [b \in Buttons |-> 0]
  /\ direction = "down"
  /\ current_scene = 1
  /\ timer = [w \in Works |-> Unset] /\ queue = << >>
  /\ serial = [at |-> "idle", command |-> "off"]
  /\ light = [on |-> FALSE, moving |-> "no"] /\ missed = FALSE

-----------------------------------------------------------------------------
(* The kernel                                                              *)

Queued(w) == \E i \in 1 .. Len(queue) : queue[i] = w

(* k_work_reschedule with no delay; a work that is queued stays where it is. *)
submit(w) ==
  /\ timer' = [timer EXCEPT ![w] = Unset]
  /\ queue' = IF Queued(w) THEN queue ELSE Append(queue, w)

(* k_work_cancel_delayable; its callers run while nothing is queued. *)
k_work_cancel_delayable(w) ==
  timer' = [timer EXCEPT ![w] = Unset] /\ UNCHANGED queue

(* The work queue is between two works and has none to run. *)
Quiet == queue = << >>

timer_expired(w) ==
  /\ timer[w] = 0
  /\ submit(w)
  /\ UNCHANGED <<provisioned, buttons, direction, current_scene, serial, lamp>>

tick ==
  /\ Quiet /\ \A w \in Works : timer[w] # 0
  /\ since' = [b \in Buttons |->
       IF since[b] <= SHORT_PRESS_THRESHOLD_MS THEN since[b] + 1 ELSE since[b]]
  /\ timer' = [w \in Works |->
       IF timer[w] = Unset THEN Unset ELSE timer[w] - 1]
  /\ UNCHANGED <<provisioned, held, direction, current_scene, queue, serial,
                 lamp>>

(* The dimmer is provisioned, which takes longer from the boot than a short
   press; it never leaves the network again. *)
joined ==
  /\ ~provisioned
  /\ \A b \in Buttons : since[b] > SHORT_PRESS_THRESHOLD_MS
  /\ provisioned' = TRUE
  /\ UNCHANGED <<buttons, direction, current_scene, works, serial, lamp>>

-----------------------------------------------------------------------------
(* What the dimmer sends, as the light takes it                            *)

(* The light takes a message, or misses it and stays as it is. *)
Sends(obeyed) ==
  \/ light' = obeyed /\ missed' = FALSE
  \/ UNCHANGED light /\ missed' = TRUE

publish_onoff_set(turn_on) == Sends([on |-> turn_on, moving |-> "no"])

(* Generic Level Delta Set: a step, at the end of which the light stands. *)
publish_delta_step == Sends([light EXCEPT !.moving = "no"])

move_set(delta) == Sends([light EXCEPT !.moving = delta])

-----------------------------------------------------------------------------
(* The works                                                               *)

(* The work at the head of the queue runs to its end. *)
Runs(w) ==
  /\ queue # << >> /\ Head(queue) = w
  /\ queue' = Tail(queue)
  /\ UNCHANGED <<provisioned, buttons, direction, current_scene, serial>>

(* Mutant: a move is not given an end. *)
dimmer_start_endless ==
  /\ Runs("start")
  /\ move_set(direction)
  /\ UNCHANGED timer

(* The stop is scheduled whether or not the move could be sent. *)
dimmer_start ==
  /\ Runs("start")
  /\ move_set(direction)
  /\ timer' = [timer EXCEPT !["stop"] = LONG_PRESS_TIMEOUT]

dimmer_stop ==
  /\ Runs("stop")
  /\ move_set("no")
  /\ UNCHANGED timer

-----------------------------------------------------------------------------
(* The buttons                                                             *)

(* button_handler_cb, for the button that changed. *)
Changed(b, nowHeld) ==
  /\ Quiet
  /\ held' = IF nowHeld THEN held \cup {b} ELSE held \ {b}
  /\ (b \in held) # nowHeld
  /\ UNCHANGED <<provisioned, serial>>

(* A dimmer that is not provisioned ignores its buttons. *)
button_ignored(b, nowHeld) ==
  /\ Changed(b, nowHeld)
  /\ ~provisioned
  /\ UNCHANGED <<since, direction, current_scene, works, lamp>>

dimmer_pressed ==
  /\ Changed("dimmer", TRUE)
  /\ provisioned
  /\ direction' = IF direction = "up" THEN "down" ELSE "up"
  /\ since' = [since EXCEPT !["dimmer"] = 0]
  /\ timer' = [timer EXCEPT !["start"] = SHORT_PRESS_THRESHOLD_MS]
  /\ UNCHANGED <<current_scene, queue, lamp>>

dimmer_long_release ==
  /\ Changed("dimmer", FALSE)
  /\ provisioned
  /\ since["dimmer"] >= SHORT_PRESS_THRESHOLD_MS
  /\ submit("stop")
  /\ UNCHANGED <<since, direction, current_scene, lamp>>

(* Mutant: the dimming that was about to start is not cancelled. *)
dimmer_short_release_uncancelled ==
  /\ Changed("dimmer", FALSE)
  /\ provisioned
  /\ since["dimmer"] < SHORT_PRESS_THRESHOLD_MS
  /\ publish_onoff_set(direction = "up")
  /\ UNCHANGED <<since, direction, current_scene, works>>

dimmer_short_release ==
  /\ Changed("dimmer", FALSE)
  /\ provisioned
  /\ since["dimmer"] < SHORT_PRESS_THRESHOLD_MS
  /\ k_work_cancel_delayable("start")
  /\ publish_onoff_set(direction = "up")
  /\ UNCHANGED <<since, direction, current_scene>>

scene_pressed ==
  /\ Changed("scene", TRUE)
  /\ provisioned
  /\ since' = [since EXCEPT !["scene"] = 0]
  /\ UNCHANGED <<direction, current_scene, works, lamp>>

(* A long press stores the current scene and changes nothing here. *)
scene_stored ==
  /\ Changed("scene", FALSE)
  /\ provisioned
  /\ since["scene"] > SHORT_PRESS_THRESHOLD_MS
  /\ UNCHANGED <<since, direction, current_scene, works, lamp>>

(* Mutant: compared after the scene was counted up. *)
next_scene_late_wrap ==
  IF current_scene > SCENE_COUNT THEN 1 ELSE current_scene + 1

next_scene == IF current_scene >= SCENE_COUNT THEN 1 ELSE current_scene + 1

(* A short press recalls the next scene; what a scene holds is not modelled. *)
scene_recalled ==
  /\ Changed("scene", FALSE)
  /\ provisioned
  /\ since["scene"] <= SHORT_PRESS_THRESHOLD_MS
  /\ current_scene' = next_scene
  /\ UNCHANGED <<since, direction, works, lamp>>

-----------------------------------------------------------------------------
(* The serial commands: model_handler_onoff_set, model_handler_dim_step    *)

Serial(from, to) ==
  /\ Quiet
  /\ serial.at = from
  /\ serial' = [serial EXCEPT !.at = to]
  /\ UNCHANGED <<provisioned, buttons, direction, current_scene>>

(* A command that is refused, for its percentage or because the dimmer is not
   provisioned, does nothing. *)
serial_called(command) ==
  /\ Quiet /\ provisioned
  /\ serial.at = "idle"
  /\ serial' = [at |-> "called", command |-> command]
  /\ UNCHANGED <<provisioned, buttons, direction, current_scene, works, lamp>>

cancel_start ==
  /\ Serial("called", "start_cancelled")
  /\ k_work_cancel_delayable("start")
  /\ UNCHANGED lamp

cancel_stop ==
  /\ Serial("start_cancelled", "stop_cancelled")
  /\ k_work_cancel_delayable("stop")
  /\ UNCHANGED lamp

(* The stop is cancelled by now, and a failure is returned to the shell, which
   prints it: a move that was under way then goes on. *)
serial_published ==
  /\ Serial("stop_cancelled", "idle")
  /\ \/ serial.command \in {"on", "off"}
        /\ publish_onoff_set(serial.command = "on")
     \/ serial.command = "dim" /\ publish_delta_step
  /\ UNCHANGED works

-----------------------------------------------------------------------------

WorkQueue == dimmer_start \/ dimmer_stop

Shell == cancel_start \/ cancel_stop \/ serial_published

Button ==
  \/ \E b \in Buttons, nowHeld \in BOOLEAN : button_ignored(b, nowHeld)
  \/ dimmer_pressed \/ dimmer_long_release \/ dimmer_short_release
  \/ scene_pressed \/ scene_stored \/ scene_recalled

Expiry == \E w \in Works : timer_expired(w)

Next ==
  \/ WorkQueue \/ Expiry \/ tick \/ joined \/ Button \/ Shell
  \/ \E command \in Commands : serial_called(command)

Spec == Init /\ [][Next]_vars

(* Queued works run, due timers expire, time passes and the shell goes on;
   nothing is assumed of whoever presses buttons and types commands. *)
FairSpec ==
  /\ Spec
  /\ WF_vars(WorkQueue) /\ WF_vars(Expiry) /\ WF_vars(tick) /\ WF_vars(Shell)

-----------------------------------------------------------------------------
(* What the dimmer promises                                                *)

StopPending == timer["stop"] # Unset \/ Queued("stop")

(* While the light moves, a stop is scheduled or queued, or a serial command
   that cancelled it is about to replace the move, or the last message, which
   was to end the move, missed the light: no order of presses, releases,
   commands and late timers leaves a move without an end if the messages sent
   arrive. *)
EveryMoveHasItsEnd ==
  light.moving # "no" => StopPending \/ serial.at = "stop_cancelled" \/ missed

(* A short press never dims: once the button is up, a start is only scheduled
   if the press was long. *)
ShortPressNeverDims ==
  timer["start"] # Unset /\ "dimmer" \notin held
    => since["dimmer"] >= SHORT_PRESS_THRESHOLD_MS

(* No light moves for ever, even when the button is never released, unless a
   message misses it. *)
MovingEnds == light.moving # "no" ~> light.moving = "no" \/ missed

-----------------------------------------------------------------------------
(* What a comment says of the dimmer, and the code does not do             *)

(* "Button was released after a long time. Stop dimming immediately.": once the
   button is up and the work queue has done its work, nothing moves, unless the
   light missed the message. *)
ReleaseStops == "dimmer" \notin held /\ Quiet => light.moving = "no" \/ missed
=============================================================================
