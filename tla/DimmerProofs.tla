----------------------------- MODULE DimmerProofs -----------------------------
(***************************************************************************)
(* Proofs about the dimmer, for every threshold, timeout and number of     *)
(* scenes.                                                                 *)
(***************************************************************************)
EXTENDS Dimmer, TLAPS

(* A press that is not seen schedules nothing. *)
NothingBeforeJoining == ~provisioned => timer["start"] = Unset

IInv ==
  TypeOK /\ EveryMoveHasItsEnd /\ ShortPressNeverDims /\ NothingBeforeJoining

-----------------------------------------------------------------------------
(* The work queue as a sequence                                            *)

(* Submitting a work loses none, and the work is queued afterwards. *)
LEMMA SubmitQueues ==
  ASSUME TypeOK, NEW w \in Works, submit(w)
  PROVE  /\ queue' \in Seq(Works) /\ timer' \in [Works -> {Unset} \cup Nat]
         /\ timer'[w] = Unset
         /\ \A v \in Works : v # w => timer'[v] = timer[v]
         /\ Queued(w)' /\ \A v \in Works : Queued(v) => Queued(v)'
<1>1. CASE Queued(w)
  BY <1>1 DEF TypeOK, submit, Queued
<1>2. CASE ~Queued(w)
  <2>1. queue' = Append(queue, w) /\ queue \in Seq(Works)
    BY <1>2 DEF TypeOK, submit
  <2>2. /\ queue' \in Seq(Works) /\ Len(queue') = Len(queue) + 1
        /\ queue'[Len(queue')] = w
        /\ \A i \in 1 .. Len(queue) : queue'[i] = queue[i]
    BY <2>1
  <2>3. Queued(w)'
    BY <2>1, <2>2 DEF Queued
  <2>4. \A v \in Works : Queued(v) => Queued(v)'
    BY <2>1, <2>2 DEF Queued
  <2> QED BY <2>2, <2>3, <2>4 DEF TypeOK, submit
<1> QED BY <1>1, <1>2

-----------------------------------------------------------------------------
(* Messages: they take effect, or the light missed them                    *)

Lights == [on : BOOLEAN, moving : {"no", "up", "down"}]

LEMMA SentOrMissed ==
  ASSUME TypeOK, NEW obeyed \in Lights, Sends(obeyed)
  PROVE  /\ light' \in Lights /\ missed' \in BOOLEAN
         /\ light' = obeyed \/ missed'
BY DEF TypeOK, Lights, Sends

-----------------------------------------------------------------------------
(* The actions                                                             *)

LEMMA WorkKeepsIInv ==
  ASSUME IInv, WorkQueue
  PROVE  IInv'
<1>1. TypeOK /\ queue' \in Seq(Works)
  <2>1. queue # << >> /\ queue' = Tail(queue)
    BY DEF WorkQueue, dimmer_start, dimmer_stop, Runs
  <2>2. TypeOK
    BY DEF IInv
  <2> QED BY <2>1, <2>2 DEF TypeOK
<1>2. CASE dimmer_start
  <2>1. /\ timer'["stop"] = LONG_PRESS_TIMEOUT
        /\ timer'["start"] = timer["start"]
        /\ timer' \in [Works -> {Unset} \cup Nat]
    BY <1>1, <1>2, TimesAssumption DEF TypeOK, dimmer_start, Works
  <2>2. light' \in Lights /\ missed' \in BOOLEAN
    BY <1>1, <1>2, SentOrMissed DEF TypeOK, Lights, dimmer_start, move_set
  <2> QED
    BY <1>1, <1>2, <2>1, <2>2, TimesAssumption
    DEF IInv, TypeOK, EveryMoveHasItsEnd, StopPending, ShortPressNeverDims,
      NothingBeforeJoining, dimmer_start, Runs, buttons, Unset, Lights
<1>3. CASE dimmer_stop
  <2>1. /\ light' \in Lights /\ missed' \in BOOLEAN
        /\ light'.moving = "no" \/ missed'
    BY <1>1, <1>3, SentOrMissed DEF TypeOK, Lights, dimmer_stop, move_set
  <2> QED
    BY <1>1, <1>3, <2>1
    DEF IInv, TypeOK, EveryMoveHasItsEnd, ShortPressNeverDims,
      NothingBeforeJoining, dimmer_stop, Runs, buttons, Lights
<1> QED BY <1>2, <1>3 DEF WorkQueue

LEMMA TimeKeepsIInv ==
  ASSUME IInv, Expiry \/ tick \/ joined
  PROVE  IInv'
<1>0. TypeOK
  BY DEF IInv
<1>1. ASSUME NEW w \in Works, timer_expired(w)
      PROVE  IInv'
  <2>1. submit(w)
    BY <1>1 DEF timer_expired
  <2>2. /\ queue' \in Seq(Works) /\ timer' \in [Works -> {Unset} \cup Nat]
        /\ timer'[w] = Unset
        /\ \A v \in Works : v # w => timer'[v] = timer[v]
        /\ Queued(w)' /\ \A v \in Works : Queued(v) => Queued(v)'
    BY <1>0, <2>1, SubmitQueues
  <2>3. UNCHANGED <<provisioned, buttons, direction, current_scene, serial,
                    lamp>>
    BY <1>1 DEF timer_expired
  <2>4. StopPending => StopPending'
    BY <2>2 DEF StopPending, Works
  <2>5. timer["start"] = Unset => timer'["start"] = Unset
    BY <2>2 DEF Works
  <2> QED
    BY <1>0, <2>2, <2>3, <2>4, <2>5
    DEF IInv, TypeOK, EveryMoveHasItsEnd, ShortPressNeverDims,
      NothingBeforeJoining, buttons, lamp
<1>2. CASE tick
  <2>1. \A w \in Works : /\ timer'[w] \in {Unset} \cup Nat
                         /\ timer'[w] = Unset <=> timer[w] = Unset
    BY <1>0, <1>2 DEF TypeOK, tick, Unset
  <2>2. /\ timer' \in [Works -> {Unset} \cup Nat]
        /\ since' \in [Buttons -> 0 .. SHORT_PRESS_THRESHOLD_MS + 1]
        /\ since["dimmer"] >= SHORT_PRESS_THRESHOLD_MS
             => since'["dimmer"] >= SHORT_PRESS_THRESHOLD_MS
    BY <1>0, <1>2, <2>1, TimesAssumption DEF TypeOK, tick, Buttons
  <2> QED
    BY <1>0, <1>2, <2>1, <2>2
    DEF IInv, TypeOK, EveryMoveHasItsEnd, StopPending, Queued, Works,
      ShortPressNeverDims, NothingBeforeJoining, tick, lamp
<1>3. CASE joined
  BY <1>0, <1>3
  DEF IInv, TypeOK, EveryMoveHasItsEnd, StopPending, Queued,
    ShortPressNeverDims, NothingBeforeJoining, joined, buttons, works, lamp
<1> QED BY <1>1, <1>2, <1>3 DEF Expiry

(* Whoever touches the start work only, and starts no move. *)
LEMMA StopFrame ==
  ASSUME EveryMoveHasItsEnd, UNCHANGED <<queue, serial>>,
         timer'["stop"] = timer["stop"],
         light'.moving \in {light.moving, "no"}, missed' = missed
  PROVE  EveryMoveHasItsEnd'
BY DEF EveryMoveHasItsEnd, StopPending, Queued

LEMMA ButtonKeepsIInv ==
  ASSUME IInv, Button
  PROVE  IInv'
<1>0. TypeOK
  BY DEF IInv
<1>1. ASSUME NEW b \in Buttons, NEW nowHeld \in BOOLEAN,
             Changed(b, nowHeld)
      PROVE  /\ held' \subseteq Buttons
             /\ b # "dimmer" => ("dimmer" \in held' <=> "dimmer" \in held)
             /\ b = "dimmer" => ("dimmer" \in held' <=> nowHeld)
             /\ UNCHANGED <<provisioned, serial>>
  BY <1>0, <1>1 DEF TypeOK, Changed
<1>2. "dimmer" \in Buttons /\ "scene" \in Buttons
  BY DEF Buttons
<1>3. ASSUME NEW b \in Buttons, NEW nowHeld \in BOOLEAN,
             button_ignored(b, nowHeld)
      PROVE  IInv'
  <2>1. /\ held' \subseteq Buttons /\ UNCHANGED <<provisioned, serial>>
        /\ UNCHANGED <<since, direction, current_scene, works, lamp>>
        /\ ~provisioned
    BY <1>1, <1>3 DEF button_ignored
  <2> QED
    BY <1>0, <2>1 DEF IInv, TypeOK, EveryMoveHasItsEnd, StopPending, Queued,
      ShortPressNeverDims, NothingBeforeJoining, works, lamp
<1>4. CASE dimmer_pressed
  <2>1. /\ held' \subseteq Buttons /\ "dimmer" \in held' /\ provisioned'
        /\ UNCHANGED <<provisioned, serial, current_scene, queue, lamp>>
    BY <1>1, <1>2, <1>4 DEF dimmer_pressed
  <2>2. /\ timer' \in [Works -> {Unset} \cup Nat]
        /\ timer'["stop"] = timer["stop"]
        /\ since' \in [Buttons -> 0 .. SHORT_PRESS_THRESHOLD_MS + 1]
        /\ direction' \in {"up", "down"}
    BY <1>0, <1>4, TimesAssumption DEF TypeOK, dimmer_pressed, Works, Buttons
  <2>3. EveryMoveHasItsEnd'
    BY <2>1, <2>2, StopFrame DEF IInv, lamp
  <2> QED
    BY <1>0, <2>1, <2>2, <2>3 DEF IInv, TypeOK, ShortPressNeverDims,
      NothingBeforeJoining, lamp
<1>5. CASE dimmer_long_release
  <2>1. /\ held' \subseteq Buttons /\ provisioned /\ submit("stop")
        /\ UNCHANGED <<provisioned, serial, since, direction, current_scene,
                       lamp>>
        /\ since["dimmer"] >= SHORT_PRESS_THRESHOLD_MS
    BY <1>1, <1>2, <1>5 DEF dimmer_long_release
  <2>2. "stop" \in Works
    BY DEF Works
  <2>3. /\ queue' \in Seq(Works) /\ timer' \in [Works -> {Unset} \cup Nat]
        /\ StopPending'
    BY <1>0, <2>1, <2>2, SubmitQueues DEF StopPending
  <2> QED
    BY <1>0, <2>1, <2>3 DEF IInv, TypeOK, EveryMoveHasItsEnd,
      ShortPressNeverDims, NothingBeforeJoining, lamp
<1>6. CASE dimmer_short_release
  <2>1. /\ held' \subseteq Buttons
        /\ UNCHANGED <<provisioned, serial, since, direction, current_scene,
                       queue>>
    BY <1>1, <1>2, <1>6 DEF dimmer_short_release, k_work_cancel_delayable
  <2>2. /\ timer' \in [Works -> {Unset} \cup Nat]
        /\ timer'["start"] = Unset /\ timer'["stop"] = timer["stop"]
    BY <1>0, <1>6 DEF TypeOK, dimmer_short_release, k_work_cancel_delayable,
      Works
  <2>3. /\ light' \in Lights /\ missed' \in BOOLEAN
        /\ light'.moving = "no" \/ missed'
    <3>1. [on |-> direction = "up", moving |-> "no"] \in Lights
      BY DEF Lights
    <3>2. Sends([on |-> direction = "up", moving |-> "no"])
      BY <1>6 DEF dimmer_short_release, publish_onoff_set
    <3> QED BY <1>0, <3>1, <3>2, SentOrMissed
  <2> QED
    BY <1>0, <2>1, <2>2, <2>3 DEF IInv, TypeOK, EveryMoveHasItsEnd,
      ShortPressNeverDims, NothingBeforeJoining, Lights
<1>7. CASE scene_pressed \/ scene_stored \/ scene_recalled
  <2>1. /\ held' \subseteq Buttons
        /\ "dimmer" \in held' <=> "dimmer" \in held
        /\ UNCHANGED <<provisioned, serial, direction, works, lamp>>
    BY <1>1, <1>2, <1>7 DEF scene_pressed, scene_stored, scene_recalled
  <2>2. /\ since' \in [Buttons -> 0 .. SHORT_PRESS_THRESHOLD_MS + 1]
        /\ since'["dimmer"] = since["dimmer"]
        /\ current_scene' \in 1 .. SCENE_COUNT
    <3>1. CASE scene_pressed
      BY <1>0, <3>1, TimesAssumption DEF TypeOK, scene_pressed, Buttons
    <3>2. CASE scene_stored
      BY <1>0, <3>2, <1>2 DEF TypeOK, scene_stored
    <3>3. CASE scene_recalled
      BY <1>0, <3>3, <1>2, ScenesAssumption
      DEF TypeOK, scene_recalled, next_scene
    <3> QED BY <1>7, <3>1, <3>2, <3>3
  <2> QED
    BY <1>0, <2>1, <2>2 DEF IInv, TypeOK, EveryMoveHasItsEnd, StopPending,
      Queued, ShortPressNeverDims, NothingBeforeJoining, works, lamp
<1> QED BY <1>3, <1>4, <1>5, <1>6, <1>7 DEF Button

LEMMA SerialKeepsIInv ==
  ASSUME IInv,
         \/ Shell
         \/ \E command \in Commands : serial_called(command)
  PROVE  IInv'
<1>0. TypeOK
  BY DEF IInv
<1>1. ASSUME NEW command \in Commands, serial_called(command)
      PROVE  IInv'
  BY <1>0, <1>1 DEF IInv, TypeOK, EveryMoveHasItsEnd, StopPending, Queued,
    ShortPressNeverDims, NothingBeforeJoining, serial_called, buttons, works,
    lamp
<1>2. ASSUME NEW w \in Works, k_work_cancel_delayable(w)
      PROVE  /\ timer' \in [Works -> {Unset} \cup Nat]
             /\ timer'[w] = Unset
             /\ \A v \in Works : v # w => timer'[v] = timer[v]
             /\ queue' = queue
  BY <1>0, <1>2 DEF TypeOK, k_work_cancel_delayable
<1>3. "start" \in Works /\ "stop" \in Works
  BY DEF Works
<1>4. CASE cancel_start
  BY <1>0, <1>2, <1>3, <1>4 DEF IInv, TypeOK, EveryMoveHasItsEnd, StopPending,
    Queued, ShortPressNeverDims, NothingBeforeJoining, cancel_start, Serial,
    buttons, lamp
<1>5. CASE cancel_stop
  BY <1>0, <1>2, <1>3, <1>5 DEF IInv, TypeOK, EveryMoveHasItsEnd,
    ShortPressNeverDims, NothingBeforeJoining, cancel_stop, Serial, buttons,
    lamp
<1>6. CASE serial_published
  <2>1. /\ light' \in Lights /\ missed' \in BOOLEAN
        /\ light'.moving = "no" \/ missed'
    <3>1. ASSUME NEW turn_on \in BOOLEAN, publish_onoff_set(turn_on)
          PROVE  /\ light' \in Lights /\ missed' \in BOOLEAN
                 /\ light'.moving = "no" \/ missed'
      <4>1. [on |-> turn_on, moving |-> "no"] \in Lights
        BY DEF Lights
      <4> QED BY <1>0, <3>1, <4>1, SentOrMissed DEF publish_onoff_set
    <3>2. ASSUME publish_delta_step
          PROVE  /\ light' \in Lights /\ missed' \in BOOLEAN
                 /\ light'.moving = "no" \/ missed'
      <4>1. /\ [light EXCEPT !.moving = "no"] \in Lights
            /\ [light EXCEPT !.moving = "no"].moving = "no"
        BY <1>0 DEF TypeOK, Lights
      <4> QED BY <1>0, <3>2, <4>1, SentOrMissed DEF publish_delta_step
    <3> QED BY <1>6, <3>1, <3>2 DEF serial_published
  <2> QED
    BY <1>0, <1>6, <2>1 DEF IInv, TypeOK, EveryMoveHasItsEnd,
      ShortPressNeverDims, NothingBeforeJoining, serial_published, Serial,
      buttons, works, Lights
<1> QED BY <1>1, <1>4, <1>5, <1>6 DEF Shell

-----------------------------------------------------------------------------
(* The theorems                                                            *)

LEMMA InitIInv == Init => IInv
<1> SUFFICES ASSUME Init
             PROVE  IInv
  OBVIOUS
<1>1. TypeOK
  <2>1. queue \in Seq(Works) /\ timer \in [Works -> {Unset} \cup Nat]
    BY DEF Init
  <2>2. /\ since \in [Buttons -> 0 .. SHORT_PRESS_THRESHOLD_MS + 1]
        /\ current_scene \in 1 .. SCENE_COUNT
    BY TimesAssumption, ScenesAssumption DEF Init
  <2> QED BY <2>1, <2>2 DEF Init, TypeOK, Commands
<1>2. /\ light.moving = "no" /\ timer["start"] = Unset
  BY DEF Init, Works
<1> QED BY <1>1, <1>2 DEF IInv, EveryMoveHasItsEnd, ShortPressNeverDims,
  NothingBeforeJoining

LEMMA NextIInv == IInv /\ [Next]_vars => IInv'
<1>1. ASSUME IInv, UNCHANGED vars
      PROVE  IInv'
  BY <1>1 DEF vars, buttons, works, IInv, TypeOK, EveryMoveHasItsEnd,
    StopPending, Queued, ShortPressNeverDims, NothingBeforeJoining, lamp
<1> QED
  BY <1>1, WorkKeepsIInv, TimeKeepsIInv, ButtonKeepsIInv, SerialKeepsIInv
  DEF Next

(* The inductive invariant holds in every state of the dimmer. *)
THEOREM Invariant == Spec => []IInv
BY InitIInv, NextIInv, PTL DEF Spec

(* Every variable keeps its type: the scene is always one the dimmer has. *)
THEOREM TypeCorrect == Spec => []TypeOK
<1>1. IInv => TypeOK
  BY DEF IInv
<1> QED BY <1>1, Invariant, PTL

(* No order of presses, releases, timers and commands leaves a move without a
   stop that is still to come, unless the light missed the last message. *)
THEOREM MovesAreBounded == Spec => []EveryMoveHasItsEnd
<1>1. IInv => EveryMoveHasItsEnd
  BY DEF IInv
<1> QED BY <1>1, Invariant, PTL

(* Dimming is never about to start after a short press. *)
THEOREM ShortPressesDoNotDim == Spec => []ShortPressNeverDims
<1>1. IInv => ShortPressNeverDims
  BY DEF IInv
<1> QED BY <1>1, Invariant, PTL
=============================================================================
