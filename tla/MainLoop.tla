------------------------------- MODULE MainLoop -------------------------------
(***************************************************************************)
(* The main loop on its millisecond clock: the periodic tasks              *)
(* (scheduler.c), the activity LEDs (activity.c), the status LED           *)
(* (status_led.c, platform.c:159-168,183), the health bits it shows        *)
(* (main.c:35-41,65) and a restart by the watchdog (main.c:70).            *)
(*                                                                         *)
(* These parts share nothing with an interrupt handler but the clock and   *)
(* ws_busy, and everything before main.c:69 works on the "now" of          *)
(* main.c:34, so an iteration is two steps: from there to main.c:67, and   *)
(* the LEDs.  Time passes between any two.  The clock is absolute here,    *)
(* because 0 means "none" to an activity LED.                              *)
(*                                                                         *)
(* One task stands for the two and one LED for the four: each has a state  *)
(* of its own.  A sensor is what its own module says of it: the flow       *)
(* sensor starts, serves, or is down with its fault bit set                *)
(* (FlowSensor!FaultMeansDown), the range sensor serves or does not.       *)
(***************************************************************************)
EXTENDS WrapTime

CONSTANTS
  LOOP_MAX,    \* the longest iteration, in ticks
  PERIOD,      \* of the task
  HOLD,        \* ACTIVITY_LED_HOLD_MS
  LAMP_GAP     \* status_led.c:25: ticks from one colour to the next

ASSUME MainLoopAssumption ==
  /\ CLOCK \in Nat
  /\ {LOOP_MAX, PERIOD, HOLD, LAMP_GAP} \subseteq Nat \ {0}
  /\ \A wait \in {PERIOD, HOLD, LAMP_GAP} : 2 * (wait + LOOP_MAX) < CLOCK
  /\ 4 * LOOP_MAX < CLOCK

Colours == {"off", "blue", "green", "red", "yellow", "purple"}
Patterns == (Colours \ {"off"}) \cup {"fast red"}
Sensor == {"starting", "serving", "faulted"}

\* The health bits a colour depends on; the range sensor's stands for
\* HEALTH_I2C_FAULT too, which goes with it (main.c:39).
Bits == {"PMW_FAULT", "TOF_FAULT", "CAN_BUS_OFF"}

VARIABLES
  pc, millis, now,
  deadline,               \* periodic_task_t
  led, off_at,            \* an activity LED and its entry of off_at
  pmw, tof, bus_off,      \* what the loop has found of the sensors and the bus
  health,
  lamp,                   \* the colour the status LED shows
  last, next, ws_busy,    \* status_led.c:24, platform.c:50
  phase,                  \* history: time since the task's last release, mod PERIOD
  endsAtZero,             \* history: the last hold ends where the clock reads 0
  sincePulse,             \* history: the time since the now of the last pulse
  wrongFor                \* history: how long the lamp has not shown what lasts

task    == <<deadline>>
pulse   == <<led, off_at, endsAtZero, sincePulse>>
world   == <<pmw, tof, bus_off, health>>
drive   == <<last, next, ws_busy>>
vars    == <<pc, millis, now, task, pulse, world, lamp, drive, phase, wrongFor>>

\* Bounds of the two history clocks; an LED that is out needs no more than HOLD.
SINCE_MAX == HOLD + 2 * LOOP_MAX
WRONG_MAX == LAMP_GAP + 2 * LOOP_MAX

-----------------------------------------------------------------------------
(* The scheduler. *)

\* Mutant: the next deadline counts from the run, not from the last deadline.
periodic_task_due_Drifts ==
  deadline' = IF time_reached_u32(now', deadline) THEN Plus(now', PERIOD) ELSE deadline

\* scheduler.c:4; the loop that skips missed periods ends at the first
\* deadline that is not reached.
periodic_task_due ==
  IF time_reached_u32(now', deadline)
    THEN \E k \in 1 .. CLOCK :
           /\ deadline' = Plus(deadline, k * PERIOD)
           /\ ~time_reached_u32(now', deadline')
           /\ \A j \in 1 .. k - 1 : time_reached_u32(now', Plus(deadline, j * PERIOD))
    ELSE UNCHANGED deadline

-----------------------------------------------------------------------------
(* The activity LEDs. *)

activity_pulse ==
  /\ led' = TRUE /\ off_at' = Plus(now', HOLD)
  /\ endsAtZero' = (off_at' = 0) /\ sincePulse' = 0

\* Mutant: the LED goes out only on the tick itself.
activity_step_Exactly ==
  /\ IF off_at # 0 /\ now = off_at
       THEN led' = FALSE /\ off_at' = 0
       ELSE UNCHANGED <<led, off_at>>
  /\ UNCHANGED <<endsAtZero, sincePulse>>

activity_step ==
  /\ IF off_at # 0 /\ time_reached_u32(now, off_at)
       THEN led' = FALSE /\ off_at' = 0
       ELSE UNCHANGED <<led, off_at>>
  /\ UNCHANGED <<endsAtZero, sincePulse>>

-----------------------------------------------------------------------------
(* The status LED. *)

\* status_led.c:10-18, by priority.  The bits of an RTOS and of the watchdog
\* (status_led.c:10,12,13) are never set in this firmware.
select_pattern(init) ==
  CASE "CAN_BUS_OFF" \in health                   -> "purple"
    [] health = {"PMW_FAULT", "TOF_FAULT"}        -> "fast red"
    [] health = {"PMW_FAULT"}                     -> "red"
    [] health = {"TOF_FAULT"}                     -> "yellow"
    [] health = {} /\ init                        -> "blue"
    [] OTHER                                      -> "green"

\* Blue and green are steady; where in its period a blinking pattern is, is left
\* open.  The two reds are one colour, and differ in how fast they blink.
Shades(pattern) ==
  CASE pattern \in {"blue", "green"} -> {pattern}
    [] pattern = "fast red"          -> {"red", "off"}
    [] OTHER                         -> {pattern, "off"}

\* The transfer is the lamp's next colour until its end.
platform_ws2812_start == ~ws_busy /\ ws_busy' = TRUE

\* status_led.c:24-25: a new colour is sent when the last transfer is over and its
\* gap has passed.
status_led_step ==
  \E colour \in Shades(select_pattern(~tof \/ pmw # "serving")) :
    IF colour # last /\ time_reached_u32(now, next) /\ ~ws_busy
      THEN platform_ws2812_start /\ last' = colour /\ next' = Plus(now, LAMP_GAP)
      ELSE UNCHANGED drive

-----------------------------------------------------------------------------
(* The loop. *)

\* main.c:16-29, activity_init and the initial values of the statics; the last
\* colour is one that no pattern has.
Init ==
  /\ pc = "top" /\ millis = 0 /\ now = 0
  /\ deadline = PERIOD /\ phase = 0
  /\ led = FALSE /\ off_at = 0 /\ endsAtZero = FALSE /\ sincePulse = SINCE_MAX
  /\ pmw = "starting" /\ tof = FALSE /\ bus_off = FALSE /\ health = {}
  /\ lamp = "off" /\ last = "none" /\ next = 0 /\ ws_busy = FALSE
  /\ wrongFor = 0

\* main.c:35-38: the flow sensor comes up, fails while coming up or in service,
\* or stays as it is.  A fault bit lasts until the sensor is up.
Pmw ==
  \/ UNCHANGED pmw
  \/ pmw # "serving" /\ pmw' = "serving"
  \/ pmw' = "faulted"

\* Mutant: the range sensor's bit is only ever set.
Health_KeepsTof ==
  health' = (IF pmw' = "faulted" THEN {"PMW_FAULT"} ELSE {})
            \cup (IF tof' THEN health \cap {"TOF_FAULT"} ELSE {"TOF_FAULT"})
            \cup (IF bus_off' THEN {"CAN_BUS_OFF"} ELSE {})

\* main.c:35-39,65: each statement sets or clears its own bit; the flow sensor's
\* is set when it goes down and cleared when it comes up.
Health ==
  health' = (IF pmw' = "faulted" THEN {"PMW_FAULT"} ELSE {})
            \cup (IF tof' THEN {} ELSE {"TOF_FAULT"})
            \cup (IF bus_off' THEN {"CAN_BUS_OFF"} ELSE {})

\* main.c:34-65.  The LED is pulsed or not (main.c:35,39,60,63).
Work ==
  /\ pc = "top" /\ pc' = "leds"
  /\ now' = millis
  /\ Pmw /\ tof' \in BOOLEAN /\ bus_off' \in BOOLEAN /\ Health
  /\ periodic_task_due
  /\ activity_pulse \/ UNCHANGED pulse
  /\ wrongFor' = IF UNCHANGED <<pmw, tof, bus_off>> THEN wrongFor ELSE 0
  /\ UNCHANGED <<millis, lamp, drive, phase>>

\* main.c:69-70.
Leds ==
  /\ pc = "leds" /\ pc' = "top"
  /\ activity_step /\ status_led_step
  /\ UNCHANGED <<millis, now, task, world, lamp, phase, wrongFor>>

-----------------------------------------------------------------------------
(* Interrupts, the lamp, time and the watchdog. *)

\* The 24 bits have been shifted out.
DMA1_Channel2_IRQHandler ==
  /\ ws_busy /\ ws_busy' = FALSE
  /\ lamp' = last
  /\ UNCHANGED <<pc, millis, now, task, pulse, world, last, next, phase, wrongFor>>

\* README.md:107: a colour is shown only in the state it stands for, and a dark lamp
\* only in one whose pattern blinks.  Bus-off hides what the sensors do, a fault
\* that the other sensor starts.
Truthful ==
  /\ lamp = "green" <=> pmw = "serving" /\ tof /\ ~bus_off
  /\ lamp = "blue" <=> pmw = "starting" /\ tof /\ ~bus_off
  /\ lamp = "yellow" => pmw # "faulted" /\ ~tof /\ ~bus_off
  /\ lamp = "red" => pmw = "faulted" /\ ~bus_off
  /\ lamp = "purple" => bus_off

\* next looks farther ahead than it is ever set: it was reached more than half
\* the clock ago.
LeftBehind == (next - millis) % CLOCK \in LAMP_GAP + 1 .. CLOCK \div 2

\* From one reading of the clock to the next at most LOOP_MAX ticks pass; a
\* transfer takes 60 us and ends within its tick.
SysTick_Handler ==
  /\ (millis - now) % CLOCK < LOOP_MAX
  /\ ~ws_busy
  /\ millis' = Plus(millis, 1)
  /\ phase' = (phase + 1) % PERIOD
  /\ sincePulse' = IF sincePulse = SINCE_MAX \/ (~led /\ sincePulse >= HOLD)
                     THEN SINCE_MAX ELSE sincePulse + 1
  /\ wrongFor' = IF Truthful \/ LeftBehind THEN 0
                 ELSE IF wrongFor < WRONG_MAX THEN wrongFor + 1 ELSE wrongFor
  /\ UNCHANGED <<pc, now, task, led, off_at, endsAtZero, world, lamp, drive>>

\* Mutant: the last colour starts as the one a powered-up lamp has.
Restart_AssumesDark ==
  /\ pc' = "top" /\ millis' = 0 /\ now' = 0
  /\ deadline' = PERIOD /\ phase' = 0
  /\ led' = FALSE /\ off_at' = 0 /\ endsAtZero' = FALSE /\ sincePulse' = SINCE_MAX
  /\ pmw' = "starting" /\ tof' = FALSE /\ bus_off' = FALSE /\ health' = {}
  /\ last' = "off" /\ next' = 0 /\ ws_busy' = FALSE
  /\ wrongFor' = 0
  /\ UNCHANGED lamp

\* The watchdog restarts the controller; everything starts as in Init but the
\* status LED, which keeps the colour it shows, even if a transfer is cut short.
Restart ==
  /\ pc' = "top" /\ millis' = 0 /\ now' = 0
  /\ deadline' = PERIOD /\ phase' = 0
  /\ led' = FALSE /\ off_at' = 0 /\ endsAtZero' = FALSE /\ sincePulse' = SINCE_MAX
  /\ pmw' = "starting" /\ tof' = FALSE /\ bus_off' = FALSE /\ health' = {}
  /\ last' = "none" /\ next' = 0 /\ ws_busy' = FALSE
  /\ wrongFor' = 0
  /\ UNCHANGED lamp

Next == Work \/ Leds \/ DMA1_Channel2_IRQHandler \/ SysTick_Handler \/ Restart

Spec == Init /\ [][Next]_vars

-----------------------------------------------------------------------------
TypeOK ==
  /\ pc \in {"top", "leds"} /\ millis \in Time /\ now \in Time
  /\ deadline \in Time /\ phase \in 0 .. PERIOD - 1
  /\ led \in BOOLEAN /\ off_at \in Time /\ endsAtZero \in BOOLEAN /\ sincePulse \in 0 .. SINCE_MAX
  /\ pmw \in Sensor /\ tof \in BOOLEAN /\ bus_off \in BOOLEAN /\ health \subseteq Bits
  /\ lamp \in Colours /\ last \in Colours \cup {"none"} /\ next \in Time /\ ws_busy \in BOOLEAN
  /\ wrongFor \in 0 .. WRONG_MAX

\* scheduler.c:4: the releases of a task stay a period apart, counted from its
\* initialisation, however late the loop comes and wherever the clock wraps: after
\* the scheduler has been asked, the next release is the first one to come.
GridIsKept ==
  /\ LET ahead == (deadline - millis) % CLOCK
         signed == IF ahead < CLOCK \div 2 THEN ahead ELSE ahead - CLOCK
     IN  (signed + phase) % PERIOD = 0
  /\ pc = "leds" => (deadline - now) % CLOCK \in 1 .. PERIOD

\* activity.c:6-7, README.md:107, "stay on for 30 ms per event": a lit LED goes out
\* when its hold is over and at most two iterations later, never before,
\* except that a hold that ends where the clock reads 0 does not end.
PulseEnds ==
  /\ sincePulse = SINCE_MAX /\ led => endsAtZero
  /\ ~led => sincePulse >= HOLD

\* status_led.c:25, main.c:35-41,65,69: the lamp shows a state of the sensors and the
\* bus that lasts, at most a gap and two iterations late, after a restart too.  This
\* says nothing of a lamp whose next was left behind by one colour shown for more
\* than half the clock: there the code does show a state that is over.
LampIsTruthful == wrongFor < WRONG_MAX
=============================================================================
