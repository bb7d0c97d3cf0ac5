------------------------------ MODULE ToggleLed ------------------------------
(* The drivers of 12_gpio_irq: an interrupt on the button's falling edge    *)
(* defers the work of toggling the LED, irq.c to a timer that debounces the *)
(* button, top_bottom_half/irq.c to a work item.  The button bounces as it  *)
(* likes; the handler, the deferred callback and rmmod interleave.          *)
(*                                                                          *)
(* handled, toggles, quiet and unserved are history variables: the          *)
(* interrupts handled, the toggles done, the ticks since the last handled   *)
(* interrupt (up to Delay), whether one was handled since the callback last *)
(* started.                                                                 *)
EXTENDS Integers

CONSTANTS
  LedDrivers,   \* the drivers looked at
  Delay,     \* DEBOUNCE_DELAY in ticks
  MaxEdges   \* bound: the falling edges of one behaviour

ASSUME LedDriversAssumption == LedDrivers \subseteq {"debounce", "bottom_half"}
ASSUME DelayAssumption == Delay \in Nat \ {0}
ASSUME MaxEdgesAssumption == MaxEdges \in Nat

VARIABLES
  loaded,              \* the driver that is loaded
  level,               \* the button's GPIO: 0 while it is pressed
  raised,              \* an interrupt is waiting for the handler
  isr,                 \* where button_isr is
  last_button_state,   \* what button_isr last saw
  pending,             \* the timer is armed, or the work item queued
  left,                \* the ticks until the timer expires
  cb,                  \* where the callback or the work handler is
  val,                 \* what the callback last read, of the button or the LED
  led,                 \* the LED's GPIO
  phase,               \* the next step of my_exit, "live" before rmmod
  edges, handled, toggles, quiet, unserved

button == <<level, edges>>
deferred == <<pending, left>>
callback == <<cb, val>>
history == <<handled, toggles, quiet, unserved>>
led_vars == <<loaded, level, raised, isr, last_button_state, pending, left, cb,
          val, led, phase, edges, handled, toggles, quiet, unserved>>

Bit == {0, 1}

TypeOK ==
  /\ loaded \in LedDrivers
  /\ level \in Bit
  /\ raised \in BOOLEAN
  /\ isr \in {"idle", "sample", "defer"}
  /\ last_button_state \in Bit
  /\ pending \in BOOLEAN
  /\ left \in 0 .. Delay
  /\ cb \in {"idle", "read", "compare", "get", "set"}
  /\ val \in Bit
  /\ led \in Bit
  /\ phase \in {"live", "first", "second", "gone"}
  /\ edges \in Nat /\ handled \in Nat /\ toggles \in Nat
  /\ quiet \in 0 .. Delay
  /\ unserved \in BOOLEAN

(* The LED's new value; mutant: it is switched on. *)
SwitchOn(v) == 1
Toggled(v) == 1 - v

(* mod_timer moves the expiry of an armed timer; mutant: add_timer, which   *)
(* an armed timer would have to ignore.                                     *)
ExpiryKept == IF pending THEN left ELSE Delay
Expiry == Delay

(* schedule_work queues the item also while it runs; mutant: only if not.   *)
ScheduledIfIdle == pending \/ cb = "idle"
Scheduled == TRUE

(* The item is off the queue when its handler starts; mutant: it stays.     *)
StillPending == pending
Dequeued == FALSE

(* What my_exit shuts down in each of its last two steps. *)
ShutsDown(p) == IF p = "first" THEN "irq" ELSE "deferred"

LedInit ==
  /\ loaded \in LedDrivers
  /\ level = 1
  /\ raised = FALSE
  /\ isr = "idle"
  /\ last_button_state = 0
  /\ pending = FALSE
  /\ left = 0
  /\ cb = "idle"
  /\ val = 0
  /\ led = 0
  /\ phase = "live"
  /\ edges = 0 /\ handled = 0 /\ toggles = 0
  /\ quiet = Delay
  /\ unserved = FALSE

(* Whether request_irq's handler is still installed. *)
Installed == phase = "live" \/ (phase = "first" /\ ShutsDown("first") = "irq")
               \/ (phase \in {"first", "second"} /\ ShutsDown("second") = "irq")
-----------------------------------------------------------------------------
(* The button goes up or down, pressed, released or bouncing.  A falling    *)
(* edge raises the interrupt; one more while the handler runs is kept.      *)
Flip ==
  /\ level = 0 \/ edges < MaxEdges
  /\ level' = 1 - level
  /\ edges' = edges + level
  /\ raised' = (raised \/ (level = 1 /\ Installed))
  /\ UNCHANGED <<loaded, isr, last_button_state, deferred, callback, led, phase, history>>

(* button_isr starts; the debouncing one has the button to read first.      *)
IsrEnter ==
  /\ raised
  /\ isr = "idle"
  /\ raised' = FALSE
  /\ isr' = IF loaded = "debounce" THEN "sample" ELSE "defer"
  /\ UNCHANGED <<loaded, button, last_button_state, deferred, callback, led, phase, history>>

(* last_button_state = gpiod_get_value(button) *)
IsrSample ==
  /\ isr = "sample"
  /\ last_button_state' = level
  /\ isr' = "defer"
  /\ UNCHANGED <<loaded, button, raised, deferred, callback, led, phase, history>>

(* mod_timer, schedule_work *)
IsrDefer ==
  /\ isr = "defer"
  /\ \/ /\ loaded = "debounce"
        /\ pending' = TRUE
        /\ left' = Expiry
     \/ /\ loaded = "bottom_half"
        /\ pending' = Scheduled
        /\ UNCHANGED left
  /\ isr' = "idle"
  /\ handled' = handled + 1
  /\ quiet' = 0
  /\ unserved' = TRUE
  /\ UNCHANGED <<loaded, button, raised, last_button_state, callback, led, phase, toggles>>

(* Time passes. *)
Tick ==
  /\ left > 0 \/ quiet < Delay
  /\ left' = IF left > 0 THEN left - 1 ELSE 0
  /\ quiet' = IF quiet < Delay THEN quiet + 1 ELSE Delay
  /\ UNCHANGED <<loaded, button, raised, isr, last_button_state, pending, callback,
                 led, phase, handled, toggles, unserved>>
-----------------------------------------------------------------------------
(* The timer expires, or a worker takes the item: its function starts.  It  *)
(* never runs twice at a time.                                              *)
Start ==
  /\ pending
  /\ left = 0
  /\ cb = "idle"
  /\ pending' = Dequeued
  /\ cb' = IF loaded = "debounce" THEN "read" ELSE "get"
  /\ unserved' = FALSE
  /\ UNCHANGED <<loaded, button, raised, isr, last_button_state, left, val, led, phase,
                 handled, toggles, quiet>>

(* debounce_timer_callback reads the button ...                             *)
ReadButton ==
  /\ cb = "read"
  /\ val' = level
  /\ cb' = "compare"
  /\ UNCHANGED <<loaded, button, raised, isr, last_button_state, deferred, led, phase, history>>

(* ... and takes the press for valid if the handler read the same.          *)
Compare ==
  /\ cb = "compare"
  /\ cb' = IF val = last_button_state THEN "get" ELSE "idle"
  /\ UNCHANGED <<loaded, button, raised, isr, last_button_state, deferred, val, led, phase, history>>

(* The LED is toggled: read ... *)
GetLed ==
  /\ cb = "get"
  /\ val' = led
  /\ cb' = "set"
  /\ UNCHANGED <<loaded, button, raised, isr, last_button_state, deferred, led, phase, history>>

(* ... and written. *)
SetLed ==
  /\ cb = "set"
  /\ led' = Toggled(val)
  /\ toggles' = toggles + 1
  /\ cb' = "idle"
  /\ UNCHANGED <<loaded, button, raised, isr, last_button_state, deferred, val, phase,
                 handled, quiet, unserved>>
-----------------------------------------------------------------------------
(* rmmod: my_exit switches the LED off, ... *)
ExitLed ==
  /\ phase = "live"
  /\ led' = 0
  /\ phase' = "first"
  /\ UNCHANGED <<loaded, button, raised, isr, last_button_state, deferred, callback, history>>

(* ... then free_irq waits for the handler ... *)
ExitFreeIrq ==
  /\ phase \in {"first", "second"}
  /\ ShutsDown(phase) = "irq"
  /\ isr = "idle"
  /\ raised' = FALSE
  /\ phase' = IF phase = "first" THEN "second" ELSE "gone"
  /\ UNCHANGED <<loaded, button, isr, last_button_state, deferred, callback, led, history>>

(* ... and del_timer_sync or cancel_work_sync for the callback. *)
CancelSync ==
  /\ phase \in {"first", "second"}
  /\ ShutsDown(phase) = "deferred"
  /\ cb = "idle"
  /\ pending' = FALSE
  /\ left' = 0
  /\ phase' = IF phase = "first" THEN "second" ELSE "gone"
  /\ UNCHANGED <<loaded, button, raised, isr, last_button_state, callback, led, history>>
-----------------------------------------------------------------------------
ButtonIsr == IsrEnter \/ IsrSample \/ IsrDefer
Callback == Start \/ ReadButton \/ Compare \/ GetLed \/ SetLed
Exit == ExitFreeIrq \/ CancelSync

LedNext == Flip \/ ButtonIsr \/ Tick \/ Callback \/ ExitLed \/ Exit

LedSpec == LedInit /\ [][LedNext]_led_vars

(* Time passes, and handlers, callbacks and an rmmod that has begun run on. *)
LedFairness ==
  WF_led_vars(ButtonIsr) /\ WF_led_vars(Tick) /\ WF_led_vars(Callback) /\ WF_led_vars(Exit)

LedFairSpec == LedSpec /\ LedFairness
-----------------------------------------------------------------------------
Active == cb # "idle"

(* However the button bounces, an interrupt toggles the LED at most once:   *)
(* the toggles done, under way and pending are covered by handled           *)
(* interrupts (irq/irq.c:62, 82; top_bottom_half/irq.c:31, 44).             *)
OneTogglePerInterrupt ==
  toggles + (IF Active THEN 1 ELSE 0) + (IF pending THEN 1 ELSE 0) <= handled

(* No toggle is lost between the read and the write of the LED, also when   *)
(* the timer or the item is pending again while its function runs.          *)
LedCountsToggles == phase = "live" => led = toggles % 2

(* The debounce callback starts after the delay has passed without a        *)
(* handled interrupt (irq/irq.c:62).                                        *)
StartsWhenQuiet == [][loaded = "debounce" /\ cb = "idle" /\ cb' = "read" => quiet = Delay]_led_vars

(* Until rmmod cancels it, a handled interrupt after which the deferred     *)
(* function has not been started has its timer armed or its item queued,    *)
(* also when the interrupt came while the function ran (irq/irq.c:62;       *)
(* top_bottom_half/irq.c:44).                                               *)
UnservedIsPending == phase # "gone" /\ unserved => pending

(* An interrupt is followed by a start of the deferred function, unless     *)
(* rmmod cancels it.                                                        *)
InterruptIsServed == unserved ~> ~unserved \/ phase = "gone"
=============================================================================
