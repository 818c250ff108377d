----------------------------- MODULE AvtechKbd -----------------------------
(***************************************************************************)
(* The keypad driver drivers/input/keyboard/avtech_keyboard.c, that        *)
(* src/kernel_patches.patch adds.  A falling edge starts the press timer,  *)
(* the press timer queues the work item, the work item reads the key over  *)
(* I2C and reports it, and the release timer reports the key released      *)
(* unless the work item saw the same key again in time.                    *)
(*                                                                         *)
(* There is one core and no lock: the interrupt and both timers (hard      *)
(* interrupts) run to the end, between any two steps of the work item.     *)
(* pc is where the work item is.  Time is not counted: an armed timer may  *)
(* fire at any moment.                                                     *)
(***************************************************************************)
CONSTANTS
  Keys,    \* raw key codes the registers may yield
  Mapped,  \* those with a Linux key code
  None     \* no key: 0

ASSUME KbdAssumption == Mapped \subseteq Keys /\ None \notin Keys

VARIABLES
  press, release,        \* the two timers are armed
  queued,                \* kbd_check_work is pending
  pc, key,               \* the work item and its local key
  key_pressed, lastkey,
  down,                  \* the keys the input core believes to be down
  late                   \* history: the release timer was armed for a released key

vars == <<press, release, queued, pc, key, key_pressed, lastkey, down, late>>
state == <<key_pressed, lastkey, down>>

Init ==
  /\ press = FALSE /\ release = FALSE /\ queued = FALSE
  /\ pc = "idle" /\ key = None
  /\ key_pressed = FALSE /\ lastkey = None
  /\ down = {} /\ late = FALSE
-----------------------------------------------------------------------------
(* The interrupt and the timers. *)

Interrupt ==
  /\ press' = TRUE
  /\ UNCHANGED <<release, queued, pc, key, state, late>>

PressTimer ==
  /\ press /\ press' = FALSE
  /\ queued' = TRUE
  /\ UNCHANGED <<release, pc, key, state, late>>

ReleaseTimer ==
  /\ release /\ release' = FALSE
  /\ key_pressed' = FALSE
  /\ down' = (IF key_pressed THEN down \ {lastkey} ELSE down)
  /\ UNCHANGED <<press, queued, pc, key, lastkey, late>>
-----------------------------------------------------------------------------
(* The work item. *)

At(here, there) == pc = here /\ pc' = there

Check ==
  /\ At("idle", "read")
  /\ queued /\ queued' = FALSE
  /\ UNCHANGED <<press, release, key, state, late>>

\* A failed read leaves the registers uninitialised: any key, or none.
ReadRegs ==
  /\ \E k \in Keys \cup {None} :
       key' = k /\ At("read", IF k = None THEN "idle" ELSE "test")
  /\ UNCHANGED <<press, release, queued, state, late>>

\* Slip: a key that is down is not told from a new one.
NextStepSlip == IF key_pressed /\ key = lastkey THEN "extend" ELSE "report"

\* The same key again is held longer; another key has to wait until it is released.
NextStep ==
  CASE key_pressed /\ key = lastkey -> "extend"
    [] key_pressed /\ key # lastkey -> "idle"
    [] OTHER -> "report"

Test ==
  /\ At("test", NextStep)
  /\ UNCHANGED <<press, release, queued, key, state, late>>

\* Slip: the timer is cancelled only.
ExtendSlip ==
  /\ At("extend", "idle")
  /\ release' = FALSE
  /\ late' = (late \/ ~key_pressed)
  /\ UNCHANGED <<press, queued, key, state>>

\* The timer is cancelled and started, though it may have fired since the test.
Extend ==
  /\ At("extend", "idle")
  /\ release' = TRUE
  /\ late' = (late \/ ~key_pressed)
  /\ UNCHANGED <<press, queued, key, state>>

\* Slip: a raw code without a key is reported like a key.
ReportSlip ==
  /\ At("report", "store")
  /\ down' = down \cup {key}
  /\ UNCHANGED <<press, release, queued, key, key_pressed, lastkey, late>>

\* The input core ignores a key without a key code, and one that is down already.
Report ==
  /\ At("report", "store")
  /\ down' = down \cup ({key} \cap Mapped)
  /\ UNCHANGED <<press, release, queued, key, key_pressed, lastkey, late>>

\* Two plain stores: the compiler may emit them in either order.
StorePressed ==
  /\ At("store", "pressed") \/ At("known", "stored")
  /\ key_pressed' = TRUE
  /\ UNCHANGED <<press, release, queued, key, lastkey, down, late>>

StoreKey ==
  /\ At("store", "known") \/ At("pressed", "stored")
  /\ lastkey' = key
  /\ UNCHANGED <<press, release, queued, key, key_pressed, down, late>>

\* Slip: only a key that is held starts the timer.
ArmSlip == At("stored", "idle") /\ UNCHANGED <<press, release, queued, key, state, late>>

Arm ==
  /\ At("stored", "idle")
  /\ release' = TRUE
  /\ UNCHANGED <<press, queued, key, state, late>>
-----------------------------------------------------------------------------
Work ==
  \/ Check \/ ReadRegs \/ Test \/ Extend \/ Report \/ StorePressed \/ StoreKey \/ Arm

Next == Interrupt \/ PressTimer \/ ReleaseTimer \/ Work

Spec == Init /\ [][Next]_vars

\* An armed timer fires if it is left alone, and the work item runs.
FairSpec == Spec /\ WF_vars(PressTimer) /\ WF_vars(ReleaseTimer) /\ WF_vars(Work)
-----------------------------------------------------------------------------
(* Properties. *)

TypeOK ==
  /\ press \in BOOLEAN /\ release \in BOOLEAN /\ queued \in BOOLEAN
  /\ pc \in {"idle", "read", "test", "extend", "report", "store", "pressed", "known", "stored"}
  /\ key \in Keys \cup {None} /\ lastkey \in Keys \cup {None}
  /\ key_pressed \in BOOLEAN /\ late \in BOOLEAN
  /\ down \subseteq Mapped

\* The driver never deafens itself: while a key counts as pressed, which keeps every other
\* key out, the timer that ends this is armed, or the work item is about to arm it.
PressedIsTimed == key_pressed => release \/ pc \in {"pressed", "stored"}

Reporting == pc \in {"store", "pressed", "known", "stored"}

\* The input core and the driver agree on the one key that is down, wherever the work item
\* was interrupted, as long as the release timer never fired between the test of
\* key_pressed and the restart of the timer.
DownIsPressed ==
  ~late => down = Mapped \cap (CASE Reporting -> {key}
                                 [] ~Reporting /\ key_pressed -> {lastkey}
                                 [] OTHER -> {})

\* When the keypad falls silent the driver comes to take the next key, and no key is left
\* down, unless the release timer was once restarted for a key it had just released: such a
\* timer may end the next key before that is stored.
NoKeyStuck ==
  <>[][~Interrupt]_vars => /\ <>[]~key_pressed
                           /\ []~late => <>[](down = {})
=============================================================================
