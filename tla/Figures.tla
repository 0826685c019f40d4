------------------------------ MODULE Figures ------------------------------
(* The panel's figures (traffic.rs, panel.rs): pumps count what they carry and *)
(* touch one shared flag; the panel sleeps until the flag is raised, then      *)
(* samples once a second for as long as it finds the flag raised again.        *)
(*                                                                             *)
(* Each access to an atomic is a step of its own, in program order. The        *)
(* accesses are relaxed, so a weakly ordered machine may let a pump's look at  *)
(* the flag take effect before its addition; that addition would have to land  *)
(* more than SAMPLE after the tick that took the flag, since the tick that     *)
(* finds the flag raised is followed by another, and is left out.              *)
EXTENDS Naturals

CONSTANTS
    Pumps,
    MaxMoves    \* bound on what the pumps carry

ASSUME FiguresAssumption == MaxMoves \in Nat

VARIABLES
    moves,      \* what the pumps have begun to count
    total,      \* Meter: the running total
    moving,     \* Activity.moving
    permit,     \* Activity.wake's stored permit
    pump,       \* pump -> where it stands in counting and in touch
    at,         \* where the panel stands
    ticking,
    sampled,    \* State.counted: the total of the last sample
    rate,       \* State.figures: what the last sample drew as moving
    openDrawn   \* State.figures' open count: here, the total it was read at

figureVars == <<moves, total, moving, permit, pump, at, ticking, sampled, rate, openDrawn>>
panelVars == <<ticking, sampled, rate, openDrawn>>

FiguresInit ==
    /\ moves = 0 /\ total = 0 /\ moving = FALSE /\ permit = FALSE
    /\ pump = [p \in Pumps |-> "idle"]
    /\ at = "check" /\ ticking = FALSE /\ sampled = 0 /\ rate = 0 /\ openDrawn = 0

-----------------------------------------------------------------------------
(* A pump: Meter's addition, then Activity::touch.                             *)

Goes(p, to) == pump' = [pump EXCEPT ![p] = to]

Carries(p) ==
    /\ pump[p] = "idle" /\ moves < MaxMoves
    /\ moves' = moves + 1 /\ Goes(p, "add")
    /\ UNCHANGED <<total, moving, permit, at, panelVars>>

Adds(p) ==
    /\ pump[p] = "add"
    /\ total' = total + 1 /\ Goes(p, "load")
    /\ UNCHANGED <<moves, moving, permit, at, panelVars>>

LoadsFlag(p) ==
    /\ pump[p] = "load"
    /\ Goes(p, IF moving THEN "idle" ELSE "swap")
    /\ UNCHANGED <<moves, total, moving, permit, at, panelVars>>

SwapsFlag(p) ==
    /\ pump[p] = "swap"
    /\ moving' = TRUE /\ Goes(p, IF moving THEN "idle" ELSE "notify")
    /\ UNCHANGED <<moves, total, permit, at, panelVars>>

(* notify_one: the waiter, or the permit for the next one. *)
Notifies(p) ==
    /\ pump[p] = "notify" /\ Goes(p, "idle")
    /\ IF at = "asleep" THEN at' = "check" /\ UNCHANGED permit
                        ELSE permit' = TRUE /\ UNCHANGED at
    /\ UNCHANGED <<moves, total, moving, panelVars>>

-----------------------------------------------------------------------------
(* The panel.                                                                  *)

(* Traffic::moved looks at the flag before it waits. *)
Checks ==
    /\ at = "check"
    /\ at' = IF moving THEN "recount" ELSE "await"
    /\ UNCHANGED <<moves, total, moving, permit, pump, panelVars>>

Awaits ==
    /\ at = "await"
    /\ at' = IF permit THEN "check" ELSE "asleep"
    /\ permit' = FALSE
    /\ UNCHANGED <<moves, total, moving, pump, panelVars>>

(* An event, a resize or a reload: the wait is dropped and begun again. *)
Interrupted ==
    /\ at \in {"await", "asleep"}
    /\ at' = "check"
    /\ UNCHANGED <<moves, total, moving, permit, pump, panelVars>>

(* Woken: the open counts are read, and the ticks begin. *)
Recount ==
    /\ at = "recount"
    /\ at' = "tick" /\ ticking' = TRUE /\ openDrawn' = total
    /\ UNCHANGED <<moves, total, moving, permit, pump, sampled, rate>>

(* Mutant: the ticks end with the first one, whatever has moved since. *)
TakeMoved_Stops == ticking' = FALSE /\ moving' = FALSE

(* Traffic::take_moved *)
TakeMoved == ticking' = moving /\ moving' = FALSE

(* A tick clears the flag before the totals are read. *)
TickDue ==
    /\ at = "tick"
    /\ TakeMoved /\ at' = "sample"
    /\ UNCHANGED <<moves, total, permit, pump, sampled, rate, openDrawn>>

Sample ==
    /\ at = "sample"
    /\ rate' = total - sampled /\ sampled' = total /\ openDrawn' = total
    /\ at' = IF ticking THEN "tick" ELSE "check"
    /\ UNCHANGED <<moves, total, moving, permit, pump, ticking>>

Panel == Checks \/ Awaits \/ Recount \/ TickDue \/ Sample
Pump(p) == Adds(p) \/ LoadsFlag(p) \/ SwapsFlag(p) \/ Notifies(p)

FiguresNext == (\E p \in Pumps : Carries(p) \/ Pump(p)) \/ Panel \/ Interrupted

(* Threads that have begun to count go on, and the panel's task is polled. *)
FiguresFairness ==
    /\ WF_figureVars(Panel)
    /\ \A p \in Pumps : WF_figureVars(Pump(p))

-----------------------------------------------------------------------------

(* Once nothing moves any more, the panel comes to draw the last totals and no *)
(* rate: no wakeup is lost, and "the last sample drawn is never one that still *)
(* has bytes in it" (panel.rs).                                                *)
FiguresSettle == <>[](rate = 0 /\ sampled = total /\ openDrawn = total)

=============================================================================
