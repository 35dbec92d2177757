----------------------------- MODULE HoldWindow -----------------------------
(****************************************************************************)
(* What a strategy's hold window promises, whatever events arrive: a        *)
(* trigger is paid for with credit, and credit is the time between one      *)
(* satisfied observation and the next event.  Dark time is never credited;  *)
(* a window that was dark for longer than the grace starts over; whatever   *)
(* else happens to the window, its credit is gone; and no credit is earned  *)
(* before the cooldown of the last trigger is over.                         *)
(****************************************************************************)
EXTENDS Integers

CONSTANTS Hold, Grace, Cooldown, MaxRepeats

VARIABLES
  phase,  \* "idle", "running" (last event satisfied), "dark", "done"
  credit, \* time earned by the window
  clock,  \* the last event that said anything of the window
  dark,   \* when the window went dark
  quiet,  \* the end of the cooldown
  fires   \* triggers so far

vars == <<phase, credit, clock, dark, quiet, fires>>

Init == /\ phase = "idle" /\ credit = 0 /\ clock = 0 /\ dark = 0 /\ quiet = 0 /\ fires = 0

Earned ==
  CASE phase = "running" -> credit + (clock' - clock)
    [] phase = "dark" /\ clock' - dark <= Grace -> credit
    [] OTHER -> 0

\* A satisfied observation that is not enough yet.
Earn == /\ phase # "done" /\ clock' >= quiet
        /\ phase' = "running" /\ credit' = Earned /\ credit' < Hold
        /\ UNCHANGED <<quiet, fires>>

\* The window goes dark, earning what it had when the darkness was noticed, or
\* stays dark within its grace.
Darken == /\ Grace > 0
          /\ \/ phase = "running" /\ dark' = clock'
             \/ phase = "dark" /\ dark' = dark /\ clock' - dark <= Grace
          /\ phase' = "dark" /\ credit' = Earned
          /\ UNCHANGED <<quiet, fires>>

Drop == /\ phase # "done" /\ phase' \in {"idle", "done"} /\ credit' = 0
        /\ UNCHANGED <<quiet, fires>>

Trigger == /\ phase # "done" /\ clock' >= quiet /\ Earned >= Hold
           /\ fires < MaxRepeats /\ fires' = fires + 1
           /\ phase' = (IF fires' < MaxRepeats THEN "idle" ELSE "done")
           /\ quiet' = clock' + Cooldown /\ credit' = 0

Next == clock' >= clock /\ (Earn \/ Darken \/ Drop \/ Trigger)

Spec == Init /\ [][Next]_vars
=============================================================================
