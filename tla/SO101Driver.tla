---------------------------- MODULE SO101Driver ----------------------------
(***************************************************************************)
(* The arm as so101.SO101Driver and bimanual_so101.BimanualSO101Driver     *)
(* keep it: the driver's mode, whether enable() was ever called, whether   *)
(* the servos are powered, and where the arm measurably is.  Each driver   *)
(* call is an operator from the arm before to the arm after, so that a     *)
(* handler that makes several calls composes them.                         *)
(*                                                                         *)
(* Abstracted: joint angles, to the saved pose they are near, if any; the  *)
(* two arms of a bimanual station, to one that stands for both.  A call    *)
(* that raises because the servo bus does not answer leaves Faulted(a).    *)
(***************************************************************************)

CONSTANT Bimanual   \* TRUE: the station runs BimanualSO101Driver

ASSUME BimanualIsBoolean == Bimanual \in BOOLEAN

Poses == {"home", "zero", "away"}
Modes == {"readonly", "active", "hold", "fault"}
Arm   == [mode : Modes, enabledOnce : BOOLEAN, torque : BOOLEAN, pose : Poses]

\* connect(): a read-only attach, which neither powers nor releases the servos.
Attached(torque, pose) ==
    [mode |-> "readonly", enabledOnce |-> FALSE, torque |-> torque, pose |-> pose]

\* state(), move() or hold() could not read or write the bus.
Faulted(a) == [a EXCEPT !.mode = "fault"]

\* The mode state() reports.  The bimanual driver knows "fault" and "active"
\* and calls everything else "readonly", a powered hold included.
ReportedMode(a) == IF Bimanual /\ a.mode = "hold" THEN "readonly" ELSE a.mode

\* enable(), and enable() when enable_torque() raises part-way through.
Enabled(a)       == [a EXCEPT !.mode = "active", !.enabledOnce = TRUE, !.torque = TRUE]
EnableFaulted(a) == {[a EXCEPT !.mode = "fault", !.enabledOnce = TRUE, !.torque = t] :
                        t \in {a.torque, TRUE}}

\* disable(), and disable() when a write or the torque-off verification fails.
\* (Mutant: a mode no caller knows.)
DisabledOff(a)    == [a EXCEPT !.mode = "off", !.torque = FALSE]
Disabled(a)       == [a EXCEPT !.mode = "readonly", !.torque = FALSE]
DisableFaulted(a) == {[a EXCEPT !.mode = "fault", !.torque = t] : t \in {a.torque, FALSE}}

\* hold(): freezes the goal at the measured pose; a fault stays a fault.
Held(a) == IF a.mode = "fault" THEN a
           ELSE [a EXCEPT !.mode = IF a.enabledOnce THEN "hold" ELSE "readonly"]

\* move(): a mode other than "active" is refused before the servos are written.
MayMove(a)  == a.mode = "active"
Moved(a, p) == [a EXCEPT !.pose = p]
=============================================================================
