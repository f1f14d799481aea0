--------------------------- MODULE WindowGeometry ---------------------------
(***************************************************************************)
(* One window of the display server (src/Kernel/Display_server.c): where it *)
(* is, how large it is, the pixels allocated for it, and its animation. The *)
(* thread of its client serves one packet after another; the compositor     *)
(* advances the animation once a frame, without the lock of the window: it   *)
(* takes the time, tests "active" and works out how far the animation is,    *)
(* and then stores what follows, each in a step of its own.                 *)
(*                                                                         *)
(* A position is one number, a size the number of pixels. The value of an   *)
(* animation under way is any position or opacity: the easing overshoots.   *)
(***************************************************************************)
EXTENDS Naturals

CONSTANTS
  Positions,      (* 0 is the corner of the screen                          *)
  Sizes,          (* sizes a client asks for                                *)
  Screen,         (* the size of a maximized window                         *)
  Duration,       (* ticks an animation lasts                               *)
  Orderly         (* environment: TRUE when the client maximizes a normal   *)
                  (* window, restores a maximized one, resizes a normal one *)

(* Assumed of the constants; the modules that instantiate this one check it. *)
GeometryAssumption ==
  /\ 0 \in Positions
  /\ Sizes \subseteq Nat /\ Sizes # {}
  /\ Screen \in Nat
  /\ Duration \in Nat \ {0}
  /\ Orderly \in BOOLEAN

VARIABLES
  geom,           (* win->geom                                              *)
  saved,          (* win->saved_geom                                        *)
  fb,             (* the number of pixels win->fb has room for              *)
  maximized,      (* flag 8                                                 *)
  opacity,        (* win->effects.opacity, in halves: 0, 1 or 2             *)
  anim,           (* win->anim; "left" is its duration less the time since  *)
                  (* its start_time, never below 0                          *)
  starting,       (* the animation start_animation has still to write down  *)
  pc,             (* where the client's thread is in start_animation         *)
  frame           (* update_animations, of this window: not begun, or begun  *)
                  (* at a time that is "late" or "early" in the animation;   *)
                  (* then bound to end the animation or to advance it        *)

vars == <<geom, saved, fb, maximized, opacity, anim, starting, pc, frame>>

Opacities == 0 .. 2
Move(x) == [type |-> "move", end |-> x, left |-> Duration]
Fade(o) == [type |-> "fade", end |-> o, left |-> Duration]

(* create_window; its thread goes on to animate_window_open. The animation  *)
(* of a new window is all zeros, and type 0 is a move.                      *)
Init ==
  /\ geom \in [pos : Positions, size : Sizes]
  /\ saved = geom
  /\ fb = geom.size
  /\ maximized = FALSE
  /\ opacity = 2
  /\ anim = [type |-> "move", end |-> 0, left |-> 0, active |-> FALSE]
  /\ starting = Fade(2)
  /\ pc = "activate"
  /\ frame = "none"

(* start_animation sets "active" first and describes the animation after.   *)
(* (A frame that falls between two of the later writes moves the window to   *)
(* some value of the old or new animation: Advance covers that.) An          *)
(* animation that starts after a frame has taken the time has, for that      *)
(* frame, begun in the future: the unsigned difference of line 422 wraps     *)
(* around and the animation looks over.                                     *)
start_animation ==
  /\ \/ /\ pc = "activate"
        /\ pc' = "describe"
        /\ anim' = [anim EXCEPT !.active = TRUE]
        /\ UNCHANGED frame
     \/ /\ pc = "describe"
        /\ pc' = "idle"
        /\ frame' \in IF frame \in {"late", "early"} THEN {"late", "early"} ELSE {frame}
        /\ anim' = [anim EXCEPT !.type = starting.type, !.end = starting.end,
                                !.left = starting.left]
  /\ UNCHANGED <<geom, saved, fb, maximized, opacity, starting>>

(* SDP_MOVE_WINDOW: animate_window_move.                                    *)
MoveWindow(x) ==
  /\ pc = "idle"
  /\ starting' = Move(x)
  /\ pc' = "activate"
  /\ UNCHANGED <<geom, saved, fb, maximized, opacity, anim, frame>>

(* Mutant: a resize that keeps the old pixels.                              *)
resize_keeps_fb(n) ==
  /\ pc = "idle"
  /\ Orderly => ~ maximized
  /\ geom' = [geom EXCEPT !.size = n]
  /\ UNCHANGED <<saved, fb, maximized, opacity, anim, starting, pc, frame>>

resize_window(n) ==
  /\ pc = "idle"
  /\ Orderly => ~ maximized
  /\ geom' = [geom EXCEPT !.size = n]
  /\ fb' = n
  /\ UNCHANGED <<saved, maximized, opacity, anim, starting, pc, frame>>

(* set_window_flags with flag 8: maximize and restore.                      *)
set_window_flags(on) ==
  /\ pc = "idle"
  /\ Orderly => on # maximized
  /\ maximized' = on
  /\ IF on
       THEN saved' = geom /\ geom' = [pos |-> 0, size |-> Screen]
       ELSE geom' = saved /\ UNCHANGED saved
  /\ UNCHANGED <<fb, opacity, anim, starting, pc, frame>>

(* What a frame does to an animation under way, by the type it reads at      *)
(* line 436; nothing else uses the values.                                  *)
Advance ==
  \/ anim.type = "move" /\ UNCHANGED opacity
                        /\ \E x \in Positions : geom' = [geom EXCEPT !.pos = x]
  \/ anim.type = "fade" /\ opacity' \in Opacities /\ UNCHANGED geom

(* Mutant: an animation that goes on when its time is over.                 *)
animate_for_ever ==
  /\ anim.active
  /\ Advance
  /\ UNCHANGED <<saved, fb, maximized, anim, starting, pc, frame>>

(* update_animations: the frame takes the time; it tests "active" and        *)
(* compares; and it ends the animation, or moves the window on. What the     *)
(* client's thread does between the steps is overwritten: a frame that found *)
(* the old animation over also ends the one started since (line 424).        *)
update_animations ==
  /\ \/ /\ frame = "none"
        /\ frame' = IF anim.left = 0 THEN "late" ELSE "early"
        /\ UNCHANGED <<geom, opacity, anim>>
     \/ /\ frame \in {"late", "early"}
        /\ frame' = IF ~ anim.active THEN "none"
                    ELSE IF frame = "late" THEN "end" ELSE "advance"
        /\ UNCHANGED <<geom, opacity, anim>>
     \/ /\ frame = "end"
        /\ frame' = "none"
        /\ anim' = [anim EXCEPT !.active = FALSE]
        /\ UNCHANGED <<geom, opacity>>
     \/ /\ frame = "advance"
        /\ frame' = "none"
        /\ Advance
        /\ UNCHANGED anim
  /\ UNCHANGED <<saved, fb, maximized, starting, pc>>

Tick ==
  /\ anim.left > 0
  /\ anim' = [anim EXCEPT !.left = @ - 1]
  /\ UNCHANGED <<geom, saved, fb, maximized, opacity, starting, pc, frame>>

Next ==
  \/ start_animation
  \/ \E x \in Positions : MoveWindow(x)
  \/ \E n \in Sizes : resize_window(n)
  \/ \E on \in BOOLEAN : set_window_flags(on)
  \/ update_animations
  \/ Tick

Spec == Init /\ [][Next]_vars

-----------------------------------------------------------------------------
TypeOK ==
  /\ geom \in [pos : Positions, size : Sizes \union {Screen}]
  /\ saved \in [pos : Positions, size : Sizes \union {Screen}]
  /\ fb \in Sizes
  /\ maximized \in BOOLEAN
  /\ opacity \in Opacities
  /\ anim.left \in 0 .. Duration
  /\ pc \in {"idle", "activate", "describe"}
  /\ frame \in {"none", "late", "early", "end", "advance"}

(* For an orderly client the pixels of resize_window and the geometry saved *)
(* by set_window_flags stay in step, whatever animations the compositor runs *)
(* meanwhile: a restored window has exactly the pixels it shows.            *)
RestoredFits ==
  IF maximized THEN saved.size = fb /\ geom.size = Screen ELSE geom.size = fb

(* update_animations ends every animation, also one that start_animation     *)
(* has described while a frame already saw it active: once the client sends  *)
(* no more moves the window comes to rest. Where it rests is not promised:   *)
(* an animation restarted while a frame ends the last one is ended with it,  *)
(* and one that runs its time leaves the window at the last value computed.  *)
AnimationEnds == <>[](pc = "idle") => <>[](~ anim.active)

=============================================================================
