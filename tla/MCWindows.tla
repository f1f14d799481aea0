------------------------------ MODULE MCWindows ------------------------------
(***************************************************************************)
(* The windows of the display server.  The list (WindowList) and the         *)
(* geometry of one window (WindowGeometry) share no state, and in a behaviour *)
(* only one of them moves.  What the list goes through is bounded by scenes:  *)
(*   "pair"   two clients, one window created and named, no mouse           *)
(*   "many"   one client, two windows created and named, no mouse            *)
(*   "click"  one client, one window created and named, and the mouse        *)
(***************************************************************************)
EXTENDS WindowList

CONSTANTS
  Quiet,          (* the clients that only move in the scene "pair"         *)
  Positions, Sizes, Screen, Duration, Orderly

VARIABLES
  scene,
  geom, saved, fb, maximized, opacity, anim, starting, mover, frame

Geometry == INSTANCE WindowGeometry WITH pc <- mover
ASSUME GeometryAssumed == Geometry!GeometryAssumption

geometryVars == <<geom, saved, fb, maximized, opacity, anim, starting, mover, frame>>
sceneVars == <<vars, geometryVars, scene>>

SceneInit ==
  /\ scene \in {"pair", "many", "click", "geometry"}
  /\ Init
  /\ Geometry!Init
  /\ scene # "geometry" =>
       geom = CHOOSE g \in [pos : Positions, size : Sizes] : TRUE

Bounded ==
  /\ scene # "geometry"
  /\ scene # "pair" => \A c \in Quiet : pc'[c] = "idle"
  /\ scene # "many" =>
       nextId' <= Demo + 1 /\ \A c \in Clients : want'[c].id <= Demo
  /\ scene # "click" => pc'["input"] = "idle"
  /\ UNCHANGED <<scene, geometryVars>>

SceneNext ==
  \/ Next /\ Bounded
  \/ scene = "geometry" /\ Geometry!Next /\ UNCHANGED <<scene, vars>>

ListFairness ==
  /\ WF_sceneVars((update_animations \/ composite_frame) /\ Bounded)
  /\ \A c \in Clients : WF_sceneVars(Serve(c) /\ Bounded)
  /\ \A t \in Threads : WF_sceneVars(Stray(t) /\ Bounded)

Still == UNCHANGED <<scene, vars>> /\ scene = "geometry"
GeometryFairness ==
  /\ WF_sceneVars(Geometry!update_animations /\ Still)
  /\ WF_sceneVars(Geometry!Tick /\ Still)
  /\ WF_sceneVars(Geometry!start_animation /\ Still)

SceneSpec ==
  SceneInit /\ [][SceneNext]_sceneVars /\ ListFairness /\ GeometryFairness

-----------------------------------------------------------------------------
(* create_window and destroy_window keep the list whole, with every thread at a   *)
(* place of the code, and a packet acts on the window it names only, which is its *)
(* client's unless the packet is a destroy: that one frees anybody's.             *)
WindowsSound == TypeOK /\ ListWhole /\ OnlyNamedWindows

(* For an orderly client the pixels of resize_window and the geometry that    *)
(* set_window_flags saves stay in step, whatever the compositor animates.     *)
RestoredFits == Geometry!TypeOK /\ Geometry!RestoredFits

(* update_animations ends every animation once the client sends no more moves, *)
(* although its test, its reading of the time and its store are separate steps  *)
(* beside start_animation. An animation restarted in between may be ended with  *)
(* the one before it: the property does not promise where the window rests.     *)
AnimationEnds == <>[](mover = "idle") => <>[](~ anim.active)
=============================================================================
