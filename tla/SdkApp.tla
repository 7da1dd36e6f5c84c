------------------------------- MODULE SdkApp -------------------------------
(***************************************************************************)
(* The demonstration application: HomeActivity with an off-screen ImageSdk *)
(* of its own, RenderActivity with a RenderSurfaceView that makes a new    *)
(* on-screen ImageSdk for every surface.  All of it, the SDK included,     *)
(* runs on the UI thread; a handler runs to its end before the next.       *)
(*                                                                         *)
(* External: the platform.  An activity that is not in front gets no       *)
(* clicks; a view has its surface while its activity is visible, and keeps *)
(* it for a while after the activity was finished or stopped; the system   *)
(* may destroy an activity behind another one and creates it again when    *)
(* the user returns; it destroys and creates the one in front again when   *)
(* the device is rotated (AndroidManifest.xml handles no changes itself).  *)
(***************************************************************************)
EXTENDS NativeImageSdk

CONSTANTS
    Home,           \* the ImageSdk of HomeActivity
    View,           \* the ImageSdk of the RenderSurfaceView
    RotateCmd,      \* the command of HomeActivity's load button
    NormalCmd       \* the command of RenderActivity's switch button

ASSUME AppAssumption == Home \in Holder /\ View \in Holder /\ Home # View
ASSUME AppCommandsAssumption == {RotateCmd, NormalCmd} \subseteq Commands

VARIABLES
    home,           \* HomeActivity
    render,         \* RenderActivity and its surface
    fed,            \* the instance that was given the activity's paths
    disturbed       \* HomeActivity came or went since the surface was made

appVars == <<home, render, fed, disturbed>>

HomeRecord ==
    [state : {"absent", "front", "behind"},
     path  : Path \cup {NoPath}]            \* mInputPath

RenderRecord ==
    [state   : {"absent", "front", "stopped", "leaving"},
     path    : Path \cup {NoPath},          \* mInputPath, from the intent
     given   : BOOLEAN,                     \* hasSetInputPath
     surface : BOOLEAN]                     \* between surfaceCreated and -Destroyed

NoHome == [state |-> "absent", path |-> NoPath]
NoRender == [state |-> "absent", path |-> NoPath, given |-> FALSE, surface |-> FALSE]

AppInit ==
    /\ home = NoHome
    /\ render = NoRender
    /\ fed = NoEnv
    /\ disturbed = FALSE

(* A handler starts: its calls are made one by one.                        *)
Start(calls) == todo' = calls

-----------------------------------------------------------------------------
(* HomeActivity.onCreate: a new ImageSdk(this) and its onCreate.           *)
HomeCreate ==
    /\ home.state = "absent"
    /\ render.state \in {"absent", "leaving"}
    /\ InstanceLeft(Home)
    /\ home' = [state |-> "front", path |-> NoPath]
    /\ ptr' = [ptr EXCEPT ![Home] = NoEnv]
    /\ answered' = answered \ {Home}
    /\ Start(InitSDK(Home))
    /\ disturbed' = render.surface
    /\ UNCHANGED <<render, fed>>

(* HomeActivity.onDestroy, in front or behind RenderActivity.              *)
HomeDestroy ==
    /\ home.state # "absent"
    /\ home' = NoHome
    /\ Start(FreeSDK(Home))
    /\ disturbed' = render.surface
    /\ UNCHANGED <<render, fed, ptr, answered>>

(* onActivityResult: the path that was picked.                             *)
HomePick(path) ==
    /\ home.state = "front"
    /\ home' = [home EXCEPT !.path = path]
    /\ UNCHANGED <<todo, render, fed, disturbed, ptr, answered>>

(* The load button.  Without a path it only shows a toast.                 *)
HomeLoad ==
    /\ home.state = "front" /\ home.path # NoPath
    /\ \E output \in Outputs :
          Start(SetInputPath(Home, home.path) \o SetOutputPath(Home, output)
                \o SetCmd(Home, RotateCmd) \o ExecuteCmd(Home))
    /\ UNCHANGED <<home, render, fed, disturbed, ptr, answered>>

(* Mutant: the go button does not look whether there is a path.            *)
HomeGoUnchecked ==
    /\ home.state = "front" /\ render.state = "absent"
    /\ home' = [home EXCEPT !.state = "behind"]
    /\ render' = [NoRender EXCEPT !.state = "front", !.path = home.path]
    /\ fed' = NoEnv
    /\ UNCHANGED <<todo, disturbed, ptr, answered>>

(* The go button starts a RenderActivity with the path.                    *)
HomeGo ==
    /\ home.state = "front" /\ home.path # NoPath
    /\ render.state = "absent"
    /\ home' = [home EXCEPT !.state = "behind"]
    /\ render' = [NoRender EXCEPT !.state = "front", !.path = home.path]
    /\ fed' = NoEnv
    /\ UNCHANGED <<todo, disturbed, ptr, answered>>

-----------------------------------------------------------------------------
(* Mutant: the view keeps the ImageSdk it had for an earlier surface.      *)
SurfaceReused ==
    /\ render.state = "front" /\ ~render.surface
    /\ InstanceLeft(View)
    /\ render' = [render EXCEPT !.surface = TRUE]
    /\ UNCHANGED ptr
    /\ answered' = answered \ {View}
    /\ Start(IF ptr[View] = NoEnv THEN InitRenderSDK(View) ELSE << >>)
    /\ disturbed' = FALSE
    /\ UNCHANGED <<home, fed>>

(* surfaceCreated: a new ImageSdk(context, surface) and its onCreate.      *)
SurfaceCreated ==
    /\ render.state = "front" /\ ~render.surface
    /\ InstanceLeft(View)
    /\ render' = [render EXCEPT !.surface = TRUE]
    /\ ptr' = [ptr EXCEPT ![View] = NoEnv]
    /\ answered' = answered \ {View}
    /\ Start(InitRenderSDK(View))
    /\ disturbed' = FALSE
    /\ UNCHANGED <<home, fed>>

(* surfaceDestroyed: ImageSdk.onDestroy, which keeps its mPointer.         *)
SurfaceDestroyed ==
    /\ render.surface
    /\ render.state \in {"stopped", "leaving"}
    /\ render' = [render EXCEPT !.surface = FALSE]
    /\ Start(FreeSDK(View))
    /\ UNCHANGED <<home, fed, disturbed, ptr, answered>>

(* The switch button: the paths once per activity, then the command.       *)
RenderClick ==
    /\ render.state = "front" /\ render.surface
    /\ \E output \in Outputs :
          LET paths == SetInputPath(View, render.path) \o SetOutputPath(View, output)
          IN  Start((IF render.given THEN << >> ELSE paths)
                    \o SetCmd(View, NormalCmd) \o ExecuteCmd(View))
    /\ render' = [render EXCEPT !.given = TRUE]
    /\ fed' = IF render.given THEN fed ELSE ptr[View]
    /\ UNCHANGED <<home, disturbed, ptr, answered>>

RenderStop ==
    /\ render.state = "front"
    /\ render' = [render EXCEPT !.state = "stopped"]
    /\ UNCHANGED <<todo, home, fed, disturbed, ptr, answered>>

(* The user returns, before or after the surface went.                     *)
RenderRestart ==
    /\ render.state = "stopped"
    /\ render' = [render EXCEPT !.state = "front"]
    /\ UNCHANGED <<todo, home, fed, disturbed, ptr, answered>>

(* A stopped activity without a surface is destroyed and created again     *)
(* with the same intent and hasSetInputPath = false: a rotation.           *)
RenderRotate ==
    /\ render.state = "stopped" /\ ~render.surface
    /\ render' = [NoRender EXCEPT !.state = "front", !.path = render.path]
    /\ fed' = NoEnv
    /\ UNCHANGED <<todo, home, disturbed, ptr, answered>>

(* finish(): HomeActivity is in front again while the surface is still     *)
(* there.                                                                  *)
RenderBack ==
    /\ render.state = "front"
    /\ render' = [render EXCEPT !.state = "leaving"]
    /\ home' = IF home.state = "behind" THEN [home EXCEPT !.state = "front"] ELSE home
    /\ UNCHANGED <<todo, fed, disturbed, ptr, answered>>

RenderDestroyed ==
    /\ render.state = "leaving" /\ ~render.surface
    /\ render' = NoRender
    /\ fed' = NoEnv
    /\ UNCHANGED <<todo, home, disturbed, ptr, answered>>

AppEvent ==
    \/ HomeCreate
    \/ HomeDestroy
    \/ \E path \in Path : HomePick(path)
    \/ HomeLoad
    \/ HomeGo
    \/ SurfaceCreated
    \/ SurfaceDestroyed
    \/ RenderClick
    \/ RenderStop
    \/ RenderRestart
    \/ RenderRotate
    \/ RenderBack
    \/ RenderDestroyed
=============================================================================
