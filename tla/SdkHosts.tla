------------------------------ MODULE SdkHosts ------------------------------
(***************************************************************************)
(* The programs of the repository over the SDK: a process is one of the    *)
(* application (SdkApp, through the JNI bridge), the native activity and   *)
(* the console program (NativeGlue).  An event starts a handler when none  *)
(* is under way; Call makes the handler's next call.                       *)
(***************************************************************************)
EXTENDS SdkApp, NativeGlue

CONSTANT Hosts      \* the programs to look at

ASSUME HostsAssumption == Hosts \subseteq {"app", "glue", "console"}

VARIABLE host

hostVars == <<vars, callVars, appVars, glueVars, host>>

HostInit ==
    /\ Init /\ CallsInit /\ AppInit /\ GlueInit
    /\ host \in Hosts

(* The next call of the handler under way.                                 *)
Call ==
    /\ proc = "running" /\ todo # << >>
    /\ LET c == Head(todo)
       IN  \/ Allocate(c) /\ todo' = Tail(todo) /\ UNCHANGED <<ptr, answered, saved>>
           \/ SdkCall(c) /\ todo' = Tail(todo) /\ UNCHANGED <<local, ptr, answered, saved>>
           \/ JniStep(c) /\ UNCHANGED saved
           \/ SaveImage(c) /\ todo' = Tail(todo) /\ UNCHANGED <<local, ptr, answered>>
    /\ UNCHANGED <<appVars, glueVars, host>>

AppStep ==
    /\ host = "app" /\ Idle /\ AppEvent
    /\ UNCHANGED <<vars, local, saved, glueVars, host>>

GlueStep ==
    /\ host = "glue" /\ Idle /\ GlueEvent
    /\ UNCHANGED <<vars, local, ptr, answered, saved, appVars, host>>

ConsoleStep ==
    /\ host = "console" /\ Idle /\ ConsoleEvent
    /\ UNCHANGED <<vars, local, ptr, answered, saved, appVars, host>>

HostNext == Call \/ AppStep \/ GlueStep \/ ConsoleStep

HostSpec == HostInit /\ [][HostNext]_hostVars

-----------------------------------------------------------------------------
Calls ==
    [api : ApiNames \cup {"newBlankSdkEnv", "newDefaultSdkEnv", "lookup", "check",
                          "init", "return", "onSuccess", "saveImage"},
     who : Holder,
     via : {"local", "kept"},
     arg : Path \cup Commands \cup {NoArg}]

(* Every variable has its type, and RenderActivity is never started        *)
(* without a path.                                                         *)
HostTypeOK ==
    /\ todo \in Seq(Calls)
    /\ local \in Env \cup {NoEnv}
    /\ ptr \in [Holder -> Env \cup {NoEnv}]
    /\ answered \subseteq Holder
    /\ saved \in Picture \cup {NoImage}
    /\ home \in HomeRecord
    /\ render \in RenderRecord
    /\ render.state # "absent" => render.path \in Path
    /\ fed \in Env \cup {NoEnv}
    /\ disturbed \in BOOLEAN
    /\ activity \in Glue \cup {NoApp}
    /\ window \in {"before", "there", "gone"}
    /\ argv = << >> \/ argv \in Path \X Outputs

(* ImageSdk keeps its mPointer after onDestroy (ImageSdk.java:45) and no   *)
(* native method can tell a pointer that was freed.  Still no call reaches *)
(* an instance after its freeSdkEnv, through any number of surfaces,       *)
(* activities, rotations and failed initialisations.  (An instance that    *)
(* initSdkEnv frees itself, imgsdk.c:1085, is "dangling": UseAfterFree.)   *)
HandlesAreLive ==
    todo # << >> /\ Subject(Head(todo)) # NoEnv
        => sdk[Subject(Head(todo))].life # "freed"

(* The pointers the application can still free: HomeActivity's, and the    *)
(* view's while it has a surface.                                          *)
Reachable ==
    (IF home.state = "absent" THEN {} ELSE {ptr[Home]})
        \cup (IF render.surface THEN {ptr[View]} ELSE {})

(* Whatever fails in initSDK and initRenderSDK, and whatever the platform  *)
(* does to the activities: between two events every instance that is       *)
(* allocated can still be freed.                                           *)
NoOrphans ==
    host = "app" /\ Idle =>
        \A e \in Env : sdk[e].life \in {"live", "dangling"} => e \in Reachable

(* The surface's instance works, and its context is current.               *)
ViewWorks ==
    LET e == ptr[View]
    IN  /\ host = "app" /\ Idle /\ render.surface
        /\ e # NoEnv /\ Ready(e)
        /\ CurrentOf(e) = egl[e].context

(* executeCmd swaps before it draws (NativeImageSdk.c:274) and calls       *)
(* onSuccess in any case; RenderActivity gives the paths to the SDK once   *)
(* (RenderActivity.java:59), every surface is another SDK.  After a click  *)
(* was answered, the window shows the activity's image if the paths were   *)
(* given on this very surface (nothing, if the image could not be loaded), *)
(* and nothing at all on a later surface.                                  *)
AnsweredClickShows ==
    ViewWorks /\ View \in answered =>
        LET e == ptr[View]
            picture == target[egl[e].context]
        IN  IF fed = e /\ sdk[e].linked
            THEN /\ picture = user[e].param
                 /\ picture # NoImage => picture.src = render.path
            ELSE picture = NoImage

(* Everything is on one thread, and HomeActivity's SDK makes and leaves a  *)
(* context there (imgsdk.c:689).  RenderActivity's loses its context to    *)
(* nothing but a HomeActivity that comes or goes behind its back.          *)
OnlyHomeTakesContext ==
    host = "app" /\ Idle /\ render.surface /\ ~disturbed =>
        LET e == ptr[View]
        IN  e # NoEnv => Ready(e) /\ CurrentOf(e) = egl[e].context

(* Whatever fails in an initialisation, and whichever instance is freed    *)
(* first: what is current in a thread of the application or of main        *)
(* belongs to an instance that is still there (imgsdk.c:689).  The native  *)
(* activity initialises its instance again for every window, without       *)
(* freeing the old context, so there it may stay current.                  *)
NoLostContextCurrent == host # "glue" => CurrentIsHeld

(* main tests nothing on its way (imgsdk.c:184-220): it loads, renders,    *)
(* reads back and saves one image.  If it comes to its end at all, it has  *)
(* saved the image it was given, as it was drawn.                          *)
ConsoleSavesItsInput ==
    argv # << >> /\ Idle /\ PostfixOf[argv[2]] \in {"jpg", "png"} =>
        saved # NoImage /\ saved.src = argv[1]
=============================================================================
