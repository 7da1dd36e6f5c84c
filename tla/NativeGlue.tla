----------------------------- MODULE NativeGlue -----------------------------
(***************************************************************************)
(* The two native programs around imgsdk.h: the activity of                *)
(* jni/src/android_main.c, and the console program, main of imgsdk.c.      *)
(*                                                                         *)
(* External: android_native_app_glue, which runs android_main in a thread  *)
(* of its own, hands it the commands of the activity one after the other,  *)
(* and may run it again in a process that is still there.                  *)
(***************************************************************************)
EXTENDS NativeImageSdk

CONSTANTS
    Glue,           \* android_app.userData, one for each run of android_main
    Main,           \* the variable env of main
    ConsoleCmd      \* main's command

VARIABLES
    activity,       \* the android_app whose android_main runs, or NoApp
    window,         \* its window: before the first, there, gone
    argv            \* the two paths of main

glueVars == <<activity, window, argv>>

NoApp == "none"

ASSUME GlueAssumption == Glue \subseteq Holder /\ NoApp \notin Glue
ASSUME MainAssumption == Main \in Holder /\ ConsoleCmd \in Commands

GlueInit == activity = NoApp /\ window = "before" /\ argv = << >>

-----------------------------------------------------------------------------
(* android_main up to its loop: newBlankSdkEnv is not tested, sdkMain is   *)
(* called before there is a window.                                        *)
AndroidMain(app) ==
    /\ activity = NoApp
    /\ ptr[app] = NoEnv /\ InstanceLeft(app)
    /\ activity' = app
    /\ window' = "before"
    /\ todo' = << OnLocal("newBlankSdkEnv", app), OnLocal("setPlatformData", app),
                  OnLocal("return", app), OnKept("sdkMain", app, NoArg) >>

(* APP_CMD_INIT_WINDOW: whatever initSdkEnv returns, sdkMain follows.      *)
InitWindow ==
    /\ activity # NoApp /\ window # "there"
    /\ Ctx \ made # {}
    /\ window' = "there"
    /\ todo' = << OnKept("setEglNativeWindow", activity, NoArg),
                  OnKept("initSdkEnv", activity, NoArg),
                  OnKept("sdkMain", activity, NoArg) >>
    /\ UNCHANGED activity

(* APP_CMD_TERM_WINDOW: onSdkDestroy, whose callback is empty.             *)
TermWindow ==
    /\ activity # NoApp /\ window = "there"
    /\ window' = "gone"
    /\ UNCHANGED <<activity, todo>>

(* APP_CMD_GAINED_FOCUS.                                                   *)
GainedFocus ==
    /\ activity # NoApp
    /\ todo' = << OnKept("swapEglBuffers", activity, NoArg) >>
    /\ UNCHANGED <<activity, window>>

(* destroyRequested: android_main returns and frees nothing.               *)
DestroyRequested ==
    /\ activity # NoApp
    /\ activity' = NoApp
    /\ UNCHANGED <<window, todo>>

GlueEvent ==
    /\ \/ \E app \in Glue : AndroidMain(app)
       \/ InitWindow
       \/ TermWindow
       \/ GainedFocus
       \/ DestroyRequested
    /\ UNCHANGED argv

-----------------------------------------------------------------------------
(* Mutant: the image is drawn before the command has loaded it.            *)
DrawsFirst(input, output) ==
    << OnLocal("newDefaultSdkEnv", Main), OnLocal("return", Main) >>
       \o SetInputPath(Main, input) \o SetOutputPath(Main, output)
       \o << OnKept("sdkMain", Main, NoArg), OnKept("onSdkDraw", Main, NoArg) >>
       \o SetCmd(Main, ConsoleCmd)
       \o << OnKept("saveImage", Main, output) >> \o FreeSDK(Main)

(* The console program, which goes on when newDefaultSdkEnv returned NULL.  *)
MainCalls(input, output) ==
    << OnLocal("newDefaultSdkEnv", Main), OnLocal("return", Main) >>
       \o SetInputPath(Main, input) \o SetOutputPath(Main, output)
       \o << OnKept("sdkMain", Main, NoArg) >> \o SetCmd(Main, ConsoleCmd)
       \o << OnKept("onSdkDraw", Main, NoArg) >>
       \o << OnKept("saveImage", Main, output) >> \o FreeSDK(Main)

RunMain(input, output) ==
    /\ argv = << >> /\ InstanceLeft(Main)
    /\ argv' = <<input, output>>
    /\ todo' = MainCalls(input, output)
    /\ UNCHANGED <<activity, window>>

(* What main does with the result: the pixels of the framebuffer that is   *)
(* bound replace the loaded ones and are saved under the output's postfix. *)
(* Without an instance or without an image it reads through NULL.          *)
SaveImage(c) ==
    LET e == ptr[c.who]
        lost == e = NoEnv \/ user[e].param = NoImage
    IN  /\ c.api = "saveImage"
        /\ proc' = IF lost THEN "crashed" ELSE proc
        /\ saved' = IF ~lost /\ PostfixOf[c.arg] \in {"jpg", "png"}
                    THEN target[CurrentOf(e)] ELSE saved
        /\ UNCHANGED <<sdk, egl, user, effect, glVars>>

ConsoleEvent == \E input \in Path, output \in Outputs : RunMain(input, output)
=============================================================================
