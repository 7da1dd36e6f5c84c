------------------------------ MODULE SdkCalls ------------------------------
(***************************************************************************)
(* A program that uses imgsdk.h, from the side of its thread: `todo` holds *)
(* the calls the running handler still has to make, `local` is its local   *)
(* variable `sdk`, and `ptr` holds the pointers that are kept between two  *)
(* handlers.  One step makes the next call and is one step of SdkEnv.      *)
(*                                                                         *)
(* The programs themselves are operators that return sequences of calls:   *)
(* NativeImageSdk, SdkApp and NativeGlue.                                  *)
(*                                                                         *)
(* Unlike the client of SdkEnv, these programs call on after a failed      *)
(* initialisation, hand over NULL, and initialise an instance again.       *)
(***************************************************************************)
EXTENDS SdkEnv

CONSTANTS
    Holder,         \* what keeps a pointer: an ImageSdk, an android_app, main
    EnvsOf,         \* the instances newBlankSdkEnv may return for a holder
    NoEnv           \* the pointer 0

ASSUME EnvsOfAssumption == EnvsOf \in [Holder -> SUBSET Env]
ASSUME NoEnvAssumption == NoEnv \notin Env
ASSUME OutputsAssumption == Outputs \subseteq Path

VARIABLES
    todo,           \* the calls that are left of the handler under way
    local,          \* its local variable `sdk`
    ptr,            \* the pointer each holder keeps
    answered,       \* the holders whose executeCmd has called onSuccess
    saved           \* the image main wrote to its output path

callVars == <<todo, local, ptr, answered, saved>>

NoArg == NoPath

(* A call on the local variable, and one on the pointer that is kept.      *)
OnLocal(api, who) == [api |-> api, who |-> who, via |-> "local", arg |-> NoArg]
OnKept(api, who, arg) == [api |-> api, who |-> who, via |-> "kept", arg |-> arg]

Subject(c) == IF c.via = "local" THEN local ELSE ptr[c.who]

CallsInit ==
    /\ todo = << >>
    /\ local = NoEnv
    /\ ptr = [h \in Holder |-> NoEnv]
    /\ answered = {}
    /\ saved = NoImage

(* Between two handlers.                                                   *)
Idle == todo = << >> /\ proc = "running"

Unused(h) == {e \in EnvsOf[h] : sdk[e].life = "none"}

(* Bound: a program creates an instance while one is unused, and           *)
(* initialises one while there is a context for it.                        *)
InstanceLeft(h) == Unused(h) # {} /\ Ctx \ made # {}

-----------------------------------------------------------------------------
(* newBlankSdkEnv and newDefaultSdkEnv; the instances are alike, so any    *)
(* unused one will do.  Memory may run out.                                *)
Allocate(c) ==
    LET e == CHOOSE x \in Unused(c.who) : TRUE
    IN  \/ /\ c.api = "newBlankSdkEnv"
           /\ NewBlankSdkEnv(e)
           /\ local' = e
        \/ /\ c.api = "newDefaultSdkEnv"
           /\ NewDefaultSdkEnv(e)
           /\ local' = IF sdk'[e].life = "live" THEN e ELSE NoEnv
        \/ /\ c.api \in {"newBlankSdkEnv", "newDefaultSdkEnv"}
           /\ local' = NoEnv
           /\ UNCHANGED vars

(* The calls of imgsdk.h that a program may repeat, or make on an instance *)
(* that is not ready: what SdkEnv does, or nothing.                        *)
SetWindow(e) == SetEglNativeWindow(e) \/ (sdk[e].window /\ UNCHANGED vars)

RunSdk(e) == SdkMain(e) \/ (sdk[e].hooks /\ UNCHANGED vars)

(* initSdkEnv as it is, without what imgsdk.h asks of its caller.          *)
InitAgain(e) ==
    /\ InitRefused(e) \/ InitWithoutBuffer(e) \/ InitWithEgl(e)
    /\ UNCHANGED proc

SetInput(e, path) ==
    \/ SetInputImagePath(e, path)
    \/ user[e].input = path /\ UNCHANGED vars

(* onSdkDraw: no callback before sdkMain; GL without a context does        *)
(* nothing.                                                                *)
Draw(e) ==
    \/ OnSdkDraw(e)
    \/ (~sdk[e].hooks \/ CurrentOf(e) = NoCtx) /\ UNCHANGED vars

(* eglSwapBuffers fails while the instance has no surface of its own.      *)
Swap(e) == SwapEglBuffers(e) \/ (~Ready(e) /\ UNCHANGED vars)

Api(c, e) ==
    \/ c.api = "setEglNativeWindow" /\ SetWindow(e)
    \/ c.api = "setPlatformData" /\ SetPlatformData(e)
    \/ c.api = "initSdkEnv" /\ InitAgain(e)
    \/ c.api = "sdkMain" /\ RunSdk(e)
    \/ c.api = "freeSdkEnv" /\ FreeSdkEnv(e)
    \/ c.api = "setInputImagePath" /\ SetInput(e, c.arg)
    \/ c.api = "setOutputImagePath" /\ SetOutputImagePath(e, c.arg)
    \/ c.api = "setEffectCmd" /\ SetEffectCmd(e, c.arg)
    \/ c.api = "swapEglBuffers" /\ Swap(e)
    \/ c.api = "onSdkDraw" /\ Draw(e)

ApiNames ==
    {"setEglNativeWindow", "setPlatformData", "initSdkEnv", "sdkMain",
     "freeSdkEnv", "setInputImagePath", "setOutputImagePath", "setEffectCmd",
     "swapEglBuffers", "onSdkDraw"}

(* A call on an instance that is gone: undefined, the process may stop or  *)
(* go on.  freeSdkEnv after initSdkEnv has freed the instance is in SdkEnv. *)
Gone(c, e) ==
    \/ sdk[e].life = "freed"
    \/ sdk[e].life = "dangling" /\ c.api # "freeSdkEnv"

UseAfterFree ==
    /\ proc' \in {"running", "crashed"}
    /\ UNCHANGED <<sdk, egl, user, effect, glVars>>

SdkCall(c) ==
    LET e == Subject(c)
    IN  /\ c.api \in ApiNames
        /\ \/ e = NoEnv /\ UNCHANGED vars           \* every function tests it
           \/ e # NoEnv /\ Gone(c, e) /\ UseAfterFree
           \/ e # NoEnv /\ ~Gone(c, e) /\ Api(c, e)
=============================================================================
