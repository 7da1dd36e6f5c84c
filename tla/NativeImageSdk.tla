--------------------------- MODULE NativeImageSdk ---------------------------
(***************************************************************************)
(* The JNI bridge of jni/src/NativeImageSdk.c: what each native method of  *)
(* org.imgsdk.core.NativeImageSdk calls, and the steps in it that are not  *)
(* calls of imgsdk.h.  A method gets its object's mPointer; the two init   *)
(* methods return the new one.                                             *)
(*                                                                         *)
(* External: JNI lookups that fail (no asset manager, no native window,    *)
(* no such callback) are a choice.                                         *)
(***************************************************************************)
EXTENDS SdkCalls, Sequences

(* initSDK and initRenderSDK.  "lookup" stands for the asset manager, the  *)
(* surface and the window, "check" for the test of newBlankSdkEnv, "init"  *)
(* for the test of initSdkEnv, "return" for mPointer = ptr.                *)
InitSDK(h) ==
    << OnLocal("lookup", h),
       OnLocal("newBlankSdkEnv", h),
       OnLocal("check", h),
       OnLocal("setPlatformData", h),
       OnLocal("initSdkEnv", h),
       OnLocal("init", h),
       OnLocal("return", h) >>

InitRenderSDK(h) ==
    << OnLocal("lookup", h),
       OnLocal("newBlankSdkEnv", h),
       OnLocal("check", h),
       OnLocal("setEglNativeWindow", h),
       OnLocal("setPlatformData", h),
       OnLocal("initSdkEnv", h),
       OnLocal("init", h),
       OnLocal("sdkMain", h),
       OnLocal("return", h) >>

FreeSDK(h) == << OnKept("freeSdkEnv", h, NoArg) >>

(* jstring2string returns NULL for an empty string, and the method returns *)
(* at once; the paths and commands of the application are never empty.     *)
SetInputPath(h, path) == << OnKept("setInputImagePath", h, path) >>

SetOutputPath(h, path) == << OnKept("setOutputImagePath", h, path) >>

SetCmd(h, cmd) == << OnKept("setEffectCmd", h, cmd) >>

(* Mutant: the buffers are swapped after the drawing.                      *)
ExecuteSwapsLast(h) ==
    << OnKept("onSdkDraw", h, NoArg), OnKept("swapEglBuffers", h, NoArg),
       OnKept("onSuccess", h, NoArg) >>

(* executeCmd swaps, draws, and calls onSuccess whatever came of it.       *)
ExecuteCmd(h) ==
    << OnKept("swapEglBuffers", h, NoArg), OnKept("onSdkDraw", h, NoArg),
       OnKept("onSuccess", h, NoArg) >>

-----------------------------------------------------------------------------
(* Return 0: mPointer becomes 0, and the rest of the method is not run.    *)
ReturnNull(c) ==
    /\ ptr' = [ptr EXCEPT ![c.who] = NoEnv]
    /\ todo' = << >>
    /\ local' = NoEnv

GoOn == todo' = Tail(todo) /\ UNCHANGED <<local, ptr>>

Lookup(c) ==
    /\ c.api = "lookup"
    /\ ReturnNull(c) \/ GoOn
    /\ UNCHANGED vars

CheckPointer(c) ==
    /\ c.api = "check"
    /\ IF local = NoEnv THEN ReturnNull(c) ELSE GoOn
    /\ UNCHANGED vars

InitOk == sdk[local].life = "live" /\ sdk[local].ret = "ok"

(* Mutant: the failed instance is not freed.                               *)
CheckWithoutFree(c) ==
    /\ c.api = "init"
    /\ IF InitOk THEN GoOn ELSE ReturnNull(c)
    /\ UNCHANGED vars

(* Mutant: the pointer of a failed instance is returned.                   *)
InitUnchecked(c) == c.api = "init" /\ GoOn /\ UNCHANGED vars

(* initSdkEnv failed: free the instance, which it may have freed already,  *)
(* and return 0.                                                           *)
CheckInit(c) ==
    /\ c.api = "init"
    /\ \/ InitOk /\ GoOn /\ UNCHANGED vars
       \/ ~InitOk /\ ReturnNull(c) /\ FreeSdkEnv(local)

ReturnPointer(c) ==
    /\ c.api = "return"
    /\ ptr' = [ptr EXCEPT ![c.who] = local]
    /\ todo' = Tail(todo)
    /\ local' = NoEnv
    /\ UNCHANGED vars

(* The callback, for a pointer that is not 0 (executeCmd returns at once   *)
(* for 0).  Every listener of the application has the method.              *)
OnSuccess(c) ==
    /\ c.api = "onSuccess"
    /\ answered' = IF ptr[c.who] = NoEnv THEN answered ELSE answered \cup {c.who}
    /\ GoOn
    /\ UNCHANGED vars

JniStep(c) ==
    \/ Lookup(c) /\ UNCHANGED answered
    \/ CheckPointer(c) /\ UNCHANGED answered
    \/ CheckInit(c) /\ UNCHANGED answered
    \/ ReturnPointer(c) /\ UNCHANGED answered
    \/ OnSuccess(c)
=============================================================================
