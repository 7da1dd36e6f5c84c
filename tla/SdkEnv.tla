------------------------------ MODULE SdkEnv ------------------------------
(***************************************************************************)
(* The SDK context of jni/src/imgsdk.c: SdkEnv instances, the EGL contexts *)
(* and the display they share, the input image of each and the textures it *)
(* is uploaded to.  One action is one call of the API of imgsdk.h.  An     *)
(* instance is used from one thread, ThreadOf[e], but several instances    *)
(* may be used from the same thread, and what eglMakeCurrent made current  *)
(* belongs to the thread, not to the instance.                             *)
(*                                                                         *)
(* The client keeps to imgsdk.h: it initialises a blank instance before it *)
(* uses it, frees one whose initialisation failed, and frees every one     *)
(* once.  With Reinit it also initialises an instance again, which         *)
(* initSdkEnv has a test against.                                          *)
(*                                                                         *)
(* External: EGL on Android, whose display counts eglInitialize against    *)
(* eglTerminate and is initialised without error while the count is not 0; *)
(* OpenGL ES, which gives the objects of every new context the same names, *)
(* so a call meant for one context changes the same object of the context  *)
(* that is current; libjpeg, which exits the process on a file it cannot   *)
(* decode; libpng, which returns to read_png's setjmp and tries again.     *)
(***************************************************************************)
EXTENDS EffectParser, FiniteSets

CONSTANTS
    Env,            \* SdkEnv instances, each allocated at most once
    Thread,
    ThreadOf,       \* the thread an instance is used from
    WindowEnvs,     \* the instances that are given a native window
    Ctx,            \* EGL contexts that can be created
    NoCtx,          \* EGL_NO_CONTEXT
    Path,           \* input image paths
    PostfixOf,      \* "jpg", "png", "other", or "none" below five characters
    Outputs,        \* output image paths
    NoPath,         \* a NULL path
    NoImage,        \* no bitmap, no texture content, undefined pixels
    Forms,          \* Bitmap_t.form a decoder may find (0: none it knows)
    Commands,       \* user commands
    Stops,          \* the steps of an initialisation after which it may fail
    Reinit          \* may a client initialise an instance twice

ASSUME ThreadOfAssumption == ThreadOf \in [Env -> Thread]
ASSUME PostfixAssumption == PostfixOf \in [Path -> {"jpg", "png", "other", "none"}]
ASSUME NoCtxAssumption == NoCtx \notin Ctx
ASSUME NoPathAssumption == NoPath \notin Path
ASSUME FormsAssumption == Forms \subseteq 0 .. 4
ASSUME ReinitAssumption == Reinit \in BOOLEAN

(* The steps of initSdkEnv and newDefaultSdkEnv that can fail, in order.   *)
(* An initialisation that stops at a step has done the ones before it.     *)
NewBuffer == 0          \* newChrbuf
GetDisplay == 1         \* eglGetDisplay
Initialize == 2         \* eglInitialize
ChooseConfig == 3       \* eglGetConfigs, eglChooseConfig
CreateSurface == 4      \* eglCreateWindowSurface, eglCreatePbufferSurface
BindApi == 5            \* eglBindAPI
CreateContext == 6      \* eglCreateContext
MakeCurrent == 7        \* eglMakeCurrent
CompareSize == 8        \* the window and the EGL surface differ in size
AttachShader == 9       \* attachShader
AllDone == 10

ASSUME StopsAssumption == Stops \subseteq NewBuffer .. AttachShader

VARIABLES
    proc,           \* "running", or how the process was lost
    sdk,            \* life, set-up and status of each instance
    egl,            \* SdkEnv.egl
    user,           \* SdkEnv.userData
    effect,         \* SdkEnv.effectCmd
    current,        \* the context that is current in each thread
    refs,           \* how often the display is initialised
    made,           \* the contexts created so far
    shown,          \* the picture in texture1 of each context
    bound,          \* the contexts in which a framebuffer object is bound
    target          \* the last result of each context: window or texture2

vars ==
    <<proc, sdk, egl, user, effect, current, refs, made, shown, bound, target>>

-----------------------------------------------------------------------------
(* Types and starting values.  A picture is a Bitmap_t: the path it was    *)
(* decoded from and its form (bytes per pixel).                            *)
Picture == [src : Path, form : Forms]

ASSUME NoImageAssumption == NoImage \notin Picture

SdkRecord ==
    [life   : {"none", "live", "freed", "dangling"},
     window : BOOLEAN,                  \* egl.window # NULL
     assets : BOOLEAN,                  \* userData.platformData # NULL
     type   : {"on", "off"},            \* ON_SCREEN_RENDER = 0, OFF_SCREEN_RENDER = 1
     status : BOOLEAN,                  \* SDK_STATUS_OK
     ret    : {"none", "ok", "error"},  \* the last return of an initialisation
     linked : BOOLEAN,                  \* handle.program # 0
     hooks  : BOOLEAN,                  \* onDraw is set
     cmd    : {"null", "empty", "text"}]  \* userCmd

EglRecord ==
    [display : BOOLEAN,
     surface : BOOLEAN,
     context : Ctx \cup {NoCtx},
     view    : Path \cup {"unset", "surface"}]   \* whose size width, height are

UserRecord ==
    [input  : Path \cup {NoPath},
     type   : {"unknown", "jpg", "png"},
     output : Outputs \cup {NoPath},
     active : {"none", "param", "path"},
     param  : Picture \cup {NoImage}]

BlankSdk ==
    [life |-> "none", window |-> FALSE, assets |-> FALSE, type |-> "on",
     status |-> FALSE, ret |-> "none", linked |-> FALSE, hooks |-> FALSE,
     cmd |-> "null"]

BlankEgl ==
    [display |-> FALSE, surface |-> FALSE, context |-> NoCtx, view |-> "unset"]

BlankUser ==
    [input |-> NoPath, type |-> "unknown", output |-> NoPath, active |-> "none",
     param |-> NoImage]

Init ==
    /\ proc = "running"
    /\ sdk = [e \in Env |-> BlankSdk]
    /\ egl = [e \in Env |-> BlankEgl]
    /\ user = [e \in Env |-> BlankUser]
    /\ effect = [e \in Env |-> BlankEffect]
    /\ current = [t \in Thread |-> NoCtx]
    /\ refs = 0
    /\ made = {}
    /\ shown = [c \in Ctx |-> NoImage]
    /\ bound = {}
    /\ target = [c \in Ctx |-> NoImage]

Live(e) == proc = "running" /\ sdk[e].life = "live"

(* An instance the client may use: the last initialisation returned 0.     *)
Ready(e) == Live(e) /\ sdk[e].ret = "ok"

(* Mutant: one current context for the whole process.                      *)
CurrentOfProcess(e) ==
    LET used == {t \in Thread : current[t] # NoCtx}
    IN  IF used = {} THEN NoCtx ELSE current[CHOOSE t \in used : TRUE]

(* The context the thread of e works in, whoever made it current.          *)
CurrentOf(e) == current[ThreadOf[e]]

glVars == <<current, refs, made, shown, bound, target>>

-----------------------------------------------------------------------------
(* newBlankSdkEnv: calloc.  (Its failure returns NULL and changes nothing.) *)
NewBlankSdkEnv(e) ==
    /\ proc = "running"
    /\ sdk[e].life = "none"
    /\ sdk' = [sdk EXCEPT ![e].life = "live"]
    /\ UNCHANGED <<proc, egl, user, effect, glVars>>

SetEglNativeWindow(e) ==
    /\ Live(e) /\ sdk[e].ret = "none" /\ e \in WindowEnvs
    /\ ~sdk[e].window
    /\ sdk' = [sdk EXCEPT ![e].window = TRUE]
    /\ UNCHANGED <<proc, egl, user, effect, glVars>>

SetPlatformData(e) ==
    /\ Live(e) /\ sdk[e].ret = "none"
    /\ ~sdk[e].assets
    /\ sdk' = [sdk EXCEPT ![e].assets = TRUE]
    /\ UNCHANGED <<proc, egl, user, effect, glVars>>

(* sdkMain installs the callbacks; onDraw is onRender.                     *)
SdkMain(e) ==
    /\ Live(e)
    /\ ~sdk[e].hooks
    /\ sdk' = [sdk EXCEPT ![e].hooks = TRUE]
    /\ UNCHANGED <<proc, egl, user, effect, glVars>>

-----------------------------------------------------------------------------
(* initEGL and initDefaultEGL, stopped at `stop`: each result is assigned  *)
(* to env->egl before it is tested, the size is queried at the end.        *)
EglAfter(old, stop, ctx) ==
    [display |-> GetDisplay < stop,
     surface |-> CreateSurface < stop \/ (stop < CreateSurface /\ old.surface),
     context |-> CASE CreateContext < stop -> ctx
                   [] CreateContext = stop -> NoCtx
                   [] OTHER -> old.context,
     view    |-> IF MakeCurrent < stop THEN "surface" ELSE old.view]

(* initSdkEnv, stopped at `stop`.  initEGL returns the type.               *)
SdkAfter(old, stop, linked) ==
    [old EXCEPT
       !.type   = IF MakeCurrent < stop /\ ~old.window THEN "off" ELSE "on",
       !.status = old.status \/ stop = AllDone,
       !.ret    = IF stop = AllDone THEN "ok" ELSE "error",
       !.linked = linked,
       !.cmd    = "empty"]

(* Mutant: eglMakeCurrent is left out.                                     *)
CurrentNotMade(e, stop, ctx) == current

CurrentAfterInit(e, stop, ctx) ==
    IF MakeCurrent < stop THEN [current EXCEPT ![ThreadOf[e]] = ctx] ELSE current

(* The same calls, seen from EGL.  eglInitialize can only fail while the   *)
(* display is not initialised.                                             *)
EglCalls(e, stop, ctx) ==
    /\ stop = Initialize => refs = 0
    /\ egl' = [egl EXCEPT ![e] = EglAfter(@, stop, ctx)]
    /\ refs' = IF Initialize < stop THEN refs + 1 ELSE refs
    /\ made' = IF CreateContext < stop THEN made \cup {ctx} ELSE made
    /\ current' = CurrentAfterInit(e, stop, ctx)

(* Mutant: the context is destroyed while it is current.                   *)
CurrentKept(e) == current

(* eglMakeCurrent with nothing: whichever instance made the context of the *)
(* calling thread current, it is current no longer.                        *)
CurrentAfterFree(e) ==
    IF egl[e].display THEN [current EXCEPT ![ThreadOf[e]] = NoCtx] ELSE current

(* Mutants: eglTerminate counts below zero; it is called without a display. *)
RefsBelowZero(e) == IF egl[e].display THEN refs - 1 ELSE refs
RefsWithoutDisplay(e) == IF refs > 0 THEN refs - 1 ELSE refs

(* eglTerminate: external, the display's count.                            *)
RefsAfterFree(e) == IF egl[e].display /\ refs > 0 THEN refs - 1 ELSE refs

(* freeSdkEnv: nothing stays current in the calling thread, context and    *)
(* surface go, the display is counted down, the memory is freed.           *)
ReleaseSdkEnv(e, life) ==
    /\ current' = CurrentAfterFree(e)
    /\ refs' = RefsAfterFree(e)
    /\ sdk' = [sdk EXCEPT ![e] = [BlankSdk EXCEPT !.life = life]]
    /\ egl' = [egl EXCEPT ![e] = BlankEgl]
    /\ user' = [user EXCEPT ![e] = BlankUser]
    /\ effect' = [effect EXCEPT ![e] = BlankEffect]
    /\ UNCHANGED <<made, shown, bound, target>>

(* What the refusals of initSdkEnv test: `type` against SDK_STATUS_OK,     *)
(* which is the value of OFF_SCREEN_RENDER, and the asset manager.         *)
InitRefused(e) ==
    /\ sdk[e].type = "off" \/ ~sdk[e].assets
    /\ sdk' = [sdk EXCEPT ![e].ret = IF sdk[e].status THEN "ok" ELSE "error"]
    /\ UNCHANGED <<egl, user, effect, glVars>>

InitAccepted(e) == sdk[e].type = "on" /\ sdk[e].assets

(* newChrbuf fails: initSdkEnv frees the instance itself and returns -1.   *)
InitWithoutBuffer(e) ==
    /\ InitAccepted(e)
    /\ NewBuffer \in Stops
    /\ ReleaseSdkEnv(e, "dangling")

(* The rest.  The callbacks, the user's paths and image stay as they are.  *)
(* When vert.shdr cannot be read, attachShader returns no value at all and *)
(* the initialisation may end well without a program (linked = FALSE).     *)
InitWithEgl(e) ==
    /\ InitAccepted(e)
    /\ \E stop \in (Stops \ {NewBuffer}) \cup {AllDone},
          ctx \in Ctx \ made,
          linked \in BOOLEAN :
         /\ stop = CompareSize => sdk[e].window
         /\ linked => stop = AllDone
         /\ EglCalls(e, stop, ctx)
         /\ sdk' = [sdk EXCEPT ![e] = SdkAfter(@, stop, linked)]
         /\ effect' = [effect EXCEPT ![e] = InitEffectCmd]
         /\ UNCHANGED <<user, shown, bound, target>>

InitSdkEnv(e) ==
    /\ Live(e)
    /\ sdk[e].ret = "none" \/ (Reinit /\ sdk[e].ret = "ok")
    /\ InitRefused(e) \/ InitWithoutBuffer(e) \/ InitWithEgl(e)
    /\ UNCHANGED proc

(* newDefaultSdkEnv: an off-screen instance in one call, with shaders from *)
(* files and no initEffectCmd.  When a step fails the instance is freed    *)
(* again and NULL is returned; what was current in the thread is not.      *)
NewDefaultSdkEnv(e) ==
    /\ proc = "running"
    /\ sdk[e].life = "none"
    /\ \/ \E ctx \in Ctx \ made :
             /\ EglCalls(e, AllDone, ctx)
             /\ sdk' = [sdk EXCEPT ![e] =
                          [BlankSdk EXCEPT !.life = "live", !.type = "off",
                             !.status = TRUE, !.ret = "ok", !.linked = TRUE,
                             !.cmd = "empty"]]
       \/ \E stop \in Stops :
             /\ stop = Initialize => refs = 0
             /\ stop # CompareSize
             /\ current' = IF stop # GetDisplay
                           THEN [current EXCEPT ![ThreadOf[e]] = NoCtx]
                           ELSE current
             /\ sdk' = [sdk EXCEPT ![e].life = "freed"]
             /\ UNCHANGED <<egl, refs, made>>
    /\ UNCHANGED <<proc, user, effect, shown, bound, target>>

(* The client frees what it holds.  It cannot know that initSdkEnv has     *)
(* freed the instance: freeing it again is undefined, the process may stop *)
(* or go on.                                                               *)
FreeSdkEnv(e) ==
    \/ /\ Live(e)
       /\ ReleaseSdkEnv(e, "freed")
       /\ UNCHANGED proc
    \/ /\ proc = "running" /\ sdk[e].life = "dangling"
       /\ proc' \in {"running", "crashed"}
       /\ sdk' = [sdk EXCEPT ![e].life = "freed"]
       /\ UNCHANGED <<egl, user, effect, glVars>>

-----------------------------------------------------------------------------
ImageType(path) ==
    IF PostfixOf[path] \in {"jpg", "png"} THEN PostfixOf[path] ELSE "unknown"

(* Mutant: the new path does not become the active source.                 *)
WithInputInactive(data, path) ==
    [data EXCEPT !.input = path, !.type = ImageType(path),
       !.active = IF @ = "none" THEN "path" ELSE @]

WithInput(data, path) ==
    [data EXCEPT !.input = path, !.type = ImageType(path), !.active = "path"]

(* setInputImagePath.  The path that is already set changes nothing, the   *)
(* active source included.  A path too short for a postfix is stored, then *)
(* its NULL postfix is given to strcasecmp.                                *)
SetInputImagePath(e, path) ==
    /\ Ready(e)
    /\ user[e].input # path
    /\ user' = [user EXCEPT ![e] = WithInput(@, path)]
    /\ proc' = IF PostfixOf[path] = "none" THEN "crashed" ELSE proc
    /\ UNCHANGED <<sdk, egl, effect, glVars>>

SetOutputImagePath(e, path) ==
    /\ Ready(e)
    /\ user' = [user EXCEPT ![e].output = path]
    /\ UNCHANGED <<proc, sdk, egl, effect, glVars>>

-----------------------------------------------------------------------------
(* loadImage: the pictures it may decode from a path, and how it may fail. *)
Decoded(path) ==
    {[src |-> path, form |-> f] :
        f \in CASE PostfixOf[path] = "jpg" -> Forms \ {0}
               [] PostfixOf[path] = "png" -> Forms
               [] OTHER -> {}}

(* A JPEG that cannot be decoded ends the process (jpeg_std_error), a PNG  *)
(* that cannot be decoded keeps read_png in its setjmp loop.               *)
LoadLoses(path) ==
    CASE PostfixOf[path] = "jpg" -> {"exited"}
      [] PostfixOf[path] = "png" -> {"spinning"}
      [] OTHER -> {}

OffScreenCtx(ctx) == \E o \in Env : egl[o].context = ctx /\ sdk[o].type = "off"

(* Mutant: texture1 is specified for the first image only.                 *)
UploadOnce(e, picture) ==
    LET ctx == CurrentOf(e)
    IN  IF ctx = NoCtx
        THEN UNCHANGED <<shown, target>>
        ELSE /\ shown' = [shown EXCEPT ![ctx] = IF @ = NoImage THEN picture ELSE @]
             /\ UNCHANGED target

(* The upload for e goes to texture1 of the context its thread works in,   *)
(* and clears texture2, which is where an off-screen instance renders to.  *)
Upload(e, picture) ==
    LET ctx == CurrentOf(e)
    IN  IF ctx = NoCtx
        THEN UNCHANGED <<shown, target>>
        ELSE /\ shown' = [shown EXCEPT ![ctx] = picture]
             /\ target' = IF OffScreenCtx(ctx)
                          THEN [target EXCEPT ![ctx] = NoImage] ELSE target

(* setEffectCmd without input: "No input image".                           *)
EffectWithoutImage(e) ==
    /\ user[e].input = NoPath /\ user[e].param = NoImage
    /\ UNCHANGED <<proc, sdk, egl, user, shown, target>>

(* ACTIVE_PARAM: the image in memory is used again.                        *)
EffectReusesImage(e) ==
    /\ user[e].active = "param"
    /\ UNCHANGED <<proc, sdk, egl, user, shown, target>>

(* Mutant: the path is marked as loaded before loadImage succeeds.         *)
FailedLoadMarksParam(e) ==
    /\ user[e].active = "path"
    /\ user' = [user EXCEPT ![e].active = "param"]
    /\ UNCHANGED <<proc, sdk, egl, shown, target>>

(* ACTIVE_PATH, and loadImage fails: nothing but the command changes, and  *)
(* the path stays active for the next try.                                 *)
EffectFailsToLoad(e) ==
    /\ user[e].active = "path"
    /\ UNCHANGED <<proc, sdk, egl, user, shown, target>>

(* ACTIVE_PATH, and loadImage does not return.                             *)
EffectLosesProcess(e) ==
    /\ user[e].active = "path"
    /\ proc' \in LoadLoses(user[e].input)
    /\ UNCHANGED <<sdk, egl, user, shown, target>>

(* Mutant: the viewport keeps the size of the surface.                     *)
ViewOfSurface(e) == egl[e].view

ViewAfterLoad(e) ==
    IF sdk[e].type = "off" THEN user[e].input ELSE egl[e].view

(* ACTIVE_PATH: the image becomes the parameter, an off-screen instance    *)
(* takes its size for the viewport, userCmd is replaced, and both textures *)
(* are specified in whatever context is current.                           *)
EffectLoadsImage(e) ==
    /\ user[e].active = "path"
    /\ \E picture \in Decoded(user[e].input) :
         /\ user' = [user EXCEPT ![e] =
                       [@ EXCEPT !.param = picture, !.active = "param"]]
         /\ Upload(e, picture)
    /\ egl' = [egl EXCEPT ![e].view = ViewAfterLoad(e)]
    /\ sdk' = [sdk EXCEPT ![e].cmd = "text"]
    /\ UNCHANGED proc

(* setEffectCmd.  The command is parsed first; what the parser returns is  *)
(* logged and otherwise ignored, a NULL access in it loses the process.    *)
SetEffectCmd(e, cmd) ==
    /\ Ready(e)
    /\ LET result == Reparse(cmd, effect[e])
       IN  /\ effect' = [effect EXCEPT ![e] = result.eft]
           /\ \/ /\ result.crash
                 /\ proc' = "crashed"
                 /\ UNCHANGED <<sdk, egl, user, shown, target>>
              \/ /\ ~result.crash
                 /\ \/ EffectWithoutImage(e)
                    \/ EffectReusesImage(e)
                    \/ EffectFailsToLoad(e)
                    \/ EffectLosesProcess(e)
                    \/ EffectLoadsImage(e)
    /\ UNCHANGED <<current, refs, made, bound>>

-----------------------------------------------------------------------------
(* onSdkDraw -> onRender.  texture1 of the current context is drawn: by an *)
(* off-screen instance to texture2, through the framebuffer object it      *)
(* binds and never unbinds, by an on-screen instance to whatever is bound. *)
(* On-screen, swapEglBuffers follows: it presents the back buffer of the   *)
(* instance's own surface if that is the current one, drawn to or not.     *)
(* Without a program only the clear colour is drawn.                       *)
DrawnTo(e, ctx) ==
    LET picture == IF sdk[e].linked THEN shown[ctx] ELSE NoImage
        fbo == sdk[e].type = "off" \/ ctx \in bound
    IN  CASE OffScreenCtx(ctx) /\ fbo -> picture
          [] ~OffScreenCtx(ctx) /\ ctx = egl[e].context ->
               IF fbo THEN NoImage ELSE picture
          [] OTHER -> target[ctx]

OnSdkDraw(e) ==
    /\ Ready(e)
    /\ sdk[e].hooks
    /\ LET ctx == CurrentOf(e)
       IN  /\ ctx # NoCtx
           /\ target' = [target EXCEPT ![ctx] = DrawnTo(e, ctx)]
           /\ bound' = IF sdk[e].type = "off" THEN bound \cup {ctx} ELSE bound
    /\ UNCHANGED <<proc, sdk, egl, user, effect, current, refs, made, shown>>

(* swapEglBuffers called by the client: the back buffer holds undefined    *)
(* pixels after the swap of the last draw; a pbuffer has nothing to swap.  *)
SwapEglBuffers(e) ==
    /\ Ready(e)
    /\ target' = IF sdk[e].type = "on" /\ CurrentOf(e) = egl[e].context
                 THEN [target EXCEPT ![egl[e].context] = NoImage] ELSE target
    /\ UNCHANGED <<proc, sdk, egl, user, effect, current, refs, made, shown, bound>>

-----------------------------------------------------------------------------
Lifecycle(e) ==
    \/ NewBlankSdkEnv(e)
    \/ NewDefaultSdkEnv(e)
    \/ SetEglNativeWindow(e)
    \/ SetPlatformData(e)
    \/ InitSdkEnv(e)
    \/ SdkMain(e)
    \/ FreeSdkEnv(e)

Editing(e) ==
    \/ \E path \in Path : SetInputImagePath(e, path)
    \/ \E path \in Outputs : SetOutputImagePath(e, path)
    \/ \E cmd \in Commands : SetEffectCmd(e, cmd)
    \/ OnSdkDraw(e)
    \/ SwapEglBuffers(e)

Next == \E e \in Env : Lifecycle(e) \/ Editing(e)

Spec == Init /\ [][Next]_vars

-----------------------------------------------------------------------------
(* Every variable has its type; the contexts in use are contexts that were *)
(* created.                                                                *)
TypeOK ==
    /\ proc \in {"running", "crashed", "exited", "spinning"}
    /\ sdk \in [Env -> SdkRecord]
    /\ egl \in [Env -> EglRecord]
    /\ user \in [Env -> UserRecord]
    /\ current \in [Thread -> Ctx \cup {NoCtx}]
    /\ refs \in Nat
    /\ made \subseteq Ctx
    /\ shown \in [Ctx -> Picture \cup {NoImage}]
    /\ bound \subseteq Ctx
    /\ target \in [Ctx -> Picture \cup {NoImage}]

(* The two deployments the properties tell apart: every instance has a     *)
(* thread of its own, or instances share one.                              *)
OneThreadEach == \A e, f \in Env : ThreadOf[e] = ThreadOf[f] => e = f

(* setEffectCmd reuses the image in memory without looking at the path     *)
(* (imgsdk.c:1336).  When it does, that image was decoded from the path    *)
(* that is set now: after any mix of new paths, repeated paths and failed  *)
(* loads, a stale image is never used again.                               *)
ReuseIsCurrentInput ==
    \A e \in Env :
       user[e].active = "param" =>
          user[e].param # NoImage /\ user[e].param.src = user[e].input

(* A thread's current context belongs to an instance that is alive and     *)
(* used from that thread: freeSdkEnv and a failed initialisation leave no  *)
(* destroyed context current.                                              *)
CurrentIsHeld ==
    \A t \in Thread :
       current[t] # NoCtx =>
          \E e \in Env : /\ sdk[e].life = "live"
                         /\ ThreadOf[e] = t
                         /\ egl[e].context = current[t]

(* An initialised instance works in its own context.                       *)
WorksInOwnContext ==
    \A e \in Env :
       Ready(e) => egl[e].context # NoCtx /\ CurrentOf(e) = egl[e].context

(* The texture an instance draws holds the image it keeps in memory, so    *)
(* that reusing the image without an upload is right.                      *)
PictureUploaded ==
    \A e \in Env :
       Ready(e) /\ user[e].active = "param" =>
          shown[egl[e].context] = user[e].param

(* imgsdk.c:1311, "In off-screen render, We must reAssign value. Otherwise *)
(* the elemets will be invisible": the viewport of an off-screen instance  *)
(* has the size of the image it draws.                                     *)
OffScreenViewport ==
    \A e \in Env :
       Ready(e) /\ sdk[e].type = "off" /\ user[e].active = "param" =>
          egl[e].view = user[e].input

(* The display stays initialised while an instance needs it: freeing one   *)
(* instance, or failing to initialise it, takes nobody else's count.       *)
DisplayCounted == Cardinality({e \in Env : Ready(e)}) <= refs

(* A draw delivers the image an instance keeps: to the window on-screen,   *)
(* to texture2 off-screen, in its own context, whatever was drawn, swapped *)
(* or failed before, and whatever framebuffer object is still bound.       *)
DrawDelivers ==
    \A e \in Env :
       Ready(e) /\ sdk[e].linked /\ user[e].active = "param" =>
          /\ CurrentOf(e) = egl[e].context
          /\ DrawnTo(e, egl[e].context) = user[e].param

(* What one instance does never changes the texture another one draws.     *)
Isolation ==
    [][ \A e \in Env :
          Ready(e) /\ user'[e] = user[e]
             => shown'[egl[e].context] = shown[egl[e].context] ]_vars

-----------------------------------------------------------------------------
(* What the headers, messages and comments of the code say.                *)

(* imgsdk.c:1073, "SDK is already initialized": an instance that is        *)
(* initialised keeps its display, surface and context when initSdkEnv is   *)
(* called again.  Off-screen instances do; the test compares the wrong     *)
(* field, so on-screen ones do not.                                        *)
SecondInitRefused ==
    [][ \A e \in Env : Ready(e) /\ InitSdkEnv(e) => egl'[e] = egl[e] ]_vars

(* imgsdk.h:27-28, Bitmap_t: "The available space is width * height *      *)
(* form".  The upload of setEffectCmd reads 3 bytes per pixel for a JPEG   *)
(* and 4 for every other input, so form must not be smaller.               *)
BytesRead(e) == IF user[e].type = "jpg" THEN 3 ELSE 4

UploadFits ==
    \A e \in Env : user[e].active = "param" => BytesRead(e) <= user[e].param.form
=============================================================================
