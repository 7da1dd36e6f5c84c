------------------------------ MODULE SdkHeap ------------------------------
(***************************************************************************)
(* The memory of one SdkEnv of jni/src/imgsdk.c: which call allocates each *)
(* block the instance points to, which call frees it, and which blocks are *)
(* left without a pointer.  Any allocation, file or EGL step may fail.     *)
(*                                                                         *)
(* A pointer of the instance is NULL, holds a block, or is stale: freed    *)
(* and not yet overwritten.  A block whose last pointer is overwritten is  *)
(* lost.  A chrbuf_t and its text are allocated and freed together and are *)
(* one block here; "pixels" is the base of the Bitmap_t that "bitmap"      *)
(* points to; "file" is a FILE of readFile.                                *)
(*                                                                         *)
(* The client is Java, which initialises an instance once, or native code  *)
(* (android_main.c initialises its instance for every window it gets and   *)
(* whatever the last initialisation returned).  Both give the instance the *)
(* asset manager first.                                                    *)
(***************************************************************************)
EXTENDS EffectParser

CONSTANTS
    Path,           \* input image paths
    NoPath,         \* a NULL input path
    Commands,       \* user commands
    MaxInits,       \* bound: calls of initSdkEnv
    MaxPaths,       \* bound: input paths that replace another
    MaxOutputs,     \* bound: calls of setOutputImagePath
    MaxEffects      \* bound: calls of setEffectCmd

ASSUME NoPathAssumption == NoPath \notin Path
ASSUME BoundsAssumption ==
    MaxInits \in Nat /\ MaxPaths \in Nat /\ MaxOutputs \in Nat /\ MaxEffects \in Nat

VARIABLES
    env,            \* the instance: life, client, type, ret, active, input
    mem,            \* its pointers, the blocks lost, a second free
    calls           \* calls made so far

vars == <<env, mem, calls>>

Pointers ==
    {"input", "output", "buffer", "params", "vert", "frag", "bitmap", "pixels"}

Kinds == Pointers \cup {"file"}

Instances ==
    [life : {"none", "live", "dangling", "freed", "refused", "crashed"},
     client : {"java", "native"}, window : BOOLEAN,
     type : {"on", "off"}, ret : {"none", "ok", "error"},
     active : {"none", "path", "param"}, input : Path \cup {NoPath}]

Memories ==
    [at : [Pointers -> {"null", "held", "stale"}],
     lost : [Kinds -> Nat], twice : BOOLEAN]

HeapTypeOK ==
    /\ env \in Instances
    /\ mem \in Memories
    /\ calls \in [init : 0 .. MaxInits, path : 0 .. MaxPaths,
                  output : 0 .. MaxOutputs, effect : 0 .. MaxEffects]

-----------------------------------------------------------------------------
(* What a call does to the memory.                                         *)
LoseIfHeld(m, p) == IF m.at[p] = "held" THEN m.lost[p] + 1 ELSE m.lost[p]

(* p = calloc(), strdup(): what p pointed to is lost.                      *)
Give(m, p) == [m EXCEPT !.lost[p] = LoseIfHeld(m, p), !.at[p] = "held"]

(* p = NULL, with no free before.                                          *)
Drop(m, p) == [m EXCEPT !.lost[p] = LoseIfHeld(m, p), !.at[p] = "null"]

(* if (p) free(p), the pointer left as it is.                              *)
Free(m, p) == [m EXCEPT !.at[p] = IF @ = "held" THEN "stale" ELSE @,
                        !.twice = @ \/ m.at[p] = "stale"]

FreeAndClear(m, p) == [Free(m, p) EXCEPT !.at[p] = "null"]

LoseOne(m, kind) == [m EXCEPT !.lost[kind] = @ + 1]

(* free(env): whatever its pointers still hold is lost.                    *)
FreeInstance(m) ==
    [m EXCEPT !.lost = [k \in Kinds |-> IF k \in Pointers THEN LoseIfHeld(m, k) ELSE @[k]],
              !.at = [p \in Pointers |-> "null"]]

(* freeBitmap frees the pixels, not the Bitmap_t, whose pointer is cleared.*)
FreeBitmap(m) ==
    IF m.at["bitmap"] = "null" THEN m
    ELSE Drop(FreeAndClear(m, "pixels"), "bitmap")

(* Mutant: the freed input path is not set to NULL before the second test. *)
FreeSourceUncleared(m) ==
    CASE env.active = "path"  -> Free(m, "input")
      [] env.active = "param" -> FreeBitmap(m)
      [] env.active = "none"  -> m

(* The active source is freed: the path, or the bitmap.                    *)
FreeSource(m) ==
    CASE env.active = "path"  -> FreeAndClear(m, "input")
      [] env.active = "param" -> FreeBitmap(m)
      [] env.active = "none"  -> m

(* Mutant: freeSdkEnv leaves the input path to the active source's branch. *)
FreeRestNoInput(m) ==
    FreeAndClear(FreeAndClear(FreeAndClear(m, "buffer"), "output"), "params")

(* The command text, the input path if it is still there, the output path  *)
(* and the effect parameters; not the shader sources.                      *)
FreeRest(m) ==
    FreeAndClear(FreeAndClear(FreeAndClear(FreeAndClear(
        m, "buffer"), "input"), "output"), "params")

Release(m) == FreeInstance(FreeRest(FreeSource(m)))

-----------------------------------------------------------------------------
NoCall == [init |-> 0, path |-> 0, output |-> 0, effect |-> 0]

Init ==
    /\ env = [life |-> "none", client |-> "java", window |-> FALSE,
              type |-> "on", ret |-> "none", active |-> "none", input |-> NoPath]
    /\ mem = [at |-> [p \in Pointers |-> "null"],
              lost |-> [k \in Kinds |-> 0], twice |-> FALSE]
    /\ calls = NoCall

Live == env.life = "live"
Ready == Live /\ env.ret = "ok"

(* The process stops: an assert, or a NULL pointer followed.               *)
Crash == env' = [env EXCEPT !.life = "crashed"]

NewBlankSdkEnv ==
    /\ env.life = "none"
    /\ \E client \in {"java", "native"}, window \in BOOLEAN :
          env' = [env EXCEPT !.life = "live", !.client = client, !.window = window]
    /\ UNCHANGED <<mem, calls>>

(* readFile opens a FILE and never closes it, whatever it then returns.    *)
ReadFile(m, p) == Give(LoseOne(m, "file"), p)

(* newDefaultSdkEnv, with the memory as each step that fails leaves it: EGL*)
(* or newChrbuf; opening and reading the vertex shader; opening and reading*)
(* the fragment shader; attachShader.                                      *)
NewDefaultSdkEnv ==
    /\ env.life = "none"
    /\ LET buffer == Give(mem, "buffer")
           vert   == ReadFile(buffer, "vert")
           frag   == ReadFile(vert, "frag")
           failed == { mem, buffer, LoseOne(buffer, "file"),
                       Free(vert, "vert"),
                       Free(LoseOne(vert, "file"), "vert"),
                       Free(Free(frag, "vert"), "frag") }
       IN  \/ /\ mem' = frag
              /\ env' = [env EXCEPT !.life = "live", !.client = "native",
                                    !.type = "off", !.ret = "ok"]
           \/ /\ \E m \in failed : mem' = Release(m)
              /\ env' = [env EXCEPT !.life = "refused"]
    /\ UNCHANGED calls

(* The test for an initialised instance compares type with the value of    *)
(* OFF_SCREEN_RENDER, which newBlankSdkEnv does not give it.               *)
InitRefused ==
    /\ env.type = "off"
    /\ UNCHANGED <<env, mem>>

(* newChrbuf failed: initSdkEnv frees the instance, and its client keeps   *)
(* the pointer.                                                            *)
InitWithoutBuffer ==
    /\ env.type = "on"
    /\ mem' = Release(mem)
    /\ env' = [env EXCEPT !.life = "dangling", !.ret = "error"]

(* initEffectCmd asserts that its parameters could be allocated.           *)
InitWithoutParams ==
    /\ env.type = "on"
    /\ mem' = Give(mem, "buffer")
    /\ Crash

WithEffect(m) == Give(Give(m, "buffer"), "params")

(* Mutant: no value is returned, as VALIDATE_NOT_NULL returns none.        *)
InitReturnsNothing ==
    /\ env.type = "on"
    /\ mem' = WithEffect(mem)
    /\ env' = [env EXCEPT !.ret = "undefined"]

(* initEGL and initDefaultEGL set the type last; initEGL may be followed by*)
(* a size that does not match.                                             *)
InitWithoutEgl ==
    /\ env.type = "on"
    /\ mem' = WithEffect(mem)
    /\ env' = [env EXCEPT !.ret = "error"]

(* readFileFromAssets gives the text or NULL, and attachShader is called   *)
(* all the same.  It returns no value at all without a vertex shader, so   *)
(* either answer is possible, as it is for shaders that were read.         *)
InitWithEgl ==
    /\ env.type = "on"
    /\ \E vert, frag \in {TRUE, FALSE} :
          LET m == IF vert THEN Give(WithEffect(mem), "vert")
                           ELSE Drop(WithEffect(mem), "vert")
          IN  mem' = IF frag THEN Give(m, "frag") ELSE Drop(m, "frag")
    /\ \E ret \in {"ok", "error"} :
          env' = [env EXCEPT !.ret = ret,
                             !.type = IF env.window THEN "on" ELSE "off"]

InitSdkEnv ==
    /\ Live /\ calls.init < MaxInits
    /\ env.client = "java" => env.ret = "none"
    /\ calls' = [calls EXCEPT !.init = @ + 1]
    /\ \/ InitRefused
       \/ InitWithoutBuffer
       \/ InitWithoutParams
       \/ InitWithoutEgl
       \/ InitWithEgl

(* A client that was told that the initialisation failed frees the         *)
(* instance.  If initSdkEnv has freed it already this reads and frees the  *)
(* same block again.                                                       *)
FreeSdkEnv ==
    \/ /\ Live
       /\ mem' = Release(mem)
       /\ env' = [env EXCEPT !.life = "freed"]
       /\ UNCHANGED calls
    \/ /\ env.life = "dangling" /\ ~mem.twice
       /\ mem' = [mem EXCEPT !.twice = TRUE]
       /\ UNCHANGED <<env, calls>>

-----------------------------------------------------------------------------
(* strdup gives the copy, or NULL.                                         *)
Copied(m, p) == {Give(Free(m, p), p), FreeAndClear(m, p)}

(* setInputImagePath.  It leaves the bitmap of the path before alone, and  *)
(* does nothing at all for the same path.                                  *)
SetInputImagePath(path) ==
    /\ Ready /\ calls.path < MaxPaths
    /\ env.input # path
    /\ \E m \in Copied(mem, "input") :
          /\ mem' = m
          /\ env' = [env EXCEPT !.active = "path",
                        !.input = IF m.at["input"] = "held" THEN path ELSE NoPath]
    /\ calls' = [calls EXCEPT !.path = @ + 1]

SetOutputImagePath ==
    /\ Ready /\ calls.output < MaxOutputs
    /\ mem' \in Copied(mem, "output")
    /\ calls' = [calls EXCEPT !.output = @ + 1]
    /\ UNCHANGED env

(* parseEffectCmd as far as it touches the parameter array: "Normal" sets  *)
(* the pointer to NULL, the other effects write through it.                *)
Parse(cmd) ==
    ParseEffectCmd(cmd, [InitEffectCmd EXCEPT
                           !.params = IF mem.at["params"] = "held" THEN @ ELSE Null])

AfterParse(cmd) ==
    IF Parse(cmd).eft.params = Null THEN Drop(mem, "params") ELSE mem

(* Mutant: the image in memory does not become the active source.          *)
LoadNotActive(m) ==
    \/ mem' = m /\ UNCHANGED env
    \/ mem' = LoseOne(m, "bitmap") /\ UNCHANGED env
    \/ mem' = LoseOne(m, "bitmap") /\ Crash
    \/ /\ mem' = Give(Give(m, "bitmap"), "pixels")
       /\ UNCHANGED env

(* The active path is loaded: no Bitmap_t; a file that cannot be opened, a *)
(* Bitmap_t that nobody frees; no pixels, which the decoders do not        *)
(* survive; or the image, whose Bitmap_t takes the place of the last one.  *)
Load(m) ==
    \/ mem' = m /\ UNCHANGED env
    \/ mem' = LoseOne(m, "bitmap") /\ UNCHANGED env
    \/ mem' = LoseOne(m, "bitmap") /\ Crash
    \/ /\ mem' = Give(Give(m, "bitmap"), "pixels")
       /\ env' = [env EXCEPT !.active = "param"]

NeedsLoad == env.active = "path" /\ mem.at["input"] = "held"

SetEffectCmd(cmd) ==
    /\ Ready /\ calls.effect < MaxEffects
    /\ \/ Parse(cmd).crash /\ Crash /\ UNCHANGED mem
       \/ ~Parse(cmd).crash /\ NeedsLoad /\ Load(AfterParse(cmd))
       \/ ~Parse(cmd).crash /\ ~NeedsLoad /\ mem' = AfterParse(cmd) /\ UNCHANGED env
    /\ calls' = [calls EXCEPT !.effect = @ + 1]

Next ==
    \/ NewBlankSdkEnv
    \/ NewDefaultSdkEnv
    \/ InitSdkEnv
    \/ \E path \in Path : SetInputImagePath(path)
    \/ SetOutputImagePath
    \/ \E cmd \in Commands : SetEffectCmd(cmd)
    \/ FreeSdkEnv

Spec == Init /\ [][Next]_vars

-----------------------------------------------------------------------------
(* No block of the instance is freed twice, on any way through freeSdkEnv  *)
(* (which tests the input path in two places, imgsdk.c:704 and 722), after *)
(* any failed construction and any change of a path.  The exception is the *)
(* instance that initSdkEnv freed itself, imgsdk.c:1085, and its client    *)
(* frees again.                                                            *)
FreedOnce == mem.twice => env.life = "dangling"

(* What outlives the instance.  A construction that fails leaves no block  *)
(* behind but the FILEs of readFile; freeSdkEnv never leaves a path behind,*)
(* whichever source is active, a command text only for an initialisation   *)
(* that was repeated, and parameters or a shader source once for every     *)
(* initialisation (the sources are never freed).                           *)
Gone == env.life \in {"freed", "dangling", "refused"}

Constructions == IF calls.init = 0 THEN 1 ELSE calls.init

SurvivorsKnown ==
    Gone =>
        /\ mem.lost["input"] = 0 /\ mem.lost["output"] = 0
        /\ mem.lost["buffer"] < Constructions
        /\ \A p \in {"params", "vert", "frag"} : mem.lost[p] <= Constructions
        /\ env.life = "refused" =>
              \A p \in Pointers : mem.lost[p] = 0

(* The pixels of an image are lost only when another path took the place   *)
(* of its own: with n paths in the life of an instance at most n - 1       *)
(* images are lost, however many effects were set, and none when the path  *)
(* was never changed (setInputImagePath, imgsdk.c:1171, keeps the bitmap   *)
(* that setEffectCmd or freeSdkEnv then has no pointer to).                *)
PixelsLostPerPath ==
    mem.lost["pixels"] < IF calls.path = 0 THEN 1 ELSE calls.path
=============================================================================
