------------------------ MODULE SdkEnvContextProofs -------------------------
(***************************************************************************)
(* Proofs about SdkEnv.  The first part needs no hypothesis: the types,    *)
(* and what the effect command applies to.  The values of the instances    *)
(* are typed by lemmas about single records, so that the steps need no     *)
(* record arithmetic.  The second part is about the EGL contexts and the   *)
(* display, for any assignment of instances to threads, when every         *)
(* instance is initialised at most once (Reinit = FALSE).                  *)
(***************************************************************************)
EXTENDS SdkEnv, TLAPS, FiniteSetTheorems


(* setEffectCmd reads a path only after one was set.                       *)
ActivePathIsSet ==
    \A e \in Env : user[e].active # "none" => user[e].input \in Path

USE ThreadOfAssumption

(* The records of SdkEnv keep their type under every update the code makes. *)
LEMMA SdkUpdates ==
    ASSUME NEW r \in SdkRecord
    PROVE  /\ [r EXCEPT !.window = TRUE] \in SdkRecord
           /\ [r EXCEPT !.assets = TRUE] \in SdkRecord
           /\ [r EXCEPT !.hooks = TRUE] \in SdkRecord
           /\ [r EXCEPT !.life = "live"] \in SdkRecord
           /\ [r EXCEPT !.life = "freed"] \in SdkRecord
           /\ [r EXCEPT !.cmd = "text"] \in SdkRecord
           /\ \A ret \in {"ok", "error"} : [r EXCEPT !.ret = ret] \in SdkRecord
  BY DEF SdkRecord

LEMMA SdkStarts ==
    /\ \A life \in {"none", "live", "freed", "dangling"} :
          [BlankSdk EXCEPT !.life = life] \in SdkRecord
    /\ [BlankSdk EXCEPT !.life = "live", !.type = "off", !.status = TRUE,
          !.ret = "ok", !.linked = TRUE, !.cmd = "empty"] \in SdkRecord
  BY DEF BlankSdk, SdkRecord

LEMMA BlanksTyped == BlankEgl \in EglRecord /\ BlankUser \in UserRecord
  BY DEF BlankEgl, EglRecord, BlankUser, UserRecord

LEMMA EglAfterTyped ==
    ASSUME NEW old \in EglRecord, NEW stop \in Int, NEW ctx \in Ctx
    PROVE  EglAfter(old, stop, ctx) \in EglRecord
<1>1. (GetDisplay < stop) \in BOOLEAN
  OBVIOUS
<1>2. (CreateSurface < stop \/ (stop < CreateSurface /\ old.surface)) \in BOOLEAN
  OBVIOUS
<1>3. (CASE CreateContext < stop -> ctx
         [] CreateContext = stop -> NoCtx
         [] OTHER -> old.context) \in Ctx \cup {NoCtx}
  BY DEF EglRecord
<1>4. (IF MakeCurrent < stop THEN "surface" ELSE old.view)
         \in Path \cup {"unset", "surface"}
  BY DEF EglRecord
<1>. QED
  BY <1>1, <1>2, <1>3, <1>4, Zenon DEF EglAfter, EglRecord

LEMMA SdkAfterTyped ==
    ASSUME NEW old \in SdkRecord, NEW stop \in Int, NEW linked \in BOOLEAN
    PROVE  SdkAfter(old, stop, linked) \in SdkRecord
<1> DEFINE type == IF MakeCurrent < stop /\ ~old.window THEN "off" ELSE "on"
           status == old.status \/ stop = AllDone
           ret == IF stop = AllDone THEN "ok" ELSE "error"
<1>1. type \in {"on", "off"} /\ status \in BOOLEAN /\ ret \in {"ok", "error"}
  OBVIOUS
<1>2. SdkAfter(old, stop, linked) =
        [old EXCEPT !.type = type, !.status = status, !.ret = ret,
                    !.linked = linked, !.cmd = "empty"]
  BY Zenon DEF SdkAfter
<1> HIDE DEF type, status, ret
<1> DEFINE first == [[old EXCEPT !.type = type] EXCEPT !.status = status]
           second == [[first EXCEPT !.ret = ret] EXCEPT !.linked = linked]
<1>3. first \in SdkRecord
  BY <1>1 DEF SdkRecord
<1>4. ASSUME first \in SdkRecord PROVE second \in SdkRecord
  <2> HIDE DEF first
  <2>. QED
    BY <1>1, <1>4 DEF SdkRecord
<1>5. ASSUME second \in SdkRecord PROVE [second EXCEPT !.cmd = "empty"] \in SdkRecord
  <2> HIDE DEF second
  <2>. QED
    BY <1>5 DEF SdkRecord
<1>6. SdkAfter(old, stop, linked) = [second EXCEPT !.cmd = "empty"]
  BY <1>2, Zenon
<1>. QED
  BY <1>3, <1>4, <1>5, <1>6

LEMMA UserUpdates ==
    ASSUME NEW r \in UserRecord
    PROVE  /\ \A path \in Path : WithInput(r, path) \in UserRecord
           /\ \A picture \in Picture :
                 [r EXCEPT !.param = picture, !.active = "param"] \in UserRecord
<1>1. ASSUME NEW path \in Path PROVE WithInput(r, path) \in UserRecord
  <2>1. ImageType(path) \in {"unknown", "jpg", "png"}
    BY DEF ImageType
  <2>. QED
    BY <2>1 DEF WithInput, UserRecord
<1>. QED
  BY <1>1 DEF UserRecord

(* A decoder returns a picture of the path it was given.                   *)
LEMMA DecodedTyped ==
    ASSUME NEW path \in Path
    PROVE  /\ Decoded(path) \subseteq Picture
           /\ \A picture \in Decoded(path) : picture.src = path
  BY DEF Decoded, Picture

LEMMA ReleaseTyped ==
    ASSUME TypeOK, NEW e \in Env, NEW life \in {"freed", "dangling"},
           ReleaseSdkEnv(e, life), proc' \in {"running", "crashed"}
    PROVE  TypeOK'
  BY SdkStarts, BlanksTyped DEF TypeOK, ReleaseSdkEnv, CurrentAfterFree, RefsAfterFree
  
LEMMA EglCallsTyped ==
    ASSUME TypeOK, NEW e \in Env, NEW stop \in 0 .. 10, NEW ctx \in Ctx,
           EglCalls(e, stop, ctx)
    PROVE  /\ egl' \in [Env -> EglRecord]
           /\ current' \in [Thread -> Ctx \cup {NoCtx}]
           /\ refs' \in Nat
           /\ made' \subseteq Ctx
  BY EglAfterTyped DEF TypeOK, EglCalls, CurrentAfterInit

-----------------------------------------------------------------------------
(* Every call of imgsdk.h preserves the types.                             *)
LEMMA TypeStep ==
    ASSUME TypeOK, ActivePathIsSet, [Next]_vars
    PROVE  TypeOK'
<1> USE DEF TypeOK
<1>1. ASSUME NEW e \in Env, NewBlankSdkEnv(e) PROVE TypeOK'
  BY <1>1, SdkUpdates DEF NewBlankSdkEnv, glVars
<1>2. ASSUME NEW e \in Env, SetEglNativeWindow(e) PROVE TypeOK'
  BY <1>2, SdkUpdates DEF SetEglNativeWindow, glVars
<1>3. ASSUME NEW e \in Env, SetPlatformData(e) PROVE TypeOK'
  BY <1>3, SdkUpdates DEF SetPlatformData, glVars
<1>4. ASSUME NEW e \in Env, SdkMain(e) PROVE TypeOK'
  BY <1>4, SdkUpdates DEF SdkMain, glVars
<1>5. ASSUME NEW e \in Env, NEW path \in Path, SetInputImagePath(e, path)
       PROVE TypeOK'
  BY <1>5, UserUpdates DEF SetInputImagePath, glVars
<1>6. ASSUME NEW e \in Env, NEW path \in Outputs, SetOutputImagePath(e, path)
       PROVE TypeOK'
  BY <1>6 DEF SetOutputImagePath, glVars, UserRecord
<1>7. ASSUME NEW e \in Env, OnSdkDraw(e) PROVE TypeOK'
  <2> DEFINE ctx == CurrentOf(e)
  <2>1. ctx \in Ctx
    BY <1>7 DEF OnSdkDraw, CurrentOf
  <2>2. DrawnTo(e, ctx) \in Picture \cup {NoImage}
    BY <2>1 DEF DrawnTo
  <2>. QED
    BY <1>7, <2>1, <2>2 DEF OnSdkDraw
<1>8. ASSUME NEW e \in Env, SwapEglBuffers(e) PROVE TypeOK'
  BY <1>8 DEF SwapEglBuffers
<1>9. CASE UNCHANGED vars
  BY <1>9 DEF vars
<1>10. ASSUME NEW e \in Env, FreeSdkEnv(e) PROVE TypeOK'
  <2>1. CASE Live(e) /\ ReleaseSdkEnv(e, "freed") /\ UNCHANGED proc
    BY <2>1, ReleaseTyped DEF Live
  <2>2. CASE /\ proc' \in {"running", "crashed"}
             /\ sdk' = [sdk EXCEPT ![e].life = "freed"]
             /\ UNCHANGED <<egl, user, effect, glVars>>
    BY <2>2, SdkUpdates DEF glVars
  <2>. QED
    BY <1>10, <2>1, <2>2 DEF FreeSdkEnv
<1>11. ASSUME NEW e \in Env, InitSdkEnv(e) PROVE TypeOK'
  <2>1. CASE InitRefused(e)
    BY <1>11, <2>1, SdkUpdates DEF InitRefused, InitSdkEnv, glVars
  <2>2. CASE InitWithoutBuffer(e)
    BY <1>11, <2>2, ReleaseTyped DEF InitWithoutBuffer, InitSdkEnv, Live
  <2>3. CASE InitWithEgl(e)
    <3>1. PICK stop \in (Stops \ {NewBuffer}) \cup {AllDone}, ctx \in Ctx \ made,
               linked \in BOOLEAN :
            /\ EglCalls(e, stop, ctx)
            /\ sdk' = [sdk EXCEPT ![e] = SdkAfter(@, stop, linked)]
            /\ UNCHANGED <<user, shown, bound, target>>
      BY <2>3 DEF InitWithEgl
    <3>2. stop \in 0 .. 10
      BY StopsAssumption DEF NewBuffer, AttachShader, AllDone
    <3>3. sdk' \in [Env -> SdkRecord]
      BY <3>1, <3>2, SdkAfterTyped
    <3>. QED
      BY <1>11, <3>1, <3>2, <3>3, EglCallsTyped DEF InitSdkEnv
  <2>. QED
    BY <1>11, <2>1, <2>2, <2>3 DEF InitSdkEnv
<1>12. ASSUME NEW e \in Env, NewDefaultSdkEnv(e) PROVE TypeOK'
  <2>1. UNCHANGED <<user, shown, bound, target>> /\ proc' = proc
    BY <1>12 DEF NewDefaultSdkEnv
  <2>2. ASSUME NEW ctx \in Ctx \ made, EglCalls(e, AllDone, ctx),
               sdk' = [sdk EXCEPT ![e] =
                          [BlankSdk EXCEPT !.life = "live", !.type = "off",
                             !.status = TRUE, !.ret = "ok", !.linked = TRUE,
                             !.cmd = "empty"]]
        PROVE  TypeOK'
    <3>1. AllDone \in 0 .. 10
      BY DEF AllDone
    <3>. QED
      BY <2>1, <2>2, <3>1, SdkStarts, EglCallsTyped
  <2>3. CASE /\ current' \in {current, [current EXCEPT ![ThreadOf[e]] = NoCtx]}
             /\ sdk' = [sdk EXCEPT ![e].life = "freed"]
             /\ UNCHANGED <<egl, refs, made>>
    BY <2>1, <2>3, SdkUpdates
  <2>. QED
    BY <1>12, <2>2, <2>3 DEF NewDefaultSdkEnv
<1>13. ASSUME NEW e \in Env, NEW cmd \in Commands, SetEffectCmd(e, cmd)
       PROVE TypeOK'
  <2>1. UNCHANGED <<current, refs, made, bound>>
    BY <1>13 DEF SetEffectCmd
  <2>2. CASE proc' = "crashed" /\ UNCHANGED <<sdk, egl, user, shown, target>>
    BY <2>1, <2>2
  <2>3. CASE EffectWithoutImage(e)
    BY <2>1, <2>3 DEF EffectWithoutImage
  <2>4. CASE EffectReusesImage(e)
    BY <2>1, <2>4 DEF EffectReusesImage
  <2>5. CASE EffectFailsToLoad(e)
    BY <2>1, <2>5 DEF EffectFailsToLoad
  <2>6. CASE EffectLosesProcess(e)
    <3>1. proc' \in {"exited", "spinning"}
      BY <2>6 DEF EffectLosesProcess, LoadLoses
    <3>. QED
      BY <2>1, <2>6, <3>1 DEF EffectLosesProcess
  <2>7. CASE EffectLoadsImage(e)
    <3>1. user[e].input \in Path
      BY <2>7 DEF EffectLoadsImage, ActivePathIsSet
    <3>2. PICK picture \in Decoded(user[e].input) :
         /\ user' = [user EXCEPT ![e] =
                       [@ EXCEPT !.param = picture, !.active = "param"]]
         /\ Upload(e, picture)
      BY <2>7 DEF EffectLoadsImage
    <3>3. picture \in Picture
      BY <3>1, DecodedTyped
    <3>4. user' \in [Env -> UserRecord]
      BY <3>2, <3>3, UserUpdates
    <3>5. egl' \in [Env -> EglRecord]
      <4>1. ViewAfterLoad(e) \in Path \cup {"unset", "surface"}
        BY <3>1 DEF ViewAfterLoad, EglRecord
      <4>2. [egl[e] EXCEPT !.view = ViewAfterLoad(e)] \in EglRecord
        BY <4>1 DEF EglRecord
      <4>. QED
        BY <2>7, <4>2 DEF EffectLoadsImage
    <3>6. CurrentOf(e) \in Ctx \cup {NoCtx}
      BY DEF CurrentOf
    <3>7. /\ shown' \in [Ctx -> Picture \cup {NoImage}]
          /\ target' \in [Ctx -> Picture \cup {NoImage}]
      BY <3>2, <3>3, <3>6 DEF Upload
    <3>. QED
      BY <2>1, <2>7, <3>4, <3>5, <3>7, SdkUpdates DEF EffectLoadsImage
  <2>. QED
    BY <1>13, <2>2, <2>3, <2>4, <2>5, <2>6, <2>7 DEF SetEffectCmd
<1>. QED
  BY <1>1, <1>2, <1>3, <1>4, <1>5, <1>6, <1>7, <1>8, <1>9, <1>10, <1>11, <1>12,
     <1>13 DEF Next, Lifecycle, Editing

-----------------------------------------------------------------------------
(* How a step changes userData: freed, a new path, a new output path, or the *)
(* image that was decoded from the active path.                            *)
LEMMA UserSteps ==
    ASSUME TypeOK, [Next]_vars
    PROVE  \/ user' = user
           \/ \E e \in Env :
                 \/ user' = [user EXCEPT ![e] = BlankUser]
                 \/ \E path \in Path : user' = [user EXCEPT ![e] = WithInput(@, path)]
                 \/ \E path \in Outputs : user' = [user EXCEPT ![e].output = path]
                 \/ /\ user[e].active = "path"
                    /\ \E picture \in Decoded(user[e].input) :
                         user' = [user EXCEPT ![e] =
                                    [@ EXCEPT !.param = picture, !.active = "param"]]
<1> DEFINE Goal(e) ==
        \/ user' = user
        \/ user' = [user EXCEPT ![e] = BlankUser]
        \/ \E path \in Path : user' = [user EXCEPT ![e] = WithInput(@, path)]
        \/ \E path \in Outputs : user' = [user EXCEPT ![e].output = path]
        \/ /\ user[e].active = "path"
           /\ \E picture \in Decoded(user[e].input) :
                user' = [user EXCEPT ![e] =
                           [@ EXCEPT !.param = picture, !.active = "param"]]
<1>1. ASSUME NEW e \in Env, Lifecycle(e) PROVE Goal(e)
  BY <1>1 DEF Lifecycle, NewBlankSdkEnv, NewDefaultSdkEnv, SetEglNativeWindow,
     SetPlatformData, InitSdkEnv, InitRefused, InitWithoutBuffer, InitWithEgl,
     SdkMain, FreeSdkEnv, ReleaseSdkEnv
<1>2. ASSUME NEW e \in Env, Editing(e) PROVE Goal(e)
  <2>1. ASSUME NEW cmd \in Commands, SetEffectCmd(e, cmd) PROVE Goal(e)
    <3>1. CASE EffectLoadsImage(e)
      BY <3>1 DEF EffectLoadsImage
    <3>2. CASE UNCHANGED user
      BY <3>2
    <3>. QED
      BY <2>1, <3>1, <3>2 DEF SetEffectCmd, EffectWithoutImage,
         EffectReusesImage, EffectFailsToLoad, EffectLosesProcess
  <2>. QED
    BY <1>2, <2>1 DEF Editing, SetInputImagePath, SetOutputImagePath, OnSdkDraw,
       SwapEglBuffers
<1>3. CASE UNCHANGED vars
  BY <1>3 DEF vars
<1>. QED
  BY <1>1, <1>2, <1>3 DEF Next

(* The inductive invariant of the input: ReuseIsCurrentInput needs to know *)
(* that an active path is one that was set.                                *)
InputInv == TypeOK /\ ActivePathIsSet /\ ReuseIsCurrentInput

LEMMA InputInit == Init => InputInv
<1> SUFFICES ASSUME Init PROVE InputInv
  OBVIOUS
<1>1. BlankSdk \in SdkRecord
  BY DEF BlankSdk, SdkRecord
<1>2. TypeOK
  BY <1>1, BlanksTyped DEF Init, TypeOK
<1>. QED
  BY <1>2 DEF Init, InputInv, ActivePathIsSet, ReuseIsCurrentInput, BlankUser

LEMMA InputStep == InputInv /\ [Next]_vars => InputInv'
<1> SUFFICES ASSUME InputInv, [Next]_vars PROVE InputInv'
  OBVIOUS
<1>1. TypeOK'
  BY TypeStep DEF InputInv
<1>2. user \in [Env -> UserRecord]
  BY DEF InputInv, TypeOK
<1> DEFINE Right(r) ==
      /\ r.active # "none" => r.input \in Path
      /\ r.active = "param" => r.param # NoImage /\ r.param.src = r.input
<1>3. \A e \in Env : Right(user[e])
  BY DEF InputInv, ActivePathIsSet, ReuseIsCurrentInput
<1>4. Right(BlankUser)
  BY DEF BlankUser
<1>5. ASSUME NEW r \in UserRecord, NEW path \in Path PROVE Right(WithInput(r, path))
  BY DEF WithInput, UserRecord
<1>6. ASSUME NEW r \in UserRecord, Right(r), NEW path \in Outputs
      PROVE  Right([r EXCEPT !.output = path])
  BY <1>6 DEF UserRecord
<1>7. ASSUME NEW r \in UserRecord, Right(r), r.active = "path",
             NEW picture \in Decoded(r.input)
      PROVE  Right([r EXCEPT !.param = picture, !.active = "param"])
  <2>1. picture \in Picture /\ picture.src = r.input
    BY <1>7, DecodedTyped
  <2>. QED
    BY <1>7, <2>1, NoImageAssumption DEF UserRecord
<1>8. \A e \in Env : Right(user'[e])
  <2> HIDE DEF Right
  <2>1. ASSUME NEW e \in Env, user' = [user EXCEPT ![e] = BlankUser]
        PROVE  \A o \in Env : Right(user'[o])
    BY <1>2, <1>3, <1>4, <2>1
  <2>2. ASSUME NEW e \in Env, NEW path \in Path,
               user' = [user EXCEPT ![e] = WithInput(@, path)]
        PROVE  \A o \in Env : Right(user'[o])
    BY <1>2, <1>3, <1>5, <2>2
  <2>3. ASSUME NEW e \in Env, NEW path \in Outputs,
               user' = [user EXCEPT ![e].output = path]
        PROVE  \A o \in Env : Right(user'[o])
    BY <1>2, <1>3, <1>6, <2>3
  <2>4. ASSUME NEW e \in Env, user[e].active = "path",
               NEW picture \in Decoded(user[e].input),
               user' = [user EXCEPT ![e] =
                          [@ EXCEPT !.param = picture, !.active = "param"]]
        PROVE  \A o \in Env : Right(user'[o])
    BY <1>2, <1>3, <1>7, <2>4
  <2>. QED
    BY <1>3, <2>1, <2>2, <2>3, <2>4, UserSteps DEF InputInv
<1>. QED
  BY <1>1, <1>8 DEF InputInv, ActivePathIsSet, ReuseIsCurrentInput

(* TypeOK: whatever is called, in whatever order and from whatever threads, *)
(* the fields of the instances, the EGL state and the textures keep their  *)
(* types; a context that is used is one that was created.                  *)
THEOREM TypeCorrect == Spec => []TypeOK
<1>1. InputInv => TypeOK
  BY DEF InputInv
<1>. QED
  BY <1>1, InputInit, InputStep, PTL DEF Spec

(* ReuseIsCurrentInput: setEffectCmd never reuses an image of another path *)
(* than the one that is set (imgsdk.c:1336), for any number of instances,  *)
(* threads, paths and failed loads, also when instances are initialised twice. *)
THEOREM ReuseAlwaysCurrent == Spec => []ReuseIsCurrentInput
<1>1. InputInv => ReuseIsCurrentInput
  BY DEF InputInv
<1>. QED
  BY <1>1, InputInit, InputStep, PTL DEF Spec

-----------------------------------------------------------------------------
(* The inductive invariant.  An instance that is not alive or was never    *)
(* initialised is blank; an instance in use has a context; a context is made *)
(* once, for one instance, on an initialised display; what is current in a *)
(* thread is the context of an instance that is used from it.              *)
UnusedIsFresh == \A e \in Env : sdk[e].life # "live" => sdk[e].ret = "none"

FreshIsBlank ==
    \A e \in Env :
       sdk[e].ret = "none" =>
          egl[e] = BlankEgl /\ user[e] = BlankUser /\ ~sdk[e].status

ContextsAreMade ==
    \A e \in Env : egl[e].context # NoCtx => egl[e].context \in made /\ egl[e].display

ContextsDiffer ==
    \A e, f \in Env : egl[e].context = egl[f].context /\ e # f => egl[e].context = NoCtx

ReadyHasContext ==
    \A e \in Env : sdk[e].ret = "ok" => egl[e].context # NoCtx

CurrentIsUsed ==
    \A t \in Thread :
       current[t] # NoCtx =>
          \E e \in Env : ThreadOf[e] = t /\ egl[e].context = current[t]

ContextInv ==
    /\ UnusedIsFresh
    /\ FreshIsBlank
    /\ ContextsAreMade
    /\ ContextsDiffer
    /\ ReadyHasContext
    /\ CurrentIsUsed

(* What of an instance the invariant reads.                                *)
Core(r) == <<r.life, r.ret, r.status, r.type>>

LEMMA CoreKept ==
    ASSUME NEW r \in SdkRecord
    PROVE  /\ Core([r EXCEPT !.window = TRUE]) = Core(r)
           /\ Core([r EXCEPT !.assets = TRUE]) = Core(r)
           /\ Core([r EXCEPT !.hooks = TRUE]) = Core(r)
           /\ Core([r EXCEPT !.cmd = "text"]) = Core(r)
           /\ \A life \in {"live", "freed"} :
                 Core([r EXCEPT !.life = life]) = <<life, r.ret, r.status, r.type>>
           /\ \A ret \in {"ok", "error"} :
                 Core([r EXCEPT !.ret = ret]) = <<r.life, ret, r.status, r.type>>
           /\ \A stop \in Int, linked \in BOOLEAN :
                 /\ SdkAfter(r, stop, linked).life = r.life
                 /\ SdkAfter(r, stop, linked).ret = IF stop = AllDone THEN "ok" ELSE "error"
                 /\ SdkAfter(r, stop, linked).type =
                      IF MakeCurrent < stop /\ ~r.window THEN "off" ELSE "on"
  BY DEF Core, SdkRecord, SdkAfter

LEMMA CoreStarts ==
    /\ \A life \in {"none", "live", "freed", "dangling"} :
          Core([BlankSdk EXCEPT !.life = life]) = <<life, "none", FALSE, "on">>
    /\ Core([BlankSdk EXCEPT !.life = "live", !.type = "off", !.status = TRUE,
          !.ret = "ok", !.linked = TRUE, !.cmd = "empty"]) = <<"live", "ok", TRUE, "off">>
  BY DEF Core, BlankSdk

LEMMA ViewUpdate ==
    ASSUME NEW r \in EglRecord, NEW view
    PROVE  /\ [r EXCEPT !.view = view].context = r.context
           /\ [r EXCEPT !.view = view].display = r.display
           /\ [r EXCEPT !.view = view].view = view
  BY DEF EglRecord

-----------------------------------------------------------------------------
(* The invariant holds initially and is kept: by steps that move no context, *)
(* by freeing an instance, and by the EGL calls of an initialisation.      *)
LEMMA ContextInit == Init => ContextInv
  BY DEF Init, ContextInv, UnusedIsFresh, FreshIsBlank, ContextsAreMade,
     ContextsDiffer, ReadyHasContext, CurrentIsUsed, BlankSdk, BlankEgl

LEMMA ContextsQuiet ==
    ASSUME TypeOK, ContextInv,
           \A e \in Env :
              /\ sdk'[e].ret = sdk[e].ret
              /\ sdk'[e].status = sdk[e].status
              /\ sdk'[e].life = "live" \/ sdk'[e].ret = "none"
              /\ egl'[e].context = egl[e].context
              /\ egl'[e].display = egl[e].display
              /\ sdk[e].ret = "none" => egl'[e] = egl[e] /\ user'[e] = user[e],
           current' = current, made' = made
    PROVE  ContextInv'
  BY DEF ContextInv, UnusedIsFresh, FreshIsBlank, ContextsAreMade,
     ContextsDiffer, ReadyHasContext, CurrentIsUsed

LEMMA ContextsReleased ==
    ASSUME TypeOK, ContextInv, NEW e \in Env, NEW life \in {"freed", "dangling"},
           ReleaseSdkEnv(e, life)
    PROVE  ContextInv'
<1>1. /\ sdk'[e].life = life /\ sdk'[e].ret = "none" /\ ~sdk'[e].status
      /\ egl'[e] = BlankEgl /\ user'[e] = BlankUser
      /\ egl'[e].context = NoCtx
  BY CoreStarts DEF ReleaseSdkEnv, TypeOK, Core, BlankEgl
<1>2. \A f \in Env \ {e} : sdk'[f] = sdk[f] /\ egl'[f] = egl[f] /\ user'[f] = user[f]
  BY DEF ReleaseSdkEnv, TypeOK
<1>3. made' = made
  BY DEF ReleaseSdkEnv
<1>4. UnusedIsFresh' /\ FreshIsBlank'
  BY <1>1, <1>2 DEF ContextInv, UnusedIsFresh, FreshIsBlank
<1>5. ContextsAreMade' /\ ContextsDiffer' /\ ReadyHasContext'
  BY <1>1, <1>2, <1>3 DEF ContextInv, ContextsAreMade, ContextsDiffer, ReadyHasContext
<1>6. CurrentIsUsed'
  <2> SUFFICES ASSUME NEW t \in Thread, current'[t] # NoCtx
               PROVE  \E f \in Env : ThreadOf[f] = t /\ egl'[f].context = current'[t]
    BY DEF CurrentIsUsed
  <2>1. current'[t] = current[t] /\ (t = ThreadOf[e] => ~egl[e].display)
    BY DEF ReleaseSdkEnv, CurrentAfterFree, TypeOK
  <2>2. PICK f \in Env : ThreadOf[f] = t /\ egl[f].context = current[t]
    BY <2>1 DEF ContextInv, CurrentIsUsed
  <2>3. f # e
    BY <2>1, <2>2 DEF ContextInv, ContextsAreMade
  <2>. QED
    BY <1>2, <2>1, <2>2, <2>3
<1>. QED
  BY <1>4, <1>5, <1>6 DEF ContextInv

LEMMA ContextsCalled ==
    ASSUME TypeOK, ContextInv, NEW e \in Env, sdk[e].ret = "none",
           NEW stop \in Int, NEW ctx \in Ctx \ made, EglCalls(e, stop, ctx),
           \A f \in Env \ {e} : sdk'[f] = sdk[f],
           sdk'[e].life = "live", sdk'[e].ret # "none",
           sdk'[e].ret = "ok" => stop = AllDone,
           user' = user
    PROVE  ContextInv'
<1>1. \A f \in Env \ {e} : egl'[f] = egl[f]
  BY DEF EglCalls, TypeOK
<1>2. egl[e].context = NoCtx
  BY DEF ContextInv, FreshIsBlank, BlankEgl
<1>3. /\ egl'[e].context = IF CreateContext < stop THEN ctx ELSE NoCtx
      /\ egl'[e].display = (GetDisplay < stop)
  BY <1>2 DEF EglCalls, EglAfter, TypeOK
<1>4. /\ made' = IF CreateContext < stop THEN made \cup {ctx} ELSE made
      /\ current' = IF MakeCurrent < stop
                    THEN [current EXCEPT ![ThreadOf[e]] = ctx] ELSE current
  BY DEF EglCalls, CurrentAfterInit
<1>5. UnusedIsFresh' /\ FreshIsBlank'
  BY <1>1 DEF ContextInv, UnusedIsFresh, FreshIsBlank
<1>6. ContextsAreMade'
  <2>1. egl'[e].context # NoCtx => egl'[e].context \in made' /\ egl'[e].display
    <3>1. CreateContext < stop => GetDisplay < stop
      BY DEF GetDisplay, CreateContext
    <3>2. GetDisplay < stop => egl'[e].display
      BY <1>3, Zenon
    <3>. QED
      BY <1>3, <1>4, <3>1, <3>2
  <2>. QED
    BY <1>1, <1>4, <2>1 DEF ContextInv, ContextsAreMade
<1>7. ContextsDiffer'
  BY <1>1, <1>3 DEF ContextInv, ContextsAreMade, ContextsDiffer
<1>8. ReadyHasContext'
  BY <1>1, <1>3, NoCtxAssumption DEF ContextInv, ReadyHasContext, CreateContext, AllDone
<1>9. CurrentIsUsed'
  <2> SUFFICES ASSUME NEW t \in Thread, current'[t] # NoCtx
               PROVE  \E f \in Env : ThreadOf[f] = t /\ egl'[f].context = current'[t]
    BY DEF CurrentIsUsed
  <2>1. CASE MakeCurrent < stop /\ t = ThreadOf[e]
    BY <1>3, <1>4, <2>1 DEF TypeOK, MakeCurrent, CreateContext
  <2>2. CASE ~(MakeCurrent < stop /\ t = ThreadOf[e])
    <3>1. current'[t] = current[t]
      BY <1>4, <2>2 DEF TypeOK
    <3>2. PICK f \in Env : ThreadOf[f] = t /\ egl[f].context = current[t]
      BY <3>1 DEF ContextInv, CurrentIsUsed
    <3>. QED
      BY <1>1, <1>2, <3>1, <3>2
  <2>. QED
    BY <2>1, <2>2
<1>. QED
  BY <1>5, <1>6, <1>7, <1>8, <1>9 DEF ContextInv

(* The calls of imgsdk.h for a client that initialises each instance once. *)
CallOnce(e) ==
    \/ NewBlankSdkEnv(e)
    \/ NewDefaultSdkEnv(e)
    \/ SetEglNativeWindow(e)
    \/ SetPlatformData(e)
    \/ sdk[e].ret = "none" /\ InitSdkEnv(e)
    \/ SdkMain(e)
    \/ FreeSdkEnv(e)
    \/ Editing(e)

StepOnce == (\E e \in Env : CallOnce(e)) \/ UNCHANGED vars

(* Every one of them preserves the invariant.                              *)
LEMMA ContextStepOnce ==
    ASSUME TypeOK, ContextInv, StepOnce
    PROVE  ContextInv'
<1> USE DEF TypeOK, Core
<1>1. ASSUME NEW e \in Env, NewBlankSdkEnv(e) PROVE ContextInv'
  <2>1. /\ sdk'[e].ret = sdk[e].ret /\ sdk'[e].status = sdk[e].status
        /\ sdk'[e].life = "live"
    BY <1>1, CoreKept DEF NewBlankSdkEnv
  <2>2. /\ \A f \in Env \ {e} : sdk'[f] = sdk[f]
        /\ UNCHANGED <<egl, user, current, made>>
    BY <1>1 DEF NewBlankSdkEnv, glVars
  <2>. QED
    BY <2>1, <2>2, ContextsQuiet DEF ContextInv, UnusedIsFresh
<1>2. ASSUME NEW e \in Env, SetEglNativeWindow(e) PROVE ContextInv'
  BY <1>2, CoreKept, ContextsQuiet DEF SetEglNativeWindow, glVars, ContextInv, UnusedIsFresh
<1>3. ASSUME NEW e \in Env, SetPlatformData(e) PROVE ContextInv'
  BY <1>3, CoreKept, ContextsQuiet DEF SetPlatformData, glVars, ContextInv, UnusedIsFresh
<1>4. ASSUME NEW e \in Env, SdkMain(e) PROVE ContextInv'
  BY <1>4, CoreKept, ContextsQuiet DEF SdkMain, glVars, ContextInv, UnusedIsFresh
<1>5. ASSUME NEW e \in Env, NEW path \in Path, SetInputImagePath(e, path)
       PROVE ContextInv'
  BY <1>5, ContextsQuiet DEF SetInputImagePath, Ready, glVars, ContextInv, UnusedIsFresh
<1>6. ASSUME NEW e \in Env, NEW path \in Outputs, SetOutputImagePath(e, path)
       PROVE ContextInv'
  BY <1>6, ContextsQuiet DEF SetOutputImagePath, Ready, glVars, ContextInv, UnusedIsFresh
<1>7. ASSUME NEW e \in Env, OnSdkDraw(e) PROVE ContextInv'
  BY <1>7, ContextsQuiet DEF OnSdkDraw, ContextInv, UnusedIsFresh
<1>8. ASSUME NEW e \in Env, SwapEglBuffers(e) PROVE ContextInv'
  BY <1>8, ContextsQuiet DEF SwapEglBuffers, ContextInv, UnusedIsFresh
<1>9. CASE UNCHANGED vars
  BY <1>9, ContextsQuiet DEF vars, ContextInv, UnusedIsFresh
<1>10. ASSUME NEW e \in Env, FreeSdkEnv(e) PROVE ContextInv'
  <2>1. CASE ReleaseSdkEnv(e, "freed")
    BY <2>1, ContextsReleased
  <2>2. CASE /\ sdk[e].life = "dangling"
             /\ sdk' = [sdk EXCEPT ![e].life = "freed"]
             /\ UNCHANGED <<egl, user, effect, glVars>>
    BY <2>2, CoreKept, ContextsQuiet DEF glVars, ContextInv, UnusedIsFresh
  <2>. QED
    BY <1>10, <2>1, <2>2 DEF FreeSdkEnv
<1>11. ASSUME NEW e \in Env, sdk[e].ret = "none", InitSdkEnv(e) PROVE ContextInv'
  <2>1. sdk[e].ret = "none" /\ sdk[e].life = "live"
    BY <1>11 DEF InitSdkEnv, Live
  <2>2. CASE InitRefused(e)
    <3>1. ~sdk[e].status
      BY <2>1 DEF ContextInv, FreshIsBlank
    <3>2. sdk' = [sdk EXCEPT ![e].ret = "error"] /\ UNCHANGED <<egl, user, current, made>>
      BY <2>2, <3>1 DEF InitRefused, glVars
    <3>3. sdk'[e].ret = "error" /\ sdk'[e].life = "live"
      BY <2>1, <3>2, CoreKept
    <3>4. \A f \in Env \ {e} : sdk'[f] = sdk[f]
      BY <3>2
    <3>5. UnusedIsFresh' /\ FreshIsBlank' /\ ReadyHasContext'
      BY <3>2, <3>3, <3>4 DEF ContextInv, UnusedIsFresh, FreshIsBlank, ReadyHasContext
    <3>6. ContextsAreMade' /\ ContextsDiffer' /\ CurrentIsUsed'
      BY <3>2 DEF ContextInv, ContextsAreMade, ContextsDiffer, CurrentIsUsed
    <3>. QED
      BY <3>5, <3>6 DEF ContextInv
  <2>3. CASE InitWithoutBuffer(e)
    BY <2>3, ContextsReleased DEF InitWithoutBuffer
  <2>4. CASE InitWithEgl(e)
    <3>1. PICK stop \in (Stops \ {NewBuffer}) \cup {AllDone}, ctx \in Ctx \ made,
               linked \in BOOLEAN :
            /\ EglCalls(e, stop, ctx)
            /\ sdk' = [sdk EXCEPT ![e] = SdkAfter(@, stop, linked)]
            /\ UNCHANGED <<user, shown, bound, target>>
      BY <2>4 DEF InitWithEgl
    <3>2. stop \in Int
      BY StopsAssumption DEF NewBuffer, AttachShader, AllDone
    <3>3. /\ sdk'[e].life = "live"
          /\ sdk'[e].ret = IF stop = AllDone THEN "ok" ELSE "error"
      BY <2>1, <3>1, <3>2, CoreKept
    <3>. QED
      BY <2>1, <3>1, <3>2, <3>3, ContextsCalled
  <2>. QED
    BY <1>11, <2>2, <2>3, <2>4 DEF InitSdkEnv
<1>12. ASSUME NEW e \in Env, NewDefaultSdkEnv(e) PROVE ContextInv'
  <2>1. sdk[e].life = "none" /\ sdk[e].ret = "none" /\ user' = user
    BY <1>12 DEF NewDefaultSdkEnv, ContextInv, UnusedIsFresh
  <2>2. ASSUME NEW ctx \in Ctx \ made, EglCalls(e, AllDone, ctx),
               sdk' = [sdk EXCEPT ![e] =
                          [BlankSdk EXCEPT !.life = "live", !.type = "off",
                             !.status = TRUE, !.ret = "ok", !.linked = TRUE,
                             !.cmd = "empty"]]
        PROVE  ContextInv'
    <3>1. AllDone \in Int /\ sdk'[e].life = "live" /\ sdk'[e].ret = "ok"
      BY <2>2, CoreStarts DEF AllDone
    <3>. QED
      BY <2>1, <2>2, <3>1, ContextsCalled
  <2>3. CASE /\ current' \in {current, [current EXCEPT ![ThreadOf[e]] = NoCtx]}
             /\ sdk' = [sdk EXCEPT ![e].life = "freed"]
             /\ UNCHANGED <<egl, refs, made>>
    <3>1. sdk'[e].ret = "none" /\ sdk'[e].status = sdk[e].status
      BY <2>1, <2>3, CoreKept
    <3>2. \A f \in Env \ {e} : sdk'[f] = sdk[f]
      BY <2>3
    <3>3. UnusedIsFresh' /\ FreshIsBlank' /\ ReadyHasContext'
      BY <2>1, <2>3, <3>1, <3>2 DEF ContextInv, UnusedIsFresh, FreshIsBlank, ReadyHasContext
    <3>4. ContextsAreMade' /\ ContextsDiffer'
      BY <2>3 DEF ContextInv, ContextsAreMade, ContextsDiffer
    <3>5. \A t \in Thread : current'[t] # NoCtx => current'[t] = current[t]
      BY <2>3
    <3>6. CurrentIsUsed'
      BY <2>3, <3>5 DEF ContextInv, CurrentIsUsed
    <3>. QED
      BY <3>3, <3>4, <3>6 DEF ContextInv
  <2>. QED
    BY <1>12, <2>2, <2>3 DEF NewDefaultSdkEnv
<1>13. ASSUME NEW e \in Env, NEW cmd \in Commands, SetEffectCmd(e, cmd)
       PROVE ContextInv'
  <2>1. UNCHANGED <<current, made>> /\ sdk[e].ret = "ok"
    BY <1>13 DEF SetEffectCmd, Ready
  <2>2. CASE UNCHANGED <<sdk, egl, user>>
    BY <2>1, <2>2, ContextsQuiet DEF ContextInv, UnusedIsFresh
  <2>3. CASE EffectLoadsImage(e)
    <3>1. /\ egl' = [egl EXCEPT ![e].view = ViewAfterLoad(e)]
          /\ sdk' = [sdk EXCEPT ![e].cmd = "text"]
          /\ \A f \in Env \ {e} : user'[f] = user[f]
      BY <2>3 DEF EffectLoadsImage
    <3>. QED
      BY <2>1, <3>1, CoreKept, ViewUpdate, ContextsQuiet DEF ContextInv, UnusedIsFresh
  <2>. QED
    BY <1>13, <2>2, <2>3 DEF SetEffectCmd, EffectWithoutImage,
         EffectReusesImage, EffectFailsToLoad, EffectLosesProcess
<1>. QED
  BY <1>1, <1>2, <1>3, <1>4, <1>5, <1>6, <1>7, <1>8, <1>9, <1>10, <1>11, <1>12,
     <1>13 DEF StepOnce, CallOnce, Editing

LEMMA ContextStep ==
    ASSUME Reinit = FALSE, TypeOK, ContextInv, [Next]_vars
    PROVE  ContextInv'
<1>1. \A e \in Env : InitSdkEnv(e) => sdk[e].ret = "none"
  BY DEF InitSdkEnv
<1>2. StepOnce
  BY <1>1 DEF StepOnce, CallOnce, Next, Lifecycle
<1>. QED
  BY <1>2, ContextStepOnce

(* CurrentIsHeld: the context that is current in a thread belongs to a live *)
(* instance of that thread; freeSdkEnv and an initialisation that stops at *)
(* any step leave no destroyed context current.                            *)
THEOREM CurrentAlwaysHeld == Reinit = FALSE /\ Spec => []CurrentIsHeld
<1> SUFFICES ASSUME Reinit = FALSE PROVE Spec => []CurrentIsHeld
  OBVIOUS
<1>1. Init => InputInv /\ ContextInv
  BY InputInit, ContextInit
<1>2. InputInv /\ ContextInv /\ [Next]_vars => (InputInv /\ ContextInv)'
  BY InputStep, ContextStep DEF InputInv
<1>3. InputInv /\ ContextInv => CurrentIsHeld
  BY DEF InputInv, ContextInv, CurrentIsUsed, CurrentIsHeld, UnusedIsFresh,
     FreshIsBlank, BlankEgl
<1>. QED
  BY <1>1, <1>2, <1>3, PTL DEF Spec

-----------------------------------------------------------------------------
(* The instances whose initialisation got as far as the display.           *)
Displayed == {e \in Env : egl[e].display}

(* EGL's count of the display is the number of those instances.            *)
CountInv == refs = Cardinality(Displayed)

(* A step leaves the count and the set alone, adds one, or removes one; when *)
(* eglInitialize cannot fail, an instance with a display has counted.      *)
LEMMA DisplaySteps ==
    ASSUME Reinit = FALSE, TypeOK, ContextInv, [Next]_vars, Initialize \notin Stops
    PROVE  \/ refs' = refs /\ Displayed' = Displayed
           \/ \E e \in Env \ Displayed : refs' = refs + 1 /\ Displayed' = Displayed \cup {e}
           \/ \E e \in Displayed :
                 /\ refs' = IF refs > 0 THEN refs - 1 ELSE refs
                 /\ Displayed' = Displayed \ {e}
<1> DEFINE Goal ==
           \/ refs' = refs /\ Displayed' = Displayed
           \/ \E e \in Env \ Displayed : refs' = refs + 1 /\ Displayed' = Displayed \cup {e}
           \/ \E e \in Displayed :
                 /\ refs' = IF refs > 0 THEN refs - 1 ELSE refs
                 /\ Displayed' = Displayed \ {e}
<1>1. ASSUME NEW e \in Env, NEW life \in {"freed", "dangling"}, ReleaseSdkEnv(e, life)
      PROVE  Goal
  <2>1. egl' = [egl EXCEPT ![e] = BlankEgl] /\ BlankEgl.display = FALSE
    BY <1>1 DEF ReleaseSdkEnv, BlankEgl
  <2>2. Displayed' = Displayed \ {e}
    BY <2>1 DEF Displayed, TypeOK
  <2>3. refs' = IF egl[e].display /\ refs > 0 THEN refs - 1 ELSE refs
    BY <1>1 DEF ReleaseSdkEnv, RefsAfterFree
  <2>4. CASE egl[e].display
    BY <2>2, <2>3, <2>4 DEF Displayed
  <2>5. CASE ~egl[e].display
    BY <2>2, <2>3, <2>5 DEF Displayed
  <2>. QED
    BY <2>4, <2>5
<1>2. ASSUME NEW e \in Env, sdk[e].ret = "none", NEW stop \in Stops \cup {AllDone},
             stop # NewBuffer, NEW ctx, EglCalls(e, stop, ctx)
      PROVE  Goal
  <2>1. stop \in Int /\ (Initialize < stop <=> GetDisplay < stop)
    <3>1. stop \in 0 .. 10
      BY StopsAssumption DEF NewBuffer, AttachShader, AllDone
    <3>2. stop # 2
      BY DEF Initialize, AllDone
    <3>. QED
      BY <3>1, <3>2 DEF Initialize, GetDisplay
  <2>2. ~egl[e].display
    BY <1>2 DEF ContextInv, FreshIsBlank, BlankEgl
  <2>3. egl' = [egl EXCEPT ![e] = EglAfter(@, stop, ctx)]
    BY <1>2 DEF EglCalls
  <2>4. EglAfter(egl[e], stop, ctx).display = (GetDisplay < stop)
    BY DEF EglAfter
  <2>5. refs' = IF Initialize < stop THEN refs + 1 ELSE refs
    BY <1>2 DEF EglCalls
  <2>6. CASE GetDisplay < stop
    <3>1. EglAfter(egl[e], stop, ctx).display
      BY <2>4, <2>6, Zenon
    <3>. QED
      BY <2>1, <2>2, <2>3, <2>5, <2>6, <3>1 DEF Displayed, TypeOK
  <2>7. CASE ~(GetDisplay < stop)
    <3>1. ~EglAfter(egl[e], stop, ctx).display
      BY <2>4, <2>7, Zenon
    <3>. QED
      BY <2>1, <2>2, <2>3, <2>5, <2>7, <3>1 DEF Displayed, TypeOK
  <2>. QED
    BY <2>6, <2>7
<1>3. ASSUME refs' = refs, \A e \in Env : egl'[e].display = egl[e].display PROVE Goal
  BY <1>3 DEF Displayed
<1>4. ASSUME NEW e \in Env, InitSdkEnv(e) PROVE Goal
  <2>1. sdk[e].ret = "none"
    BY <1>4 DEF InitSdkEnv
  <2>2. CASE InitRefused(e)
    BY <2>2, <1>3 DEF InitRefused, glVars
  <2>3. CASE InitWithoutBuffer(e)
    BY <2>3, <1>1 DEF InitWithoutBuffer
  <2>4. CASE InitWithEgl(e)
    <3>1. PICK stop \in (Stops \ {NewBuffer}) \cup {AllDone}, ctx \in Ctx \ made :
             EglCalls(e, stop, ctx)
      BY <2>4 DEF InitWithEgl
    <3>2. stop \in Stops \cup {AllDone} /\ stop # NewBuffer
      BY DEF NewBuffer, AllDone
    <3>. QED
      BY <2>1, <3>1, <3>2, <1>2
  <2>. QED
    BY <1>4, <2>2, <2>3, <2>4 DEF InitSdkEnv
<1>5. ASSUME NEW e \in Env, NewDefaultSdkEnv(e) PROVE Goal
  <2>1. sdk[e].ret = "none"
    BY <1>5 DEF NewDefaultSdkEnv, ContextInv, UnusedIsFresh
  <2>2. ASSUME NEW ctx \in Ctx \ made, EglCalls(e, AllDone, ctx) PROVE Goal
    <3>1. AllDone \in Stops \cup {AllDone} /\ AllDone # NewBuffer
      BY DEF AllDone, NewBuffer
    <3>. QED
      BY <2>1, <2>2, <3>1, <1>2
  <2>3. CASE UNCHANGED <<egl, refs>>
    BY <2>3, <1>3
  <2>. QED
    BY <1>5, <2>2, <2>3 DEF NewDefaultSdkEnv
<1>6. ASSUME NEW e \in Env, FreeSdkEnv(e) PROVE Goal
  <2>1. CASE ReleaseSdkEnv(e, "freed")
    BY <2>1, <1>1
  <2>2. CASE UNCHANGED <<egl, glVars>>
    BY <2>2, <1>3 DEF glVars
  <2>. QED
    BY <1>6, <2>1, <2>2 DEF FreeSdkEnv
<1>7. ASSUME NEW e \in Env, NEW cmd \in Commands, SetEffectCmd(e, cmd) PROVE Goal
  <2>1. refs' = refs
    BY <1>7 DEF SetEffectCmd
  <2>2. CASE egl' = egl
    BY <2>1, <2>2, <1>3
  <2>3. CASE EffectLoadsImage(e)
    <3>1. egl' = [egl EXCEPT ![e].view = ViewAfterLoad(e)]
      BY <2>3 DEF EffectLoadsImage
    <3>. QED
      BY <2>1, <3>1, <1>3, ViewUpdate DEF TypeOK
  <2>. QED
    BY <1>7, <2>2, <2>3 DEF SetEffectCmd, EffectWithoutImage,
         EffectReusesImage, EffectFailsToLoad, EffectLosesProcess
<1>8. ASSUME UNCHANGED <<egl, refs>> PROVE Goal
  BY <1>8, <1>3
<1>9. CASE UNCHANGED vars
  BY <1>8, <1>9 DEF vars
<1>. QED
  BY <1>4, <1>5, <1>6, <1>7, <1>8, <1>9 DEF Next, Lifecycle, Editing, glVars,
     NewBlankSdkEnv, SetEglNativeWindow, SetPlatformData, SdkMain,
     SetInputImagePath, SetOutputImagePath, OnSdkDraw, SwapEglBuffers

(* So the count stays the number of instances.                             *)
LEMMA CountStep ==
    ASSUME Reinit = FALSE, TypeOK, ContextInv, [Next]_vars, Initialize \notin Stops,
           IsFiniteSet(Env), CountInv
    PROVE  CountInv'
<1>1. IsFiniteSet(Displayed)
  BY FS_Subset DEF Displayed
<1>2. Cardinality(Displayed) \in Nat
  BY <1>1, FS_CardinalityType
<1>3. ASSUME NEW e \in Env \ Displayed PROVE Cardinality(Displayed \cup {e}) = refs + 1
  BY <1>1, <1>3, FS_AddElement DEF CountInv
<1>4. ASSUME NEW e \in Displayed PROVE Cardinality(Displayed \ {e}) = refs - 1 /\ refs > 0
  <2>1. Cardinality(Displayed \ {e}) = refs - 1
    BY <1>1, <1>4, FS_RemoveElement DEF CountInv
  <2>2. Cardinality(Displayed \ {e}) \in Nat
    BY <1>1, FS_Subset, FS_CardinalityType
  <2>. QED
    BY <2>1, <2>2 DEF TypeOK
<1>. QED
  BY <1>3, <1>4, DisplaySteps DEF CountInv

(* DisplayCounted: for finitely many instances, eglTerminate never takes the *)
(* display from an instance in use.  The hypothesis on Stops is needed: an *)
(* instance whose eglInitialize failed is freed with an eglTerminate all the *)
(* same, and takes the count of another one.                               *)
THEOREM DisplayAlwaysCounted ==
    Reinit = FALSE /\ Initialize \notin Stops /\ IsFiniteSet(Env) /\ Spec
       => []DisplayCounted
<1> SUFFICES ASSUME Reinit = FALSE, Initialize \notin Stops, IsFiniteSet(Env)
             PROVE  Spec => []DisplayCounted
  OBVIOUS
<1> DEFINE Inv == InputInv /\ ContextInv /\ CountInv
<1>1. Init => Inv
  <2>1. Init => Displayed = {} /\ refs = 0
    BY DEF Init, Displayed, BlankEgl
  <2>. QED
    BY <2>1, FS_EmptySet, InputInit, ContextInit DEF CountInv
<1>2. Inv /\ [Next]_vars => Inv'
  BY InputStep, ContextStep, CountStep DEF InputInv
<1>3. Inv => DisplayCounted
  <2> SUFFICES ASSUME Inv PROVE DisplayCounted
    OBVIOUS
  <2>1. {e \in Env : Ready(e)} \subseteq Displayed
    BY DEF Displayed, Ready, ContextInv, ReadyHasContext, ContextsAreMade
  <2>2. IsFiniteSet(Displayed)
    BY FS_Subset DEF Displayed
  <2>. QED
    BY <2>1, <2>2, FS_Subset DEF CountInv, DisplayCounted
<1>. QED
  BY <1>1, <1>2, <1>3, PTL DEF Spec
=============================================================================
