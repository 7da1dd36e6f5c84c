------------------------ MODULE SdkEnvSessionProofs ------------------------
(***************************************************************************)
(* Proofs about SdkEnv when every instance has a thread of its own and is  *)
(* initialised once.  First the textures and what is drawn from them; then *)
(* that SdkEnv implements EditSession, with one lemma for each kind of     *)
(* step, about the session of the instance that moves and the frame of the *)
(* others.                                                                 *)
(***************************************************************************)
EXTENDS SdkEnvContextProofs, SdkEnvSession

(* The inductive invariant.  An instance in use works in its own context,  *)
(* texture1 of that context holds the image in memory (none before the first *)
(* load), an off-screen viewport is the image's, a framebuffer object is   *)
(* bound in no context with a window, and a context not yet made is empty. *)
OwnContext ==
    \A e \in Env : sdk[e].ret = "ok" => current[ThreadOf[e]] = egl[e].context

OwnPicture ==
    \A e \in Env : sdk[e].ret = "ok" => shown[egl[e].context] = user[e].param

OwnView ==
    \A e \in Env :
       sdk[e].ret = "ok" /\ sdk[e].type = "off" /\ user[e].active = "param" =>
          egl[e].view = user[e].input

OnScreenUnbound ==
    \A e \in Env :
       sdk[e].ret = "ok" /\ sdk[e].type = "on" => egl[e].context \notin bound

UnmadeUntouched ==
    \A ctx \in Ctx \ made :
       shown[ctx] = NoImage /\ target[ctx] = NoImage /\ ctx \notin bound

OwnInv ==
    /\ OwnContext
    /\ OwnPicture
    /\ OwnView
    /\ OnScreenUnbound
    /\ UnmadeUntouched

LEMMA OwnInit == Init => OwnInv
  BY DEF Init, OwnInv, OwnContext, OwnPicture, OwnView, OnScreenUnbound,
     UnmadeUntouched, BlankSdk

(* Steps that touch no texture, and after which an instance is in use only *)
(* if it was before, in the same context and with the same user data.      *)
LEMMA OwnQuiet ==
    ASSUME TypeOK, OwnInv,
           \A e \in Env :
              sdk'[e].ret = "ok" =>
                 /\ sdk[e].ret = "ok"
                 /\ sdk'[e].type = sdk[e].type
                 /\ egl'[e] = egl[e]
                 /\ user'[e].param = user[e].param
                 /\ user'[e].active = "param" => user'[e] = user[e]
                 /\ current'[ThreadOf[e]] = current[ThreadOf[e]],
           made' = made, bound' = bound, shown' = shown, target' = target
    PROVE  OwnInv'
  BY DEF OwnInv, OwnContext, OwnPicture, OwnView, OnScreenUnbound, UnmadeUntouched

(* Freeing an instance leaves those of the other threads alone.            *)
LEMMA OwnReleased ==
    ASSUME OneThreadEach, TypeOK, ContextInv, OwnInv, NEW e \in Env,
           NEW life \in {"freed", "dangling"}, ReleaseSdkEnv(e, life)
    PROVE  OwnInv'
<1>1. sdk'[e].ret = "none"
  BY CoreStarts DEF ReleaseSdkEnv, TypeOK, Core
<1>2. \A f \in Env \ {e} : sdk'[f] = sdk[f] /\ egl'[f] = egl[f] /\ user'[f] = user[f]
  BY DEF ReleaseSdkEnv, TypeOK
<1>3. UNCHANGED <<made, bound, shown, target>>
  BY DEF ReleaseSdkEnv
<1>4. \A f \in Env \ {e} : current'[ThreadOf[f]] = current[ThreadOf[f]]
  BY DEF ReleaseSdkEnv, CurrentAfterFree, TypeOK, OneThreadEach
<1>. QED
  BY <1>1, <1>2, <1>3, <1>4, OwnQuiet

(* So does an initialisation, which makes a context nobody has used.       *)
LEMMA OwnCalled ==
    ASSUME OneThreadEach, TypeOK, ContextInv, OwnInv, NEW e \in Env,
           sdk[e].ret = "none", NEW stop \in Int, NEW ctx \in Ctx \ made,
           EglCalls(e, stop, ctx),
           \A f \in Env \ {e} : sdk'[f] = sdk[f],
           sdk'[e].ret = "ok" => stop = AllDone,
           user' = user, UNCHANGED <<bound, shown, target>>
    PROVE  OwnInv'
<1>1. \A f \in Env \ {e} :
         egl'[f] = egl[f] /\ current'[ThreadOf[f]] = current[ThreadOf[f]]
  BY DEF EglCalls, CurrentAfterInit, TypeOK, OneThreadEach
<1>2. made \subseteq made'
  BY DEF EglCalls
<1>3. stop = AllDone => egl'[e].context = ctx /\ current'[ThreadOf[e]] = ctx
  <2>1. CreateContext < AllDone /\ MakeCurrent < AllDone
    BY DEF AllDone, CreateContext, MakeCurrent
  <2>2. CreateContext < stop => EglAfter(egl[e], stop, ctx).context = ctx
    BY DEF EglAfter
  <2>3. egl'[e] = EglAfter(egl[e], stop, ctx)
    BY DEF EglCalls, TypeOK
  <2>4. MakeCurrent < stop => current'[ThreadOf[e]] = ctx
    <3>1. MakeCurrent < stop => current' = [current EXCEPT ![ThreadOf[e]] = ctx]
      BY DEF EglCalls, CurrentAfterInit
    <3>2. ThreadOf[e] \in DOMAIN current
      BY ThreadOfAssumption DEF TypeOK
    <3>. QED
      BY <3>1, <3>2
  <2>. QED
    BY <2>1, <2>2, <2>3, <2>4
<1>4. user[e].param = NoImage /\ user[e].active = "none"
  BY DEF ContextInv, FreshIsBlank, BlankUser
<1>5. OwnContext'
  BY <1>1, <1>3 DEF OwnInv, OwnContext
<1>6. OwnPicture'
  BY <1>1, <1>3, <1>4 DEF OwnInv, OwnPicture, UnmadeUntouched
<1>7. OwnView'
  BY <1>1, <1>4 DEF OwnInv, OwnView
<1>8. OnScreenUnbound'
  BY <1>1, <1>3 DEF OwnInv, OnScreenUnbound, UnmadeUntouched
<1>9. UnmadeUntouched'
  BY <1>2 DEF OwnInv, UnmadeUntouched
<1>. QED
  BY <1>5, <1>6, <1>7, <1>8, <1>9 DEF OwnInv

(* An instance in use works in its own context, which nobody else has.     *)
LEMMA OwnCtx ==
    ASSUME TypeOK, ContextInv, OwnInv, NEW e \in Env, sdk[e].ret = "ok"
    PROVE  /\ CurrentOf(e) = egl[e].context
           /\ egl[e].context \in Ctx /\ egl[e].context \in made
           /\ \A f \in Env \ {e} : egl[f].context # egl[e].context
           /\ OffScreenCtx(egl[e].context) <=> sdk[e].type = "off"
<1>1. CurrentOf(e) = egl[e].context
  BY DEF OwnInv, OwnContext, CurrentOf
<1>2. egl[e].context \in made /\ egl[e].context \in Ctx
  BY DEF TypeOK, ContextInv, ReadyHasContext, ContextsAreMade
<1>3. \A f \in Env \ {e} : egl[f].context # egl[e].context
  BY DEF ContextInv, ReadyHasContext, ContextsDiffer
<1>. QED
  BY <1>1, <1>2, <1>3 DEF OffScreenCtx

(* Every call of imgsdk.h preserves the invariant.                         *)
LEMMA OwnStep ==
    ASSUME OneThreadEach, Reinit = FALSE, TypeOK, ContextInv, OwnInv, [Next]_vars
    PROVE  OwnInv'
<1> USE DEF TypeOK, Core
<1>1. ASSUME NEW e \in Env, NewBlankSdkEnv(e) PROVE OwnInv'
  <2>1. sdk'[e].ret = sdk[e].ret /\ sdk'[e].type = sdk[e].type
    BY <1>1, CoreKept DEF NewBlankSdkEnv
  <2>2. \A f \in Env \ {e} : sdk'[f] = sdk[f]
    BY <1>1 DEF NewBlankSdkEnv
  <2>. QED
    BY <1>1, <2>1, <2>2, OwnQuiet DEF NewBlankSdkEnv, glVars
<1>2. ASSUME NEW e \in Env, SetEglNativeWindow(e) PROVE OwnInv'
  BY <1>2, CoreKept, OwnQuiet DEF SetEglNativeWindow, glVars
<1>3. ASSUME NEW e \in Env, SetPlatformData(e) PROVE OwnInv'
  BY <1>3, CoreKept, OwnQuiet DEF SetPlatformData, glVars
<1>4. ASSUME NEW e \in Env, SdkMain(e) PROVE OwnInv'
  BY <1>4, CoreKept, OwnQuiet DEF SdkMain, glVars
<1>5. ASSUME NEW e \in Env, NEW path \in Path, SetInputImagePath(e, path)
       PROVE OwnInv'
  <2>1. WithInput(user[e], path).param = user[e].param /\ WithInput(user[e], path).active = "path"
    BY DEF WithInput, UserRecord
  <2>. QED
    BY <1>5, <2>1, OwnQuiet DEF SetInputImagePath, glVars
<1>6. ASSUME NEW e \in Env, NEW path \in Outputs, SetOutputImagePath(e, path)
       PROVE OwnInv'
  <2>1. \A f \in Env : /\ user'[f].param = user[f].param
                       /\ user'[f].active = user[f].active
                       /\ user'[f].input = user[f].input
    BY <1>6 DEF SetOutputImagePath, UserRecord
  <2>2. UNCHANGED <<sdk, egl, current, made, bound, shown, target>>
    BY <1>6 DEF SetOutputImagePath, glVars
  <2>. QED
    BY <2>1, <2>2 DEF OwnInv, OwnContext, OwnPicture, OwnView, OnScreenUnbound, UnmadeUntouched
<1>7. ASSUME NEW e \in Env, OnSdkDraw(e) PROVE OwnInv'
  <2>1. sdk[e].ret = "ok" /\ UNCHANGED <<sdk, egl, user, current, made, shown>>
    BY <1>7 DEF OnSdkDraw, Ready
  <2>2. \A ctx \in Ctx \ {egl[e].context} : target'[ctx] = target[ctx]
    BY <1>7, <2>1, OwnCtx DEF OnSdkDraw
  <2>3. /\ bound' \subseteq bound \cup {egl[e].context}
        /\ sdk[e].type = "on" => bound' = bound
    BY <1>7, <2>1, OwnCtx DEF OnSdkDraw
  <2>4. OnScreenUnbound'
    BY <2>1, <2>3, OwnCtx DEF OwnInv, OnScreenUnbound
  <2>5. UnmadeUntouched'
    BY <2>1, <2>2, <2>3, OwnCtx DEF OwnInv, UnmadeUntouched
  <2>. QED
    BY <2>1, <2>4, <2>5 DEF OwnInv, OwnContext, OwnPicture, OwnView
<1>8. ASSUME NEW e \in Env, SwapEglBuffers(e) PROVE OwnInv'
  <2>1. \A ctx \in Ctx : target[ctx] = NoImage => target'[ctx] = NoImage
    BY <1>8 DEF SwapEglBuffers
  <2>. QED
    BY <1>8, <2>1 DEF SwapEglBuffers, OwnInv, OwnContext, OwnPicture, OwnView,
       OnScreenUnbound, UnmadeUntouched
<1>9. CASE UNCHANGED vars
  BY <1>9, OwnQuiet DEF vars
<1>10. ASSUME NEW e \in Env, FreeSdkEnv(e) PROVE OwnInv'
  <2>1. CASE ReleaseSdkEnv(e, "freed")
    BY <2>1, OwnReleased
  <2>2. CASE /\ sdk[e].life = "dangling"
             /\ sdk' = [sdk EXCEPT ![e].life = "freed"]
             /\ UNCHANGED <<egl, user, effect, glVars>>
    BY <2>2, CoreKept, OwnQuiet DEF glVars
  <2>. QED
    BY <1>10, <2>1, <2>2 DEF FreeSdkEnv
<1>11. ASSUME NEW e \in Env, InitSdkEnv(e) PROVE OwnInv'
  <2>1. sdk[e].ret = "none"
    BY <1>11 DEF InitSdkEnv
  <2>2. CASE InitRefused(e)
    <3>1. sdk' = [sdk EXCEPT ![e].ret = "error"]
      BY <2>1, <2>2 DEF InitRefused, ContextInv, FreshIsBlank
    <3>2. sdk'[e].ret = "error" /\ \A f \in Env \ {e} : sdk'[f] = sdk[f]
      BY <3>1, CoreKept
    <3>. QED
      BY <2>2, <3>2, OwnQuiet DEF InitRefused, glVars
  <2>3. CASE InitWithoutBuffer(e)
    BY <2>3, OwnReleased DEF InitWithoutBuffer
  <2>4. CASE InitWithEgl(e)
    <3>1. PICK stop \in (Stops \ {NewBuffer}) \cup {AllDone}, ctx \in Ctx \ made,
               linked \in BOOLEAN :
            /\ EglCalls(e, stop, ctx)
            /\ sdk' = [sdk EXCEPT ![e] = SdkAfter(@, stop, linked)]
            /\ UNCHANGED <<user, shown, bound, target>>
      BY <2>4 DEF InitWithEgl
    <3>2. stop \in Int
      BY StopsAssumption DEF NewBuffer, AttachShader, AllDone
    <3>3. sdk'[e].ret = IF stop = AllDone THEN "ok" ELSE "error"
      BY <2>1, <3>1, <3>2, CoreKept
    <3>. QED
      BY <2>1, <3>1, <3>2, <3>3, OwnCalled
  <2>. QED
    BY <1>11, <2>2, <2>3, <2>4 DEF InitSdkEnv
<1>12. ASSUME NEW e \in Env, NewDefaultSdkEnv(e) PROVE OwnInv'
  <2>1. sdk[e].life = "none" /\ sdk[e].ret = "none" /\ UNCHANGED <<user, shown, bound, target>>
    BY <1>12 DEF NewDefaultSdkEnv, ContextInv, UnusedIsFresh
  <2>2. ASSUME NEW ctx \in Ctx \ made, EglCalls(e, AllDone, ctx),
               \A f \in Env \ {e} : sdk'[f] = sdk[f]
        PROVE  OwnInv'
    <3>1. AllDone \in Int
      BY DEF AllDone
    <3>. QED
      BY <2>1, <2>2, <3>1, OwnCalled
  <2>3. CASE /\ current' \in {current, [current EXCEPT ![ThreadOf[e]] = NoCtx]}
             /\ sdk' = [sdk EXCEPT ![e].life = "freed"]
             /\ UNCHANGED <<egl, refs, made>>
    <3>1. sdk'[e].ret = "none" /\ \A f \in Env \ {e} : sdk'[f] = sdk[f]
      BY <2>1, <2>3, CoreKept
    <3>2. \A f \in Env \ {e} : ThreadOf[f] # ThreadOf[e]
      BY DEF OneThreadEach
    <3>3. \A f \in Env \ {e} : current'[ThreadOf[f]] = current[ThreadOf[f]]
      <4> SUFFICES ASSUME NEW f \in Env \ {e}
                   PROVE  current'[ThreadOf[f]] = current[ThreadOf[f]]
        OBVIOUS
      <4>1. CASE current' = current
        BY <4>1
      <4>2. CASE current' = [current EXCEPT ![ThreadOf[e]] = NoCtx]
        BY <3>2, <4>2
      <4>. QED
        BY <2>3, <4>1, <4>2
    <3>. QED
      BY <2>1, <2>3, <3>1, <3>3, OwnQuiet
  <2>. QED
    BY <1>12, <2>2, <2>3 DEF NewDefaultSdkEnv
<1>13. ASSUME NEW e \in Env, NEW cmd \in Commands, SetEffectCmd(e, cmd)
       PROVE OwnInv'
  <2>1. UNCHANGED <<current, made, bound>> /\ sdk[e].ret = "ok"
    BY <1>13 DEF SetEffectCmd, Ready
  <2>2. CASE UNCHANGED <<sdk, egl, user, shown, target>>
    BY <2>1, <2>2, OwnQuiet
  <2>3. CASE EffectLoadsImage(e)
    <3>1. PICK picture \in Decoded(user[e].input) :
            /\ user' = [user EXCEPT ![e] =
                          [@ EXCEPT !.param = picture, !.active = "param"]]
            /\ Upload(e, picture)
      BY <2>3 DEF EffectLoadsImage
    <3>2. /\ egl' = [egl EXCEPT ![e].view = ViewAfterLoad(e)]
          /\ sdk' = [sdk EXCEPT ![e].cmd = "text"]
      BY <2>3 DEF EffectLoadsImage
    <3>3. /\ \A f \in Env : sdk'[f].ret = sdk[f].ret /\ sdk'[f].type = sdk[f].type
          /\ \A f \in Env : egl'[f].context = egl[f].context
          /\ \A f \in Env \ {e} : egl'[f].view = egl[f].view /\ user'[f] = user[f]
      BY <3>1, <3>2, CoreKept, ViewUpdate
    <3>4. /\ user'[e].param = picture
          /\ user'[e].input = user[e].input
      BY <3>1 DEF UserRecord
    <3>5. sdk[e].type = "off" => egl'[e].view = user[e].input
      BY <3>2, ViewUpdate DEF ViewAfterLoad
    <3>6. /\ shown' = [shown EXCEPT ![egl[e].context] = picture]
          /\ \A ctx \in Ctx : target'[ctx] \in {target[ctx], NoImage}
      BY <2>1, <3>1, OwnCtx, NoCtxAssumption DEF Upload
    <3>7. OwnContext' /\ OnScreenUnbound'
      BY <2>1, <3>3 DEF OwnInv, OwnContext, OnScreenUnbound
    <3>8. OwnPicture'
      <4> SUFFICES ASSUME NEW f \in Env, sdk[f].ret = "ok"
                   PROVE  shown'[egl[f].context] = user'[f].param
        BY <3>3 DEF OwnPicture
      <4>. QED
        BY <2>1, <3>3, <3>4, <3>6, OwnCtx DEF OwnInv, OwnPicture
    <3>9. OwnView'
      BY <3>3, <3>4, <3>5 DEF OwnInv, OwnView
    <3>10. UnmadeUntouched'
      BY <2>1, <3>6, OwnCtx DEF OwnInv, UnmadeUntouched
    <3>. QED
      BY <3>7, <3>8, <3>9, <3>10 DEF OwnInv
  <2>. QED
    BY <1>13, <2>2, <2>3 DEF SetEffectCmd, EffectWithoutImage,
         EffectReusesImage, EffectFailsToLoad, EffectLosesProcess
<1>. QED
  BY <1>1, <1>2, <1>3, <1>4, <1>5, <1>6, <1>7, <1>8, <1>9, <1>10, <1>11, <1>12,
     <1>13 DEF Next, Lifecycle, Editing

-----------------------------------------------------------------------------
(* The invariants of the three modules together.                           *)
SafeInv == InputInv /\ ContextInv /\ OwnInv

LEMMA SafeStep ==
    ASSUME OneThreadEach, Reinit = FALSE
    PROVE  /\ Init => SafeInv
           /\ SafeInv /\ [Next]_vars => SafeInv'
<1>1. Init => SafeInv
  BY InputInit, ContextInit, OwnInit DEF SafeInv
<1>2. ASSUME SafeInv, [Next]_vars PROVE SafeInv'
  <2>1. TypeOK
    BY <1>2 DEF SafeInv, InputInv
  <2>2. InputInv'
    BY <1>2, InputStep DEF SafeInv
  <2>3. ContextInv'
    BY <1>2, <2>1, ContextStep DEF SafeInv
  <2>4. OwnInv'
    BY <1>2, <2>1, OwnStep DEF SafeInv
  <2>. QED
    BY <2>2, <2>3, <2>4 DEF SafeInv
<1>. QED
  BY <1>1, <1>2

(* The textures, contexts and inputs of all instances agree at all times:  *)
(* the invariant the theorems below and the refinement follow from.        *)
THEOREM SafeAlways == OneThreadEach /\ Reinit = FALSE /\ Spec => []SafeInv
<1> SUFFICES ASSUME OneThreadEach, Reinit = FALSE PROVE Spec => []SafeInv
  OBVIOUS
<1>. QED
  BY SafeStep, PTL DEF Spec

(* WorksInOwnContext: after a successful initialisation the context that is *)
(* current in the thread of an instance is its own until it is freed.      *)
THEOREM AlwaysInOwnContext ==
    OneThreadEach /\ Reinit = FALSE /\ Spec => []WorksInOwnContext
<1>1. SafeInv => WorksInOwnContext
  <2> SUFFICES ASSUME SafeInv, NEW e \in Env, Ready(e)
               PROVE  egl[e].context # NoCtx /\ CurrentOf(e) = egl[e].context
    BY DEF WorksInOwnContext
  <2>. QED
    BY OwnCtx, NoCtxAssumption DEF SafeInv, InputInv, Ready
<1>. QED
  BY <1>1, SafeAlways, PTL

(* PictureUploaded: when setEffectCmd reuses the image in memory, texture1 *)
(* of the instance holds it (imgsdk.c:1338), so no upload is missing.      *)
THEOREM AlwaysUploaded ==
    OneThreadEach /\ Reinit = FALSE /\ Spec => []PictureUploaded
<1>1. SafeInv => PictureUploaded
  BY DEF SafeInv, OwnInv, OwnPicture, PictureUploaded, Ready
<1>. QED
  BY <1>1, SafeAlways, PTL

(* OffScreenViewport: the viewport an off-screen instance renders with has *)
(* the size of the image (imgsdk.c:1311), also after a load that failed.   *)
THEOREM ViewportAlwaysFits ==
    OneThreadEach /\ Reinit = FALSE /\ Spec => []OffScreenViewport
<1>1. SafeInv => OffScreenViewport
  BY DEF SafeInv, OwnInv, OwnView, OffScreenViewport, Ready
<1>. QED
  BY <1>1, SafeAlways, PTL

(* DrawDelivers: onRender, called at any time by any instance, delivers the *)
(* image of that instance to the instance's own window or texture2.        *)
THEOREM AlwaysDelivers ==
    OneThreadEach /\ Reinit = FALSE /\ Spec => []DrawDelivers
<1>1. SafeInv => DrawDelivers
  <2> SUFFICES ASSUME SafeInv, NEW e \in Env, Ready(e), sdk[e].linked,
                      user[e].active = "param"
               PROVE  /\ CurrentOf(e) = egl[e].context
                      /\ DrawnTo(e, egl[e].context) = user[e].param
    BY DEF DrawDelivers
  <2> DEFINE ctx == egl[e].context
  <2>1. /\ CurrentOf(e) = ctx
        /\ OffScreenCtx(ctx) <=> sdk[e].type = "off"
    BY OwnCtx DEF SafeInv, InputInv, Ready
  <2>2. shown[ctx] = user[e].param
    BY DEF SafeInv, OwnInv, OwnPicture, Ready
  <2>3. CASE sdk[e].type = "off"
    BY <2>1, <2>2, <2>3 DEF DrawnTo
  <2>4. CASE sdk[e].type # "off"
    <3>1. sdk[e].type = "on"
      BY <2>4 DEF SafeInv, InputInv, TypeOK, SdkRecord
    <3>2. ctx \notin bound
      BY <3>1 DEF SafeInv, OwnInv, OnScreenUnbound, Ready
    <3>. QED
      BY <2>1, <2>2, <2>4, <3>2 DEF DrawnTo
  <2>. QED
    BY <2>1, <2>3, <2>4
<1>. QED
  BY <1>1, SafeAlways, PTL

-----------------------------------------------------------------------------
(* Only a load changes texture1, and only in the context of its instance.  *)
LEMMA ShownSteps ==
    ASSUME SafeInv, [Next]_vars
    PROVE  \/ shown' = shown
           \/ \E f \in Env :
                 /\ sdk[f].ret = "ok"
                 /\ user'[f] # user[f]
                 /\ \A ctx \in Ctx \ {egl[f].context} : shown'[ctx] = shown[ctx]
<1> USE DEF SafeInv, InputInv
<1>1. ASSUME NEW f \in Env, NEW cmd \in Commands, SetEffectCmd(f, cmd),
             EffectLoadsImage(f)
      PROVE  /\ sdk[f].ret = "ok"
             /\ user'[f] # user[f]
             /\ \A ctx \in Ctx \ {egl[f].context} : shown'[ctx] = shown[ctx]
  <2>1. sdk[f].ret = "ok"
    BY <1>1 DEF SetEffectCmd, Ready
  <2>2. PICK picture \in Decoded(user[f].input) :
          /\ user' = [user EXCEPT ![f] =
                        [@ EXCEPT !.param = picture, !.active = "param"]]
          /\ Upload(f, picture)
    BY <1>1 DEF EffectLoadsImage
  <2>3. user'[f].active = "param" /\ user[f].active = "path"
    BY <1>1, <2>2 DEF EffectLoadsImage, TypeOK, UserRecord
  <2>4. \A ctx \in Ctx \ {egl[f].context} : shown'[ctx] = shown[ctx]
    BY <2>1, <2>2, OwnCtx DEF Upload, TypeOK
  <2>. QED
    BY <2>1, <2>3, <2>4
<1>2. ASSUME NEW f \in Env, NEW cmd \in Commands, SetEffectCmd(f, cmd),
             ~EffectLoadsImage(f)
      PROVE  shown' = shown
  BY <1>2 DEF SetEffectCmd, EffectWithoutImage, EffectReusesImage,
     EffectFailsToLoad, EffectLosesProcess
<1>3. ASSUME NEW f \in Env, Lifecycle(f) PROVE shown' = shown
  BY <1>3 DEF Lifecycle, glVars, NewBlankSdkEnv, NewDefaultSdkEnv,
     SetEglNativeWindow, SetPlatformData, InitSdkEnv, InitRefused,
     InitWithoutBuffer, InitWithEgl, SdkMain, FreeSdkEnv, ReleaseSdkEnv
<1>4. CASE UNCHANGED vars
  BY <1>4 DEF vars
<1>. QED
  BY <1>1, <1>2, <1>3, <1>4 DEF Next, Editing, glVars, SetInputImagePath,
     SetOutputImagePath, OnSdkDraw, SwapEglBuffers

(* Isolation: no call for one instance changes the texture another draws.  *)
THEOREM AlwaysIsolated ==
    OneThreadEach /\ Reinit = FALSE /\ Spec => Isolation
<1>1. SafeInv /\ [Next]_vars =>
        [\A e \in Env :
           Ready(e) /\ user'[e] = user[e]
              => shown'[egl[e].context] = shown[egl[e].context]]_vars
  <2> SUFFICES ASSUME SafeInv, [Next]_vars, NEW e \in Env, Ready(e),
                      user'[e] = user[e]
               PROVE  shown'[egl[e].context] = shown[egl[e].context]
    OBVIOUS
  <2>1. /\ egl[e].context \in Ctx
        /\ \A f \in Env \ {e} : egl[f].context # egl[e].context
    BY OwnCtx DEF SafeInv, InputInv, Ready
  <2>. QED
    BY <2>1, ShownSteps
<1>. QED
  BY <1>1, SafeAlways, PTL DEF Spec, Isolation

-----------------------------------------------------------------------------
(* The session variable of EditSession, as SdkEnv implements it.           *)
Abstract == [e \in Env |-> SessionOf(e)]

Session(phase, works, selected, loaded, screen) ==
    [phase |-> phase, works |-> works, selected |-> selected, loaded |-> loaded,
     screen |-> screen]

ClosedSession == Session("closed", FALSE, NoPath, NoImage, NoImage)

OpenSession(e) ==
    Session(PhaseOf(e), sdk[e].linked, user[e].input, user[e].param,
            target[egl[e].context])

(* A step of EditSession, or one it does not see.                          *)
SessionStep == Sessions!Next \/ (UNCHANGED Abstract /\ proc' = proc)

(* Records, for any values of their fields.                                *)
LEMMA SessionFields ==
    ASSUME NEW phase, NEW works, NEW selected, NEW loaded, NEW screen,
           NEW r, r = Session(phase, works, selected, loaded, screen), NEW new
    PROVE  /\ r.phase = phase /\ r.works = works /\ r.selected = selected
           /\ r.loaded = loaded /\ r.screen = screen
           /\ [r EXCEPT !.screen = new] = Session(phase, works, selected, loaded, new)
<1> DEFINE s == [phase |-> phase, works |-> works, selected |-> selected,
                 loaded |-> loaded, screen |-> screen]
<1>1. [s EXCEPT !.screen = new] =
        [phase |-> phase, works |-> works, selected |-> selected,
         loaded |-> loaded, screen |-> new]
  OBVIOUS
<1>2. r = s
  BY DEF Session
<1>3. /\ s.phase = phase /\ s.works = works /\ s.selected = selected
      /\ s.loaded = loaded /\ s.screen = screen
  OBVIOUS
<1>. QED
  BY <1>1, <1>2, <1>3, Zenon DEF Session

(* The session of an instance that is in use, and of one that is not.      *)
LEMMA SessionForms ==
    ASSUME NEW e \in Env
    PROVE  /\ Abstract[e] = SessionOf(e)
           /\ Ready(e) => SessionOf(e) = OpenSession(e)
           /\ ~Ready(e) => SessionOf(e) = ClosedSession
           /\ PhaseOf(e) \in {"pending", "open"}
  BY DEF Abstract, SessionOf, OpenSession, ClosedSession, Session, PhaseOf

(* A step of instance e that spares the others changes the session of e only *)
LEMMA SessionFrame ==
    ASSUME proc' = proc, NEW e \in Env,
           \A f \in Env \ {e} :
              /\ sdk'[f] = sdk[f] /\ egl'[f] = egl[f] /\ user'[f] = user[f]
              /\ Ready(f) => target'[egl[f].context] = target[egl[f].context]
    PROVE  Abstract' = [Abstract EXCEPT ![e] = SessionOf(e)']
<1>1. ASSUME NEW f \in Env \ {e} PROVE SessionOf(f)' = SessionOf(f)
  <2>1. Ready(f)' <=> Ready(f)
    BY DEF Ready, Live
  <2>2. CASE Ready(f)
    BY <2>1, <2>2 DEF SessionOf, PhaseOf
  <2>3. CASE ~Ready(f)
    BY <2>1, <2>3 DEF SessionOf
  <2>. QED
    BY <2>2, <2>3
<1>. QED
  BY <1>1 DEF Abstract

(* When the process is lost, so is every session.                          *)
LEMMA SessionLost ==
    ASSUME proc = "running", proc' # "running"
    PROVE  Sessions!Lose
<1>1. \A e \in Env : SessionOf(e)' = ClosedSession
  BY DEF SessionOf, Ready, Live, ClosedSession, Session
<1>. QED
  BY <1>1 DEF Sessions!Lose, Sessions!Closed, Sessions!Record, ClosedSession, Session

(* A step that also keeps the session of e is a stutter.                   *)
LEMMA SessionUnseen ==
    ASSUME proc' = proc, NEW e \in Env,
           \A f \in Env \ {e} :
              /\ sdk'[f] = sdk[f] /\ egl'[f] = egl[f] /\ user'[f] = user[f]
              /\ Ready(f) => target'[egl[f].context] = target[egl[f].context],
           SessionOf(e)' = SessionOf(e)
    PROVE  SessionStep
<1>1. Abstract' = [Abstract EXCEPT ![e] = SessionOf(e)]
  BY SessionFrame
<1>. QED
  BY <1>1 DEF SessionStep, Abstract

(* What SafeInv says of an instance in use.                                *)
LEMMA ReadyOwn ==
    ASSUME SafeInv, NEW e \in Env, Ready(e)
    PROVE  /\ CurrentOf(e) = egl[e].context
           /\ egl[e].context \in Ctx
           /\ OffScreenCtx(egl[e].context) <=> sdk[e].type = "off"
           /\ \A f \in Env \ {e} : Ready(f) => egl[f].context \in Ctx \ {egl[e].context}
           /\ shown[egl[e].context] = user[e].param
           /\ sdk[e].type = "on" => egl[e].context \notin bound
  BY OwnCtx DEF SafeInv, InputInv, Ready, OwnInv, OwnPicture, OnScreenUnbound

-----------------------------------------------------------------------------
(* A successful initialisation opens a session.                            *)
LEMMA OpenStep ==
    ASSUME SafeInv, NEW e \in Env, ~Ready(e), Ready(e)', proc' = proc,
           \A f \in Env \ {e} : sdk'[f] = sdk[f] /\ egl'[f] = egl[f],
           user' = user, target' = target, user[e] = BlankUser,
           egl'[e].context \in Ctx \ made, sdk'[e].linked \in BOOLEAN
    PROVE  SessionStep
<1>1. Abstract[e].phase = "closed"
  BY SessionForms DEF ClosedSession, Session
<1>2. target[egl'[e].context] = NoImage
  BY DEF SafeInv, OwnInv, UnmadeUntouched
<1>3. /\ user'[e].input = NoPath /\ user'[e].param = NoImage
      /\ user'[e].active # "path"
  BY DEF BlankUser
<1>4. SessionOf(e)' = Session("open", sdk'[e].linked, NoPath, NoImage, NoImage)
  BY <1>2, <1>3 DEF SessionOf, PhaseOf, Session
<1>5. Abstract' = [Abstract EXCEPT ![e] = SessionOf(e)']
  BY SessionFrame
<1>6. Sessions!Open(e)
  BY <1>1, <1>4, <1>5 DEF Sessions!Open, Sessions!IsOpen, Sessions!Becomes,
     Sessions!Record, Session, Abstract
<1>. QED
  BY <1>6 DEF SessionStep, Sessions!Next, Ready, Live

(* freeSdkEnv closes the session, if there is one.                         *)
LEMMA CloseStep ==
    ASSUME SafeInv, NEW e \in Env, ReleaseSdkEnv(e, "freed"), proc' = proc,
           proc = "running"
    PROVE  SessionStep
<1>1. \A f \in Env \ {e} :
         sdk'[f] = sdk[f] /\ egl'[f] = egl[f] /\ user'[f] = user[f]
  BY DEF ReleaseSdkEnv, SafeInv, InputInv, TypeOK
<1>2. ~Ready(e)'
  BY CoreStarts DEF Ready, ReleaseSdkEnv, SafeInv, InputInv, TypeOK, Core
<1>3. SessionOf(e)' = ClosedSession
  BY <1>2 DEF SessionOf, ClosedSession, Session
<1>4. Abstract' = [Abstract EXCEPT ![e] = ClosedSession]
  BY <1>1, <1>3, SessionFrame DEF ReleaseSdkEnv
<1>5. CASE Ready(e)
  <2>1. Abstract[e].phase # "closed"
    BY <1>5, SessionForms, SessionFields DEF OpenSession
  <2>2. Sessions!Close(e)
    BY <1>4, <2>1 DEF Sessions!Close, Sessions!IsOpen, Sessions!Becomes,
       Sessions!Closed, Sessions!Record, ClosedSession, Session, Abstract
  <2>. QED
    BY <2>2 DEF SessionStep, Sessions!Next
<1>6. CASE ~Ready(e)
  <2>1. SessionOf(e) = ClosedSession
    BY <1>6, SessionForms
  <2>. QED
    BY <1>4, <2>1 DEF SessionStep, Abstract
<1>. QED
  BY <1>5, <1>6

(* setInputImagePath selects; with a path that is too short it loses all.  *)
LEMMA SelectStep ==
    ASSUME SafeInv, NEW e \in Env, NEW path \in Path, SetInputImagePath(e, path)
    PROVE  SessionStep
<1>1. CASE proc' # "running"
  BY <1>1, SessionLost DEF SetInputImagePath, Ready, Live, SessionStep, Sessions!Next
<1>2. CASE proc' = "running"
  <2>1. Ready(e) /\ Ready(e)' /\ proc' = proc /\ UNCHANGED <<sdk, egl, target>>
    BY <1>2 DEF SetInputImagePath, Ready, Live, glVars
  <2>2. /\ \A f \in Env \ {e} : user'[f] = user[f]
        /\ user'[e] = WithInput(user[e], path)
    BY DEF SetInputImagePath, SafeInv, InputInv, TypeOK
  <2>3. /\ user'[e].input = path /\ user'[e].param = user[e].param
        /\ user'[e].active = "path"
    BY <2>2 DEF WithInput, SafeInv, InputInv, TypeOK, UserRecord
  <2>4. SessionOf(e)' = Session("pending", sdk[e].linked, path, user[e].param,
                                target[egl[e].context])
    BY <2>1, <2>3 DEF SessionOf, PhaseOf, Session
  <2>5. Abstract' = [Abstract EXCEPT ![e] = SessionOf(e)']
    BY <2>1, <2>2, SessionFrame
  <2>6. Abstract[e] = OpenSession(e)
    BY <2>1, SessionForms
  <2>7. /\ Abstract[e].phase # "closed" /\ Abstract[e].works = sdk[e].linked
        /\ Abstract[e].loaded = user[e].param
        /\ Abstract[e].screen = target[egl[e].context]
    BY <2>6, SessionForms, SessionFields DEF OpenSession
  <2>8. Sessions!Select(e, path)
    BY <2>1, <2>4, <2>5, <2>7 DEF Sessions!Select, Sessions!IsOpen, Sessions!Becomes,
       Sessions!Record, Session, Abstract
  <2>. QED
    BY <2>1, <2>8 DEF SessionStep, Sessions!Next, Ready, Live
<1>. QED
  BY <1>1, <1>2

(* setEffectCmd with an active path that loads applies the selected image. *)
LEMMA ApplyStep ==
    ASSUME SafeInv, NEW e \in Env, Ready(e), proc' = proc, EffectLoadsImage(e)
    PROVE  SessionStep
<1> DEFINE ctx == egl[e].context
<1>1. PICK picture \in Decoded(user[e].input) :
        /\ user' = [user EXCEPT ![e] =
                      [@ EXCEPT !.param = picture, !.active = "param"]]
        /\ Upload(e, picture)
  BY DEF EffectLoadsImage
<1>2. /\ user[e].active = "path"
      /\ egl' = [egl EXCEPT ![e].view = ViewAfterLoad(e)]
      /\ sdk' = [sdk EXCEPT ![e].cmd = "text"]
  BY DEF EffectLoadsImage
<1>3. picture \in Picture /\ picture.src = user[e].input
  BY <1>2, DecodedTyped DEF SafeInv, InputInv, ActivePathIsSet
<1>4. \A f \in Env \ {e} : sdk'[f] = sdk[f] /\ egl'[f] = egl[f] /\ user'[f] = user[f]
  BY <1>1, <1>2 DEF SafeInv, InputInv, TypeOK
<1>5. /\ user'[e].input = user[e].input /\ user'[e].param = picture
      /\ user'[e].active = "param"
  BY <1>1 DEF SafeInv, InputInv, TypeOK, UserRecord
<1>6. /\ sdk'[e].life = sdk[e].life /\ sdk'[e].ret = sdk[e].ret
      /\ sdk'[e].linked = sdk[e].linked
  BY <1>2 DEF SafeInv, InputInv, TypeOK, SdkRecord
<1>7. egl'[e].context = ctx
  BY <1>2, ViewUpdate DEF SafeInv, InputInv, TypeOK
<1>8. /\ target'[ctx] \in {target[ctx], NoImage}
      /\ \A c \in Ctx \ {ctx} : target'[c] = target[c]
  BY <1>1, ReadyOwn DEF Upload, SafeInv, InputInv, TypeOK
<1>9. \A f \in Env \ {e} : Ready(f) => target'[egl[f].context] = target[egl[f].context]
  BY <1>8, ReadyOwn
<1>10. SessionOf(e)' = Session("open", sdk[e].linked, user[e].input, picture, target'[ctx])
  BY <1>5, <1>6, <1>7 DEF SessionOf, PhaseOf, Session, Ready, Live
<1>11. Abstract' = [Abstract EXCEPT ![e] = SessionOf(e)']
  BY <1>4, <1>9, SessionFrame
<1>12. /\ Abstract[e].phase = "pending" /\ Abstract[e].works = sdk[e].linked
       /\ Abstract[e].selected = user[e].input
       /\ Abstract[e].screen = target[ctx]
  BY <1>2, SessionForms, SessionFields DEF OpenSession, PhaseOf
<1>13. [p \in Picture |-> p.src][picture] = user[e].input
  BY <1>3
<1>14. Sessions!Apply(e)
  <2>1. Sessions!Becomes(e, Sessions!Record("open", Abstract[e].works,
                              Abstract[e].selected, picture, target'[ctx]))
    BY <1>10, <1>11, <1>12 DEF Sessions!Becomes, Sessions!Record, Session, Abstract
  <2>2. target'[ctx] \in {Abstract[e].screen, NoImage}
    BY <1>8, <1>12
  <2>3. [p \in Picture |-> p.src][picture] = Abstract[e].selected
    BY <1>12, <1>13
  <2>. QED
    BY <1>3, <1>12, <2>1, <2>2, <2>3 DEF Sessions!Apply, Abstract
<1>. QED
  BY <1>14 DEF SessionStep, Sessions!Next, Ready, Live

(* A step that only changes what is on the screen of e.                    *)
LEMMA ScreenStep ==
    ASSUME SafeInv, NEW e \in Env, Ready(e), UNCHANGED <<proc, sdk, egl, user>>,
           \A f \in Env \ {e} : Ready(f) => target'[egl[f].context] = target[egl[f].context]
    PROVE  /\ Abstract' = [Abstract EXCEPT ![e] = SessionOf(e)']
           /\ SessionOf(e)' = [Abstract[e] EXCEPT !.screen = target'[egl[e].context]]
<1>1. Abstract' = [Abstract EXCEPT ![e] = SessionOf(e)']
  BY SessionFrame
<1>2. SessionOf(e)' = Session(PhaseOf(e), sdk[e].linked, user[e].input, user[e].param,
                              target'[egl[e].context])
  BY DEF SessionOf, PhaseOf, Session, Ready, Live
<1>3. Abstract[e] = OpenSession(e)
  BY SessionForms
<1>. QED
  BY <1>1, <1>2, <1>3, SessionFields DEF OpenSession

(* onSdkDraw renders.                                                      *)
LEMMA RenderStep ==
    ASSUME SafeInv, NEW e \in Env, OnSdkDraw(e)
    PROVE  SessionStep
<1> DEFINE ctx == egl[e].context
<1>1. Ready(e) /\ UNCHANGED <<proc, sdk, egl, user>>
  BY DEF OnSdkDraw
<1>2. target' = [target EXCEPT ![ctx] = DrawnTo(e, ctx)]
  BY <1>1, ReadyOwn DEF OnSdkDraw
<1>3. DrawnTo(e, ctx) = IF sdk[e].linked THEN user[e].param ELSE NoImage
  <2>1. CASE sdk[e].type = "off"
    BY <1>1, <2>1, ReadyOwn DEF DrawnTo
  <2>2. CASE sdk[e].type = "on"
    <3>1. ~OffScreenCtx(ctx) /\ ctx \notin bound /\ shown[ctx] = user[e].param
      BY <1>1, <2>2, ReadyOwn
    <3>. QED
      BY <2>2, <3>1 DEF DrawnTo
  <2>. QED
    BY <2>1, <2>2 DEF SafeInv, InputInv, TypeOK, SdkRecord
<1>4. target'[ctx] = IF sdk[e].linked THEN user[e].param ELSE NoImage
  BY <1>1, <1>2, <1>3, ReadyOwn DEF SafeInv, InputInv, TypeOK
<1>5. \A f \in Env \ {e} : Ready(f) => target'[egl[f].context] = target[egl[f].context]
  BY <1>1, <1>2, ReadyOwn DEF SafeInv, InputInv, TypeOK
<1>6. /\ Abstract[e].phase # "closed" /\ Abstract[e].works = sdk[e].linked
      /\ Abstract[e].loaded = user[e].param
  BY <1>1, SessionForms, SessionFields DEF OpenSession
<1>7. Sessions!Rendered(e) = target'[ctx]
  BY <1>4, <1>6 DEF Sessions!Rendered, Abstract
<1>8. Sessions!Render(e)
  BY <1>1, <1>5, <1>6, <1>7, ScreenStep DEF Sessions!Render, Sessions!IsOpen,
     Sessions!Becomes, Abstract
<1>. QED
  BY <1>1, <1>8 DEF SessionStep, Sessions!Next, Ready, Live

(* swapEglBuffers discards what was rendered, or is not seen.              *)
LEMMA DiscardStep ==
    ASSUME SafeInv, NEW e \in Env, SwapEglBuffers(e)
    PROVE  SessionStep
<1> DEFINE ctx == egl[e].context
<1>1. Ready(e) /\ UNCHANGED <<proc, sdk, egl, user>>
  BY DEF SwapEglBuffers
<1>2. \A f \in Env \ {e} : Ready(f) => target'[egl[f].context] = target[egl[f].context]
  BY <1>1, ReadyOwn DEF SwapEglBuffers, SafeInv, InputInv, TypeOK
<1>3. CASE target' = target
  <2>1. SessionOf(e)' = SessionOf(e)
    BY <1>1, <1>3 DEF SessionOf, PhaseOf, Ready, Live
  <2>. QED
    BY <1>1, <1>2, <2>1, SessionUnseen
<1>4. CASE target' = [target EXCEPT ![ctx] = NoImage]
  <2>1. target'[ctx] = NoImage
    BY <1>1, <1>4, ReadyOwn DEF SafeInv, InputInv, TypeOK
  <2>2. Abstract[e].phase # "closed"
    BY <1>1, SessionForms, SessionFields DEF OpenSession
  <2>3. Sessions!Discard(e)
    BY <1>1, <1>2, <2>1, <2>2, ScreenStep DEF Sessions!Discard, Sessions!IsOpen,
       Sessions!Becomes, Abstract
  <2>. QED
    BY <1>1, <2>3 DEF SessionStep, Sessions!Next, Ready, Live
<1>. QED
  BY <1>3, <1>4 DEF SwapEglBuffers

-----------------------------------------------------------------------------
(* Every call of imgsdk.h is a step of EditSession or is not seen by it.   *)
LEMMA EverySessionStep ==
    ASSUME Reinit = FALSE, SafeInv, [Next]_vars
    PROVE  SessionStep
<1> USE DEF SafeInv, InputInv, TypeOK, Core
<1>1. ASSUME NEW e \in Env, UNCHANGED <<proc, egl, user, target>>, ~Ready(e), ~Ready(e)',
             \A f \in Env \ {e} : sdk'[f] = sdk[f]
      PROVE  SessionStep
  <2>1. SessionOf(e)' = SessionOf(e)
    BY <1>1 DEF SessionOf
  <2>. QED
    BY <1>1, <2>1, SessionUnseen
<1>2. ASSUME NEW e \in Env, UNCHANGED <<proc, egl, user, target>>,
             sdk'[e].life = sdk[e].life, sdk'[e].ret = sdk[e].ret,
             sdk'[e].linked = sdk[e].linked,
             \A f \in Env \ {e} : sdk'[f] = sdk[f]
      PROVE  SessionStep
  <2>1. SessionOf(e)' = SessionOf(e)
    BY <1>2 DEF SessionOf, PhaseOf, Ready, Live
  <2>. QED
    BY <1>2, <2>1, SessionUnseen
<1>3. ASSUME NEW e \in Env, NewBlankSdkEnv(e) PROVE SessionStep
  <2>1. sdk'[e].ret = "none" /\ sdk[e].ret = "none"
    BY <1>3, CoreKept DEF NewBlankSdkEnv, ContextInv, UnusedIsFresh
  <2>. QED
    BY <1>1, <1>3, <2>1 DEF NewBlankSdkEnv, Ready, glVars
<1>4. ASSUME NEW e \in Env,
             SetEglNativeWindow(e) \/ SetPlatformData(e) \/ SdkMain(e)
      PROVE  SessionStep
  <2>1. /\ sdk'[e].life = sdk[e].life /\ sdk'[e].ret = sdk[e].ret
        /\ sdk'[e].linked = sdk[e].linked
    BY <1>4 DEF SetEglNativeWindow, SetPlatformData, SdkMain, SdkRecord
  <2>. QED
    BY <1>2, <1>4, <2>1 DEF SetEglNativeWindow, SetPlatformData, SdkMain, glVars
<1>5. ASSUME NEW e \in Env, NEW stop \in 0 .. 10, NEW ctx \in Ctx \ made,
             EglCalls(e, stop, ctx), UNCHANGED <<proc, user, target>>,
             sdk[e].ret = "none", sdk'[e] \in SdkRecord,
             sdk'[e].ret = "ok" => stop = AllDone,
             \A f \in Env \ {e} : sdk'[f] = sdk[f]
      PROVE  SessionStep
  <2>1. ~Ready(e) /\ user[e] = BlankUser
    BY <1>5 DEF Ready, ContextInv, FreshIsBlank
  <2>2. \A f \in Env \ {e} : egl'[f] = egl[f]
    BY <1>5 DEF EglCalls
  <2>3. CASE Ready(e)'
    <3>1. stop = AllDone
      BY <1>5, <2>3 DEF Ready
    <3>2. CreateContext < stop
      BY <3>1 DEF CreateContext, AllDone
    <3>3. CreateContext < stop => EglAfter(egl[e], stop, ctx).context = ctx
      BY DEF EglAfter
    <3>4. egl'[e].context = ctx
      BY <1>5, <3>2, <3>3 DEF EglCalls
    <3>5. sdk'[e].linked \in BOOLEAN
      BY <1>5 DEF SdkRecord
    <3>. QED
      BY <1>5, <2>1, <2>2, <2>3, <3>4, <3>5, OpenStep
  <2>4. CASE ~Ready(e)'
    <3>1. SessionOf(e)' = SessionOf(e)
      BY <2>1, <2>4 DEF SessionOf
    <3>. QED
      BY <1>5, <2>2, <3>1, SessionUnseen
  <2>. QED
    BY <2>3, <2>4
<1>6. ASSUME NEW e \in Env, InitSdkEnv(e) PROVE SessionStep
  <2>1. sdk[e].ret = "none" /\ proc' = proc
    BY <1>6 DEF InitSdkEnv
  <2>2. CASE InitRefused(e)
    <3>1. sdk' = [sdk EXCEPT ![e].ret = "error"]
      BY <2>1, <2>2 DEF InitRefused, ContextInv, FreshIsBlank
    <3>2. sdk'[e].ret = "error"
      BY <3>1, CoreKept
    <3>. QED
      BY <1>1, <2>1, <2>2, <3>1, <3>2 DEF InitRefused, glVars, Ready
  <2>3. CASE InitWithoutBuffer(e)
    <3>1. sdk'[e].ret = "none" /\ \A f \in Env \ {e} : sdk'[f] = sdk[f]
      BY <2>3, CoreStarts DEF InitWithoutBuffer, ReleaseSdkEnv
    <3>2. SessionOf(e)' = SessionOf(e)
      BY <2>1, <3>1 DEF SessionOf, Ready
    <3>. QED
      BY <2>1, <2>3, <3>1, <3>2, SessionUnseen DEF InitWithoutBuffer, ReleaseSdkEnv
  <2>4. CASE InitWithEgl(e)
    <3>1. PICK stop \in (Stops \ {NewBuffer}) \cup {AllDone}, ctx \in Ctx \ made,
               linked \in BOOLEAN :
            /\ EglCalls(e, stop, ctx)
            /\ sdk' = [sdk EXCEPT ![e] = SdkAfter(@, stop, linked)]
            /\ UNCHANGED <<user, shown, bound, target>>
      BY <2>4 DEF InitWithEgl
    <3>2. stop \in 0 .. 10
      BY StopsAssumption DEF NewBuffer, AttachShader, AllDone
    <3>3. sdk'[e] = SdkAfter(sdk[e], stop, linked)
      BY <3>1
    <3>4. SdkAfter(sdk[e], stop, linked) \in SdkRecord
      BY <3>2, SdkAfterTyped
    <3>5. sdk'[e].ret = IF stop = AllDone THEN "ok" ELSE "error"
      <4>1. SdkAfter(sdk[e], stop, linked).ret =
              IF stop = AllDone THEN "ok" ELSE "error"
        <5>1. sdk[e] \in SdkRecord /\ stop \in Int /\ linked \in BOOLEAN
          BY <3>2
        <5>. QED
          BY <5>1, CoreKept
      <4>. QED
        BY <3>3, <4>1
    <3>. QED
      BY <3>4, <3>5, <1>5, <2>1, <3>1, <3>2, <3>3
  <2>. QED
    BY <1>6, <2>2, <2>3, <2>4 DEF InitSdkEnv
<1>7. ASSUME NEW e \in Env, NewDefaultSdkEnv(e) PROVE SessionStep
  <2>1. sdk[e].ret = "none" /\ UNCHANGED <<proc, user, target>>
    BY <1>7 DEF NewDefaultSdkEnv, ContextInv, UnusedIsFresh
  <2>2. ASSUME NEW ctx \in Ctx \ made, EglCalls(e, AllDone, ctx),
               sdk' = [sdk EXCEPT ![e] =
                          [BlankSdk EXCEPT !.life = "live", !.type = "off",
                             !.status = TRUE, !.ret = "ok", !.linked = TRUE,
                             !.cmd = "empty"]]
        PROVE  SessionStep
    <3>1. AllDone \in 0 .. 10 /\ sdk'[e] \in SdkRecord
      BY <2>2, SdkStarts DEF AllDone
    <3>. QED
      BY <1>5, <2>1, <2>2, <3>1
  <2>3. CASE sdk' = [sdk EXCEPT ![e].life = "freed"] /\ egl' = egl
    <3>1. sdk'[e].ret = "none"
      BY <2>1, <2>3, CoreKept
    <3>. QED
      BY <1>1, <2>1, <2>3, <3>1 DEF Ready
  <2>. QED
    BY <1>7, <2>2, <2>3 DEF NewDefaultSdkEnv
<1>8. ASSUME NEW e \in Env, FreeSdkEnv(e) PROVE SessionStep
  <2>1. CASE Live(e) /\ ReleaseSdkEnv(e, "freed") /\ UNCHANGED proc
    BY <2>1, CloseStep DEF Live
  <2>2. CASE /\ proc = "running" /\ sdk[e].life = "dangling"
             /\ proc' \in {"running", "crashed"}
             /\ sdk' = [sdk EXCEPT ![e].life = "freed"]
             /\ UNCHANGED <<egl, user, effect, glVars>>
    <3>1. CASE proc' # "running"
      BY <2>2, <3>1, SessionLost DEF SessionStep, Sessions!Next
    <3>2. CASE proc' = "running"
      <4>1. sdk[e].ret = "none" /\ sdk'[e].ret = "none"
        BY <2>2, CoreKept DEF ContextInv, UnusedIsFresh
      <4>. QED
        BY <1>1, <2>2, <3>2, <4>1 DEF Ready, glVars
    <3>. QED
      BY <3>1, <3>2
  <2>. QED
    BY <1>8, <2>1, <2>2 DEF FreeSdkEnv
<1>9. ASSUME NEW e \in Env, NEW path \in Outputs, SetOutputImagePath(e, path)
      PROVE  SessionStep
  <2>1. /\ UNCHANGED <<proc, sdk, egl, target>>
        /\ \A f \in Env \ {e} : user'[f] = user[f]
        /\ user'[e].input = user[e].input /\ user'[e].param = user[e].param
        /\ user'[e].active = user[e].active
    BY <1>9 DEF SetOutputImagePath, UserRecord, glVars
  <2>2. SessionOf(e)' = SessionOf(e)
    BY <2>1 DEF SessionOf, PhaseOf, Ready, Live
  <2>. QED
    BY <2>1, <2>2, SessionUnseen
<1>10. ASSUME NEW e \in Env, NEW cmd \in Commands, SetEffectCmd(e, cmd)
       PROVE  SessionStep
  <2>1. Ready(e)
    BY <1>10 DEF SetEffectCmd
  <2>2. CASE proc' # "running"
    BY <2>1, <2>2, SessionLost DEF Ready, Live, SessionStep, Sessions!Next
  <2>3. CASE UNCHANGED <<proc, sdk, egl, user, target>>
    BY <1>2, <2>3
  <2>4. CASE EffectLoadsImage(e)
    BY <2>1, <2>4, ApplyStep DEF EffectLoadsImage
  <2>5. EffectLosesProcess(e) => proc' # "running"
    BY DEF EffectLosesProcess, LoadLoses
  <2>. QED
    BY <1>10, <2>2, <2>3, <2>4, <2>5 DEF SetEffectCmd, EffectWithoutImage,
       EffectReusesImage, EffectFailsToLoad
<1>11. CASE UNCHANGED vars
  <2>1. UNCHANGED Abstract
    BY <1>11 DEF vars, Abstract, SessionOf, PhaseOf, Ready, Live
  <2>. QED
    BY <1>11, <2>1 DEF vars, SessionStep
<1>. QED
  BY <1>3, <1>4, <1>6, <1>7, <1>8, <1>9, <1>10, <1>11, SelectStep, RenderStep,
     DiscardStep DEF Next, Lifecycle, Editing

(* ImplementsSessions: SdkEnv implements EditSession, so that each client of *)
(* imgsdk.h sees its own session, whatever the clients on other threads do, *)
(* however their calls interleave and whichever steps of them fail.        *)
THEOREM SessionsImplemented ==
    OneThreadEach /\ Reinit = FALSE /\ Spec => ImplementsSessions
<1> SUFFICES ASSUME OneThreadEach, Reinit = FALSE PROVE Spec => ImplementsSessions
  OBVIOUS
<1>1. Init => Sessions!Init
  <2> SUFFICES ASSUME Init PROVE Sessions!Init
    OBVIOUS
  <2>1. \A e \in Env : SessionOf(e) = ClosedSession
    BY DEF Init, SessionOf, Ready, BlankSdk, ClosedSession, Session
  <2>. QED
    BY <2>1 DEF Init, Sessions!Init, Sessions!Closed, Sessions!Record,
       ClosedSession, Session
<1>2. SafeInv /\ [Next]_vars
        => [Sessions!Next]_<<proc = "running", [e \in Env |-> SessionOf(e)]>>
  BY EverySessionStep DEF SessionStep, Abstract
<1>. QED
  BY <1>1, <1>2, SafeAlways, PTL DEF Spec, ImplementsSessions, Sessions!Spec
=============================================================================
