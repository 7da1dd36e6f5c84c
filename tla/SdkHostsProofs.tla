--------------------------- MODULE SdkHostsProofs ---------------------------
(***************************************************************************)
(* Proofs about SdkHosts, for any number of instances, contexts, paths and *)
(* runs of android_main.  First the pointers (HostInv): what each call that *)
(* is still to come needs, and who holds an instance until it is freed.    *)
(* Then, with SdkEnv's own invariants carried over to these programs       *)
(* (ClientInv): which contexts stay current, what main saves (MainInv) and *)
(* what the application's window shows (ViewInv).                          *)
(***************************************************************************)
EXTENDS SdkHosts, SdkEnvContextProofs, SequenceTheorems

USE NoEnvAssumption, AppAssumption, GlueAssumption, MainAssumption,
    EnvsOfAssumption

Setup == {"newBlankSdkEnv", "newDefaultSdkEnv", "lookup", "check", "init", "return"}

Allocates(c) == c.api \in {"newBlankSdkEnv", "newDefaultSdkEnv"}

Positions == 1 .. Len(todo)

(* A handler's calls: the instance is looked up first, allocated once, and *)
(* returned after the last call on the local variable; it is freed last.   *)
Plan(s) ==
    \A i \in 1 .. Len(s) :
       /\ s[i].api = "lookup" => i = 1
       /\ s[i].api \in Setup => s[i].via = "local"
       /\ s[i].api = "freeSdkEnv" => s[i].via = "kept" /\ i = Len(s)
       /\ Allocates(s[i]) => \E j \in 1 .. Len(s) : j > i /\ s[j].api = "return"
       /\ \A j \in 1 .. Len(s) :
             /\ s[i].api = "return" /\ s[j].via = "local" => j <= i
             /\ Allocates(s[i]) /\ Allocates(s[j]) => i = j

(* The holder's pointer is 0 or leads to an instance.                      *)
Usable(h) == ptr[h] = NoEnv \/ sdk[ptr[h]].life # "freed"

(* The application has not let go of a holder's pointer yet.               *)
Keeps(h) ==
    \/ h = Home /\ home.state # "absent"
    \/ h = View /\ render.surface

FreePending(h) == \E i \in Positions : todo[i].api = "freeSdkEnv" /\ todo[i].who = h

(* What a call that is still to come needs.                                *)
CallSafe(c) ==
    /\ c.via = "local" => ptr[c.who] = NoEnv /\ (host = "app" => Keeps(c.who))
    /\ c.via = "kept" => Usable(c.who)
    /\ Allocates(c) \/ c.api = "lookup" => local = NoEnv
    /\ Allocates(c) => Unused(c.who) # {}
    /\ c.api = "freeSdkEnv" =>
          host # "glue" /\ (host = "app" => Len(todo) = 1 /\ ~Keeps(c.who))

PointersTyped ==
    /\ todo \in Seq(Calls)
    /\ local \in Env \cup {NoEnv}
    /\ ptr \in [Holder -> Env \cup {NoEnv}]
    /\ sdk \in [Env -> SdkRecord]
    /\ activity \in Glue \cup {NoApp}
    /\ host \in {"app", "glue", "console"}
    /\ render.surface => render.state # "absent"
    /\ render.state # "absent" => render.path \in Path
    /\ home \in HomeRecord /\ render \in RenderRecord

(* An instance has one holder, or none and a handler that will return it.  *)
OneHolder ==
    /\ \A h \in Holder : ptr[h] # NoEnv => sdk[ptr[h]].life # "none"
    /\ \A h, g \in Holder : ptr[h] = ptr[g] /\ ptr[h] # NoEnv => h = g
    /\ local # NoEnv =>
          /\ sdk[local].life \in {"live", "dangling"}
          /\ \A h \in Holder : ptr[h] # local
          /\ \E i \in Positions : todo[i].api = "return"

(* The pointers the programs still use are not stale.                      *)
KeptUsable ==
    /\ host = "app" => \A h \in {Home, View} : Keeps(h) => Usable(h)
    /\ host = "glue" /\ activity # NoApp => Usable(activity)
    /\ host = "console" /\ argv = << >> => todo = << >> /\ ptr[Main] = NoEnv

(* Every instance of the application that is allocated is held, or about   *)
(* to be freed.                                                            *)
NoneLost ==
    host = "app" =>
       \A e \in Env : sdk[e].life \in {"live", "dangling"} =>
          \/ e = local
          \/ \E h \in {Home, View} : e = ptr[h] /\ (Keeps(h) \/ FreePending(h))

HostInv ==
    /\ PointersTyped
    /\ Plan(todo)
    /\ \A i \in Positions : CallSafe(todo[i])
    /\ OneHolder
    /\ KeptUsable
    /\ NoneLost

-----------------------------------------------------------------------------
(* The call that is made is the first; the others move up.                 *)
LEMMA FirstCall ==
    ASSUME PointersTyped, todo # << >>
    PROVE  /\ Len(todo) \in Nat /\ 1 \in Positions
           /\ Head(todo) = todo[1] /\ todo[1] \in Calls
           /\ \A i \in Positions : todo[i] \in Calls
  BY LenProperties, ElementOfSeq, EmptySeq, HeadTailProperties DEF PointersTyped, Positions

LEMMA Remaining ==
    ASSUME PointersTyped, Plan(todo), todo # << >>
    PROVE  /\ Tail(todo) \in Seq(Calls)
           /\ Len(Tail(todo)) = Len(todo) - 1
           /\ \A i \in 1 .. Len(Tail(todo)) :
                 i + 1 \in Positions /\ Tail(todo)[i] = todo[i + 1]
           /\ Plan(Tail(todo))
           /\ \A i \in 1 .. Len(Tail(todo)) : Tail(todo)[i].api # "lookup"
<1>1. /\ Tail(todo) \in Seq(Calls)
      /\ Len(Tail(todo)) = Len(todo) - 1
      /\ \A i \in 1 .. Len(Tail(todo)) : Tail(todo)[i] = todo[i + 1]
  BY HeadTailProperties DEF PointersTyped
<1>2. Len(todo) \in Nat
  BY FirstCall
<1>3. \A i \in 1 .. Len(Tail(todo)) :
         i + 1 \in Positions /\ Tail(todo)[i] = todo[i + 1]
  BY <1>1, <1>2 DEF Positions
<1>4. \A i \in 1 .. Len(Tail(todo)) : Tail(todo)[i].api # "lookup"
  BY <1>2, <1>3 DEF Plan, Positions
<1>5. Plan(Tail(todo))
  <2> SUFFICES ASSUME NEW i \in 1 .. Len(Tail(todo))
               PROVE  /\ Tail(todo)[i].api \in Setup => Tail(todo)[i].via = "local"
                      /\ Tail(todo)[i].api = "freeSdkEnv" =>
                            Tail(todo)[i].via = "kept" /\ i = Len(Tail(todo))
                      /\ Allocates(Tail(todo)[i]) =>
                            \E j \in 1 .. Len(Tail(todo)) :
                               j > i /\ Tail(todo)[j].api = "return"
                      /\ \A j \in 1 .. Len(Tail(todo)) :
                            /\ Tail(todo)[i].api = "return"
                                 /\ Tail(todo)[j].via = "local" => j <= i
                            /\ Allocates(Tail(todo)[i]) /\ Allocates(Tail(todo)[j])
                                 => i = j
    BY <1>4, Zenon DEF Plan
  <2>1. i \in Nat /\ \A j \in 1 .. Len(Tail(todo)) : j \in Nat
    BY <1>1, <1>2
  <2>2. /\ i + 1 \in 1 .. Len(todo) /\ Tail(todo)[i] = todo[i + 1]
        /\ \A j \in 1 .. Len(Tail(todo)) :
              j + 1 \in 1 .. Len(todo) /\ Tail(todo)[j] = todo[j + 1]
    BY <1>3 DEF Positions
  <2>3. /\ todo[i + 1].api \in Setup => todo[i + 1].via = "local"
        /\ todo[i + 1].api = "freeSdkEnv" =>
              todo[i + 1].via = "kept" /\ i + 1 = Len(todo)
        /\ Allocates(todo[i + 1]) =>
              \E j \in 1 .. Len(todo) : j > i + 1 /\ todo[j].api = "return"
        /\ \A j \in 1 .. Len(todo) :
              /\ todo[i + 1].api = "return" /\ todo[j].via = "local" => j <= i + 1
              /\ Allocates(todo[i + 1]) /\ Allocates(todo[j]) => i + 1 = j
    BY <2>2, Zenon DEF Plan
  <2>4. ASSUME NEW j \in 1 .. Len(Tail(todo))
        PROVE  /\ todo[i + 1].api = "return" /\ todo[j + 1].via = "local" => j <= i
               /\ Allocates(todo[i + 1]) /\ Allocates(todo[j + 1]) => i = j
    BY <2>1, <2>2, <2>3
  <2>5. ASSUME Tail(todo)[i].api = "freeSdkEnv"
        PROVE  Tail(todo)[i].via = "kept" /\ i = Len(Tail(todo))
    <3>1. Tail(todo)[i].via = "kept" /\ i + 1 = Len(todo)
      BY <2>2, <2>3, <2>5, Zenon
    <3>. QED
      BY <1>1, <1>2, <2>1, <3>1
  <2>6. Tail(todo)[i].api \in Setup => Tail(todo)[i].via = "local"
    BY <2>2, <2>3
  <2>7. ASSUME NEW j \in 1 .. Len(Tail(todo))
        PROVE  /\ Tail(todo)[i].api = "return" /\ Tail(todo)[j].via = "local"
                    => j <= i
               /\ Allocates(Tail(todo)[i]) /\ Allocates(Tail(todo)[j]) => i = j
    BY <2>2, <2>4 DEF Allocates
  <2>8. ASSUME Allocates(Tail(todo)[i])
        PROVE  \E j \in 1 .. Len(Tail(todo)) : j > i /\ Tail(todo)[j].api = "return"
    <3>1. Allocates(todo[i + 1])
      BY <2>2, <2>8 DEF Allocates
    <3>2. PICK j \in 1 .. Len(todo) : j > i + 1 /\ todo[j].api = "return"
      BY <2>3, <3>1
    <3>3. /\ j - 1 \in 1 .. Len(Tail(todo)) /\ j - 1 > i
          /\ Tail(todo)[j - 1] = todo[(j - 1) + 1] /\ (j - 1) + 1 = j
      BY <1>1, <1>2, <2>1, <3>2
    <3>. QED
      BY <3>2, <3>3
  <2>. QED
    BY <2>5, <2>6, <2>7, <2>8
<1>. QED
  BY <1>1, <1>3, <1>4, <1>5

(* What a call leaves alone, apart from the instances.                     *)
Surroundings == UNCHANGED <<ptr, appVars, glueVars, host>>

(* The instances that may be seen to change: one that is in use is freed by *)
(* initSdkEnv itself.                                                      *)
LivesKept ==
    /\ sdk' \in [Env -> SdkRecord]
    /\ \A e \in Env :
          \/ sdk'[e].life = sdk[e].life
          \/ sdk[e].life = "live" /\ sdk'[e].life = "dangling"

(* Unless it is made, the call of freeSdkEnv stays to be made.             *)
LEMMA PendingStays ==
    ASSUME HostInv, todo # << >>, todo' = Tail(todo), todo[1].api # "freeSdkEnv",
           NEW h \in Holder, FreePending(h)
    PROVE  FreePending(h)'
<1>1. PICK i \in Positions : todo[i].api = "freeSdkEnv" /\ todo[i].who = h
  BY DEF FreePending
<1>2. /\ Len(todo) \in Nat /\ Len(todo') = Len(todo) - 1
      /\ \A j \in 1 .. Len(todo') : todo'[j] = todo[j + 1]
  BY FirstCall, Remaining DEF HostInv
<1>3. i # 1 /\ i \in 1 .. Len(todo)
  BY <1>1 DEF Positions
<1>4. i - 1 \in 1 .. Len(todo') /\ (i - 1) + 1 = i
  BY <1>2, <1>3
<1>5. todo'[i - 1] = todo[i]
  BY <1>2, <1>4
<1>. QED
  BY <1>1, <1>4, <1>5 DEF FreePending, Positions

(* Most calls change neither a pointer nor what it leads to.               *)
LEMMA QuietCall ==
    ASSUME HostInv, todo # << >>, todo' = Tail(todo), local' = local,
           Surroundings, LivesKept,
           todo[1].api \notin {"return", "freeSdkEnv"}
    PROVE  HostInv'
<1>1. PointersTyped /\ Plan(todo)
  BY DEF HostInv
<1>2. /\ Len(todo) \in Nat /\ 1 \in Positions
      /\ \A i \in 1 .. Len(todo') : i + 1 \in Positions /\ todo'[i] = todo[i + 1]
      /\ Len(todo') = Len(todo) - 1
      /\ todo' \in Seq(Calls) /\ Plan(todo')
  BY <1>1, FirstCall, Remaining
<1>3. PointersTyped'
  BY <1>1, <1>2 DEF PointersTyped, Surroundings, LivesKept, appVars, glueVars
<1>4. UNCHANGED <<ptr, home, render, activity, argv, host>>
  BY DEF Surroundings, appVars, glueVars
<1>5. \A h \in Holder : (Usable(h)' <=> Usable(h)) /\ (Keeps(h)' <=> Keeps(h))
  BY <1>1, <1>4 DEF PointersTyped, Usable, Keeps, LivesKept
<1>6. \A h \in Holder : Unused(h)' = Unused(h)
  BY DEF Unused, LivesKept
<1>7. \A h \in Holder : FreePending(h) => FreePending(h)'
  BY PendingStays
<1>8. ASSUME NEW i \in Positions' PROVE CallSafe(todo[i])'
  <2>1. i + 1 \in Positions /\ todo'[i] = todo[i + 1] /\ todo[i + 1] \in Calls
    BY <1>1, <1>2, FirstCall DEF Positions
  <2>2. CallSafe(todo[i + 1]) /\ todo[i + 1].who \in Holder
    BY <2>1 DEF HostInv, Calls
  <2>3. todo[i + 1].api = "freeSdkEnv" /\ host = "app" => FALSE
    BY <1>2, <2>1, <2>2 DEF CallSafe, Positions
  <2>. QED
    BY <1>4, <1>5, <1>6, <2>1, <2>2, <2>3 DEF CallSafe, Allocates
<1>9. OneHolder'
  <2>1. ASSUME NEW h \in Holder, ptr[h] # NoEnv PROVE sdk'[ptr[h]].life # "none"
    BY <1>1, <2>1 DEF PointersTyped, HostInv, OneHolder, LivesKept
  <2>2. ASSUME local # NoEnv
        PROVE  sdk'[local].life \in {"live", "dangling"}
    BY <1>1, <2>2 DEF PointersTyped, HostInv, OneHolder, LivesKept
  <2>3. ASSUME local # NoEnv PROVE \E i \in Positions' : todo'[i].api = "return"
    <3>1. PICK i \in Positions : todo[i].api = "return"
      BY <2>3 DEF HostInv, OneHolder
    <3>2. i - 1 \in 1 .. Len(todo') /\ (i - 1) + 1 = i
      BY <1>2, <3>1 DEF Positions
    <3>. QED
      BY <1>2, <3>1, <3>2 DEF Positions
  <2>. QED
    BY <1>4, <2>1, <2>2, <2>3 DEF HostInv, OneHolder
<1>10. KeptUsable'
  BY <1>1, <1>4, <1>5 DEF HostInv, KeptUsable, PointersTyped
<1>11. NoneLost'
  <2> SUFFICES ASSUME host = "app", NEW e \in Env,
                      sdk'[e].life \in {"live", "dangling"}
               PROVE  \/ e = local
                      \/ \E h \in {Home, View} :
                            e = ptr[h] /\ (Keeps(h) \/ FreePending(h))'
    BY <1>4 DEF NoneLost
  <2>1. sdk[e].life \in {"live", "dangling"}
    BY DEF LivesKept
  <2>. QED
    BY <1>4, <1>5, <1>7, <2>1 DEF HostInv, NoneLost
<1>. QED
  BY <1>2, <1>3, <1>8, <1>9, <1>10, <1>11 DEF HostInv

-----------------------------------------------------------------------------
(* What the calls of imgsdk.h do to the lives of the instances.            *)
LEMMA LifeUntouched ==
    ASSUME NEW r \in SdkRecord
    PROVE  /\ [r EXCEPT !.window = TRUE].life = r.life
           /\ [r EXCEPT !.assets = TRUE].life = r.life
           /\ [r EXCEPT !.hooks = TRUE].life = r.life
           /\ [r EXCEPT !.cmd = "text"].life = r.life
           /\ [r EXCEPT !.life = "live"].life = "live"
           /\ [r EXCEPT !.life = "freed"].life = "freed"
  BY DEF SdkRecord

LEMMA FreeLives ==
    ASSUME sdk \in [Env -> SdkRecord], NEW e \in Env, FreeSdkEnv(e)
    PROVE  /\ sdk' \in [Env -> SdkRecord]
           /\ sdk'[e].life = "freed"
           /\ \A f \in Env \ {e} : sdk'[f] = sdk[f]
<1>1. /\ [BlankSdk EXCEPT !.life = "freed"] \in SdkRecord
      /\ [BlankSdk EXCEPT !.life = "freed"].life = "freed"
  BY SdkStarts DEF BlankSdk
<1>2. /\ [sdk[e] EXCEPT !.life = "freed"] \in SdkRecord
      /\ [sdk[e] EXCEPT !.life = "freed"].life = "freed"
  BY SdkUpdates, LifeUntouched
<1>3. CASE sdk' = [sdk EXCEPT ![e] = [BlankSdk EXCEPT !.life = "freed"]]
  BY <1>1, <1>3
<1>4. CASE sdk' = [sdk EXCEPT ![e].life = "freed"]
  BY <1>2, <1>4
<1>. QED
  BY <1>3, <1>4 DEF FreeSdkEnv, ReleaseSdkEnv

LEMMA InitLives ==
    ASSUME sdk \in [Env -> SdkRecord], NEW e \in Env, sdk[e].life = "live",
           InitAgain(e)
    PROVE  LivesKept
<1>1. CASE InitRefused(e)
  <2> DEFINE ret == IF sdk[e].status THEN "ok" ELSE "error"
  <2>1. sdk' = [sdk EXCEPT ![e] = [sdk[e] EXCEPT !.ret = ret]]
    BY <1>1 DEF InitRefused
  <2>2. ret \in {"ok", "error"}
    OBVIOUS
  <2> HIDE DEF ret
  <2>3. [sdk[e] EXCEPT !.ret = ret] \in SdkRecord
    BY <2>2, SdkUpdates
  <2>4. [sdk[e] EXCEPT !.ret = ret].life = sdk[e].life
    BY DEF SdkRecord
  <2>. QED
    BY <2>1, <2>3, <2>4 DEF LivesKept
<1>2. CASE InitWithoutBuffer(e)
  <2>1. /\ [BlankSdk EXCEPT !.life = "dangling"] \in SdkRecord
        /\ [BlankSdk EXCEPT !.life = "dangling"].life = "dangling"
    BY SdkStarts DEF BlankSdk
  <2>. QED
    BY <1>2, <2>1 DEF InitWithoutBuffer, ReleaseSdkEnv, LivesKept
<1>3. CASE InitWithEgl(e)
  <2>1. PICK stop \in (Stops \ {NewBuffer}) \cup {AllDone}, linked \in BOOLEAN :
          sdk' = [sdk EXCEPT ![e] = SdkAfter(@, stop, linked)]
    BY <1>3 DEF InitWithEgl
  <2>2. stop \in Int
    BY StopsAssumption DEF NewBuffer, AttachShader, AllDone
  <2>3. SdkAfter(sdk[e], stop, linked) \in SdkRecord
    BY <2>2, SdkAfterTyped
  <2>4. SdkAfter(sdk[e], stop, linked).life = sdk[e].life
    BY DEF SdkAfter, SdkRecord
  <2>. QED
    BY <2>1, <2>3, <2>4 DEF LivesKept
<1>. QED
  BY <1>1, <1>2, <1>3 DEF InitAgain

LEMMA ApiLives ==
    ASSUME sdk \in [Env -> SdkRecord], NEW c \in Calls, NEW e \in Env,
           sdk[e].life = "live", Api(c, e), c.api # "freeSdkEnv"
    PROVE  LivesKept
<1>1. CASE UNCHANGED sdk
  BY <1>1 DEF LivesKept
<1>2. CASE sdk' = [sdk EXCEPT ![e].window = TRUE]
  BY <1>2, SdkUpdates, LifeUntouched DEF LivesKept
<1>3. CASE sdk' = [sdk EXCEPT ![e].assets = TRUE]
  BY <1>3, SdkUpdates, LifeUntouched DEF LivesKept
<1>4. CASE sdk' = [sdk EXCEPT ![e].hooks = TRUE]
  BY <1>4, SdkUpdates, LifeUntouched DEF LivesKept
<1>5. CASE sdk' = [sdk EXCEPT ![e].cmd = "text"]
  BY <1>5, SdkUpdates, LifeUntouched DEF LivesKept
<1>6. CASE InitAgain(e)
  BY <1>6, InitLives
<1>7. ASSUME SetEffectCmd(e, c.arg)
      PROVE  UNCHANGED sdk \/ sdk' = [sdk EXCEPT ![e].cmd = "text"]
  BY <1>7 DEF SetEffectCmd, EffectWithoutImage, EffectReusesImage,
     EffectFailsToLoad, EffectLosesProcess, EffectLoadsImage
<1>8. ASSUME UNCHANGED vars PROVE UNCHANGED sdk
  BY <1>8 DEF vars
<1>. QED
  BY <1>1, <1>2, <1>3, <1>4, <1>5, <1>6, <1>7, <1>8
  DEF Api, SetWindow, SetEglNativeWindow, SetPlatformData, RunSdk, SdkMain,
      SetInput, SetInputImagePath, SetOutputImagePath, Draw, OnSdkDraw, Swap,
      SwapEglBuffers

-----------------------------------------------------------------------------
(* The calls after the first one, once it is made, when neither the        *)
(* application nor the native programs move.                               *)
LEMMA Later ==
    ASSUME HostInv, todo # << >>, todo' = Tail(todo)
    PROVE  /\ todo' \in Seq(Calls) /\ Plan(todo')
           /\ \A i \in Positions' :
                 /\ i + 1 \in Positions /\ todo'[i] = todo[i + 1]
                 /\ todo'[i] \in Calls /\ CallSafe(todo'[i])
                 /\ todo'[i].api # "lookup"
                 /\ todo'[i].api = "freeSdkEnv" => host # "app"
<1>1. PointersTyped /\ Plan(todo)
  BY DEF HostInv
<1>2. /\ todo' \in Seq(Calls) /\ Plan(todo')
      /\ Len(todo) \in Nat /\ Len(todo') = Len(todo) - 1
      /\ \A i \in 1 .. Len(todo') :
            i + 1 \in Positions /\ todo'[i] = todo[i + 1] /\ todo'[i].api # "lookup"
  BY <1>1, FirstCall, Remaining
<1>3. \A i \in Positions' : todo'[i] \in Calls /\ CallSafe(todo'[i])
  BY <1>1, <1>2, FirstCall DEF HostInv, Positions
<1>4. \A i \in Positions' : Len(todo) # 1
  BY <1>2 DEF Positions
<1>. QED
  BY <1>2, <1>3, <1>4 DEF CallSafe, Positions

(* newBlankSdkEnv and newDefaultSdkEnv: nothing, an instance that the local *)
(* variable holds, or one that is freed again.                             *)
LEMMA AllocateLives ==
    ASSUME PointersTyped, NEW c \in Calls, Unused(c.who) # {}, Allocate(c)
    PROVE  \/ sdk' = sdk /\ local' = NoEnv
           \/ \E e \in Env :
                 /\ sdk[e].life = "none"
                 /\ sdk' \in [Env -> SdkRecord]
                 /\ \A f \in Env \ {e} : sdk'[f] = sdk[f]
                 /\ \/ sdk'[e].life = "live" /\ local' = e
                    \/ sdk'[e].life = "freed" /\ local' = NoEnv
<1> DEFINE e == CHOOSE x \in Unused(c.who) : TRUE
<1>1. c.who \in Holder /\ EnvsOf[c.who] \subseteq Env
  BY DEF Calls
<1>2. e \in Unused(c.who)
  OBVIOUS
<1>3. e \in Env /\ sdk[e].life = "none"
  BY <1>1, <1>2 DEF Unused
<1> HIDE DEF e
<1>4. CASE NewBlankSdkEnv(e) /\ local' = e
  <2>1. sdk' = [sdk EXCEPT ![e] = [sdk[e] EXCEPT !.life = "live"]]
    BY <1>4 DEF NewBlankSdkEnv
  <2>. QED
    BY <1>3, <1>4, <2>1, SdkUpdates, LifeUntouched DEF PointersTyped
<1>5. CASE NewDefaultSdkEnv(e) /\ local' = IF sdk'[e].life = "live" THEN e ELSE NoEnv
  <2> DEFINE new == [BlankSdk EXCEPT !.life = "live", !.type = "off",
                       !.status = TRUE, !.ret = "ok", !.linked = TRUE, !.cmd = "empty"]
  <2>1. new \in SdkRecord /\ new.life = "live"
    BY SdkStarts DEF BlankSdk
  <2>2. \/ sdk' = [sdk EXCEPT ![e] = new]
        \/ sdk' = [sdk EXCEPT ![e] = [sdk[e] EXCEPT !.life = "freed"]]
    BY <1>5 DEF NewDefaultSdkEnv
  <2> HIDE DEF new
  <2>3. sdk \in [Env -> SdkRecord] /\ sdk[e] \in SdkRecord
    BY <1>3 DEF PointersTyped
  <2>4. /\ [sdk[e] EXCEPT !.life = "freed"] \in SdkRecord
        /\ [sdk[e] EXCEPT !.life = "freed"].life = "freed"
    BY <2>3, SdkUpdates, LifeUntouched
  <2>5. /\ sdk' \in [Env -> SdkRecord]
        /\ \A f \in Env \ {e} : sdk'[f] = sdk[f]
        /\ sdk'[e].life \in {"live", "freed"}
    BY <1>3, <2>1, <2>2, <2>3, <2>4
  <2>. QED
    BY <1>3, <1>5, <2>5
<1>6. CASE local' = NoEnv /\ UNCHANGED vars
  BY <1>6 DEF vars
<1>. QED
  BY <1>4, <1>5, <1>6, Zenon DEF Allocate, e

LEMMA AllocateStep ==
    ASSUME HostInv, todo # << >>, todo' = Tail(todo), Surroundings,
           Allocate(Head(todo))
    PROVE  HostInv'
<1>1. /\ PointersTyped /\ Plan(todo)
      /\ Head(todo) = todo[1] /\ todo[1] \in Calls /\ 1 \in Positions
      /\ Len(todo) \in Nat
  BY FirstCall DEF HostInv
<1>2. Allocates(todo[1])
  BY <1>1 DEF Allocate, Allocates
<1>3. Unused(todo[1].who) # {} /\ local = NoEnv
  BY <1>1, <1>2 DEF HostInv, CallSafe
<1>4. UNCHANGED <<ptr, home, render, activity, argv, host>>
  BY DEF Surroundings, appVars, glueVars
<1>5. CASE sdk' = sdk /\ local' = NoEnv
  <2>1. LivesKept
    BY <1>1, <1>5 DEF LivesKept, PointersTyped
  <2>2. todo[1].api \notin {"return", "freeSdkEnv"}
    BY <1>2 DEF Allocates
  <2>. QED
    BY <1>3, <1>5, <2>1, <2>2, QuietCall
<1>6. ASSUME NEW e \in Env, sdk[e].life = "none", sdk' \in [Env -> SdkRecord],
             \A f \in Env \ {e} : sdk'[f] = sdk[f],
             \/ sdk'[e].life = "live" /\ local' = e
             \/ sdk'[e].life = "freed" /\ local' = NoEnv
      PROVE  HostInv'
  <2>1. \A h \in Holder : ptr[h] # e
    BY <1>6, NoEnvAssumption DEF HostInv, OneHolder
  <2>2. \A h \in Holder : ptr[h] # NoEnv =>
           ptr[h] \in Env \ {e} /\ sdk'[ptr[h]] = sdk[ptr[h]]
    BY <1>1, <1>6, <2>1 DEF PointersTyped
  <2>3. \A h \in Holder : (Usable(h)' <=> Usable(h)) /\ (Keeps(h)' <=> Keeps(h))
    BY <1>4, <2>2 DEF Usable, Keeps
  <2>4. PointersTyped'
    BY <1>1, <1>4, <1>6, Later DEF PointersTyped
  <2>5. ASSUME NEW i \in Positions' PROVE CallSafe(todo[i])'
    <3>1. /\ i + 1 \in Positions /\ todo'[i] = todo[i + 1]
          /\ todo'[i] \in Calls /\ CallSafe(todo'[i])
          /\ todo'[i].api # "lookup"
          /\ todo'[i].api = "freeSdkEnv" => host # "app"
      BY Later
    <3>2. ~Allocates(todo'[i])
      <4>1. ASSUME Allocates(todo[i + 1]) PROVE 1 = i + 1
        BY <1>1, <1>2, <3>1, <4>1 DEF Plan, Positions
      <4>2. 1 # i + 1
        BY <3>1, <1>1, Remaining DEF Positions
      <4>. QED
        BY <3>1, <4>1, <4>2
    <3>3. todo'[i].who \in Holder
      BY <3>1 DEF Calls
    <3>. QED
      BY <1>4, <2>3, <3>1, <3>2, <3>3 DEF CallSafe, Allocates
  <2>6. OneHolder'
    <3>1. ASSUME local' # NoEnv
          PROVE  \E i \in Positions' : todo'[i].api = "return"
      <4>1. PICK j \in 1 .. Len(todo) : j > 1 /\ todo[j].api = "return"
        BY <1>1, <1>2 DEF Plan, Positions
      <4>2. j - 1 \in 1 .. Len(todo') /\ (j - 1) + 1 = j
        BY <1>1, <4>1, Remaining
      <4>3. todo'[j - 1] = todo[j]
        BY <4>2, Later DEF Positions
      <4>. QED
        BY <4>1, <4>2, <4>3 DEF Positions
    <3>2. ASSUME local' # NoEnv
          PROVE  sdk'[local'].life = "live" /\ \A h \in Holder : ptr'[h] # local'
      BY <1>4, <1>6, <2>1, <3>2
    <3>3. \A h \in Holder : ptr'[h] # NoEnv => sdk'[ptr'[h]].life # "none"
      BY <1>4, <2>2 DEF HostInv, OneHolder
    <3>. QED
      BY <1>4, <3>1, <3>2, <3>3 DEF HostInv, OneHolder
  <2>7. KeptUsable'
    BY <1>1, <1>4, <2>3 DEF HostInv, KeptUsable, PointersTyped
  <2>8. NoneLost'
    <3> SUFFICES ASSUME host = "app", NEW f \in Env,
                        sdk'[f].life \in {"live", "dangling"}
                 PROVE  \/ f = local'
                        \/ \E h \in {Home, View} :
                              f = ptr[h] /\ (Keeps(h) \/ FreePending(h))'
      BY <1>4 DEF NoneLost
    <3>1. CASE f = e
      BY <1>6, <3>1
    <3>2. CASE f # e
      <4>1. sdk[f].life \in {"live", "dangling"} /\ f # local
        BY <1>3, <1>6, <3>2
      <4>2. PICK h \in {Home, View} : f = ptr[h] /\ (Keeps(h) \/ FreePending(h))
        BY <4>1 DEF HostInv, NoneLost
      <4>3. todo[1].api # "freeSdkEnv"
        BY <1>2 DEF Allocates
      <4>. QED
        BY <2>3, <4>2, <4>3, PendingStays
    <3>. QED
      BY <3>1, <3>2
  <2>. QED
    BY <2>4, <2>5, <2>6, <2>7, <2>8, Later DEF HostInv
<1>. QED
  BY <1>1, <1>3, <1>5, <1>6, AllocateLives

-----------------------------------------------------------------------------
(* freeSdkEnv through a pointer that is kept, which does nothing for 0: the *)
(* last call of its handler, after which nobody uses the pointer.          *)
LEMMA FreeStep ==
    ASSUME HostInv, todo # << >>, todo' = Tail(todo), local' = local, Surroundings,
           todo[1].api = "freeSdkEnv", NEW e, e = ptr[todo[1].who],
           IF e = NoEnv THEN UNCHANGED sdk ELSE FreeSdkEnv(e)
    PROVE  HostInv'
<1>1. /\ PointersTyped /\ Plan(todo) /\ Len(todo) \in Nat
      /\ todo[1] \in Calls /\ 1 \in Positions /\ todo[1].who \in Holder
  BY FirstCall DEF HostInv, Calls
<1>2. todo[1].via = "kept" /\ Len(todo) = 1
  BY <1>1 DEF Plan, Positions
<1>3. todo' = << >> /\ Positions' = {} /\ Plan(todo') /\ todo' \in Seq(Calls)
  <2>1. Len(todo') = 0 /\ todo' \in Seq(Calls)
    BY <1>1, <1>2, Remaining
  <2>. QED
    BY <2>1, EmptySeq DEF Positions, Plan
<1>4. UNCHANGED <<ptr, home, render, activity, argv, host>>
  BY DEF Surroundings, appVars, glueVars
<1>5. /\ sdk' \in [Env -> SdkRecord]
      /\ e \in Env => sdk'[e].life = "freed"
      /\ \A f \in Env \ {e} : sdk'[f] = sdk[f]
  <2>1. e \in Env \cup {NoEnv} /\ sdk \in [Env -> SdkRecord]
    BY <1>1 DEF PointersTyped
  <2>. QED
    BY <2>1, FreeLives
<1>6. host # "glue" /\ (host = "app" => ~Keeps(todo[1].who))
  BY <1>1 DEF HostInv, CallSafe
<1>7. local = NoEnv
  BY <1>1, <1>2 DEF HostInv, OneHolder, Positions
<1>8. \A h \in Holder \ {todo[1].who} : ptr[h] # e \/ ptr[h] = NoEnv
  BY <1>1 DEF HostInv, OneHolder
<1>9. \A h \in Holder \ {todo[1].who} : Usable(h)' <=> Usable(h)
  BY <1>1, <1>4, <1>5, <1>8 DEF Usable, PointersTyped
<1>10. \A h \in Holder : Keeps(h)' <=> Keeps(h)
  BY <1>4 DEF Keeps
<1>11. PointersTyped'
  BY <1>1, <1>3, <1>4, <1>5 DEF PointersTyped
<1>12. OneHolder'
  BY <1>1, <1>4, <1>5, <1>7 DEF HostInv, OneHolder, PointersTyped
<1>13. KeptUsable'
  <2>1. ASSUME host = "app", NEW h \in {Home, View}, Keeps(h)' PROVE Usable(h)'
    BY <1>6, <1>9, <1>10, <2>1 DEF HostInv, KeptUsable
  <2>. QED
    BY <1>3, <1>4, <1>6, <2>1 DEF HostInv, KeptUsable
<1>14. NoneLost'
  <2> SUFFICES ASSUME host = "app", NEW f \in Env,
                      sdk'[f].life \in {"live", "dangling"}
               PROVE  \E h \in {Home, View} : f = ptr[h] /\ Keeps(h)'
    BY <1>4 DEF NoneLost
  <2>1. f # e /\ sdk[f].life \in {"live", "dangling"} /\ f # local
    BY <1>5, <1>7
  <2>2. PICK h \in {Home, View} : f = ptr[h] /\ (Keeps(h) \/ FreePending(h))
    BY <2>1 DEF HostInv, NoneLost
  <2>3. ~FreePending(h)
    BY <1>2, <2>1, <2>2 DEF FreePending, Positions
  <2>. QED
    BY <1>10, <2>2, <2>3
<1>. QED
  BY <1>3, <1>11, <1>12, <1>13, <1>14 DEF HostInv

(* The calls of imgsdk.h.                                                  *)
LEMMA SdkCallStep ==
    ASSUME HostInv, todo # << >>, todo' = Tail(todo), local' = local, Surroundings,
           SdkCall(Head(todo))
    PROVE  HostInv'
<1> DEFINE c == todo[1]
           e == Subject(c)
<1>1. /\ PointersTyped /\ Plan(todo) /\ CallSafe(c)
      /\ Head(todo) = c /\ c \in Calls /\ 1 \in Positions /\ Len(todo) \in Nat
  BY FirstCall DEF HostInv
<1>2. c.api \in ApiNames /\ c.who \in Holder /\ c.via \in {"local", "kept"}
  BY <1>1 DEF SdkCall, Calls
<1>3. c.api # "return"
  BY <1>2 DEF ApiNames
<1>4. c.api = "freeSdkEnv" => c.via = "kept"
  BY <1>1 DEF Plan, Positions
<1>5. e \in Env \cup {NoEnv}
  BY <1>1, <1>2 DEF Subject, PointersTyped
<1>6. ASSUME e # NoEnv PROVE sdk[e].life \in {"live", "dangling"}
  <2>1. CASE c.via = "local"
    BY <1>6, <2>1 DEF Subject, HostInv, OneHolder
  <2>2. CASE c.via = "kept"
    <3>1. e = ptr[c.who] /\ e \in Env
      BY <1>5, <1>6, <2>2 DEF Subject
    <3>2. sdk[e].life # "none"
      BY <1>2, <1>6, <3>1 DEF HostInv, OneHolder
    <3>3. sdk[e].life # "freed"
      BY <1>1, <1>6, <2>2, <3>1 DEF CallSafe, Usable
    <3>. QED
      BY <1>1, <3>1, <3>2, <3>3 DEF PointersTyped, SdkRecord
  <2>. QED
    BY <1>2, <2>1, <2>2
<1>7. ASSUME UNCHANGED sdk
      PROVE  LivesKept
  BY <1>1, <1>7 DEF LivesKept, PointersTyped
<1>8. CASE c.api = "freeSdkEnv"
  <2>1. e = ptr[c.who]
    BY <1>4, <1>8 DEF Subject
  <2>2. IF e = NoEnv THEN UNCHANGED sdk ELSE FreeSdkEnv(e)
    BY <1>1, <1>6, <1>8 DEF SdkCall, Gone, Api, vars
  <2> HIDE DEF e
  <2>. QED
    BY <1>8, <2>1, <2>2, FreeStep
<1>9. CASE c.api # "freeSdkEnv"
  <2>1. CASE e = NoEnv
    BY <1>1, <1>3, <1>7, <1>9, <2>1, QuietCall DEF SdkCall, vars
  <2>2. CASE e # NoEnv /\ Gone(c, e)
    <3>1. UNCHANGED sdk
      BY <1>1, <2>2 DEF SdkCall, UseAfterFree
    <3>. QED
      BY <1>3, <1>7, <1>9, <3>1, QuietCall
  <2>3. CASE e # NoEnv /\ ~Gone(c, e)
    <3>1. e \in Env /\ sdk[e].life = "live"
      BY <1>5, <1>6, <1>9, <2>3 DEF Gone
    <3>2. Api(c, e)
      BY <1>1, <2>3 DEF SdkCall
    <3>3. LivesKept
      BY <1>1, <1>9, <3>1, <3>2, ApiLives DEF PointersTyped
    <3>. QED
      BY <1>3, <1>9, <3>3, QuietCall
  <2>. QED
    BY <2>1, <2>2, <2>3
<1>. QED
  BY <1>8, <1>9

-----------------------------------------------------------------------------
(* A native method returns 0: either it holds no instance, or it has freed *)
(* the one it held.                                                        *)
LEMMA DropStep ==
    ASSUME HostInv, todo # << >>, todo[1].api \in {"lookup", "check", "init"},
           ReturnNull(todo[1]), UNCHANGED <<appVars, glueVars, host>>,
           IF local = NoEnv THEN UNCHANGED sdk ELSE FreeSdkEnv(local)
    PROVE  HostInv'
<1>1. /\ PointersTyped /\ Plan(todo) /\ Len(todo) \in Nat
      /\ todo[1] \in Calls /\ 1 \in Positions /\ todo[1].who \in Holder
  BY FirstCall DEF HostInv, Calls
<1>2. todo[1].via = "local" /\ todo[1].api # "freeSdkEnv"
  BY <1>1 DEF Plan, Positions, Setup
<1>3. ptr[todo[1].who] = NoEnv
  BY <1>1, <1>2 DEF HostInv, CallSafe
<1>4. todo' = << >> /\ local' = NoEnv /\ ptr' = ptr
  BY <1>1, <1>3 DEF ReturnNull, PointersTyped
<1>5. UNCHANGED <<home, render, activity, argv, host>>
  BY DEF appVars, glueVars
<1>6. Positions' = {} /\ Plan(todo') /\ todo' \in Seq(Calls)
  BY <1>4, EmptySeq DEF Positions, Plan
<1>7. /\ sdk' \in [Env -> SdkRecord]
      /\ local # NoEnv => local \in Env /\ sdk'[local].life = "freed"
      /\ \A f \in Env \ {local} : sdk'[f] = sdk[f]
  <2>1. local \in Env \cup {NoEnv} /\ sdk \in [Env -> SdkRecord]
    BY <1>1 DEF PointersTyped
  <2>. QED
    BY <2>1, FreeLives
<1>8. \A h \in Holder : ptr[h] # NoEnv =>
         ptr[h] \in Env \ {local} /\ sdk'[ptr[h]] = sdk[ptr[h]]
  BY <1>1, <1>7 DEF PointersTyped, HostInv, OneHolder
<1>9. \A h \in Holder : (Usable(h)' <=> Usable(h)) /\ (Keeps(h)' <=> Keeps(h))
  BY <1>4, <1>5, <1>8 DEF Usable, Keeps
<1>10. PointersTyped'
  BY <1>1, <1>4, <1>5, <1>6, <1>7 DEF PointersTyped
<1>11. OneHolder'
  BY <1>4, <1>8 DEF HostInv, OneHolder
<1>12. KeptUsable'
  BY <1>1, <1>4, <1>5, <1>9 DEF HostInv, KeptUsable, PointersTyped
<1>13. NoneLost'
  <2> SUFFICES ASSUME host = "app", NEW f \in Env,
                      sdk'[f].life \in {"live", "dangling"}
               PROVE  \E h \in {Home, View} : f = ptr[h] /\ Keeps(h)'
    BY <1>4, <1>5 DEF NoneLost
  <2>1. f # local /\ sdk[f].life \in {"live", "dangling"}
    BY <1>7
  <2>2. PICK h \in {Home, View} : f = ptr[h] /\ (Keeps(h) \/ FreePending(h))
    BY <2>1 DEF HostInv, NoneLost
  <2>3. ASSUME NEW i \in Positions, todo[i].api = "freeSdkEnv" PROVE FALSE
    <3>1. Len(todo) = 1
      BY <2>3 DEF HostInv, CallSafe
    <3>. QED
      BY <1>2, <2>3, <3>1 DEF Positions
  <2>. QED
    BY <1>9, <2>2, <2>3 DEF FreePending
<1>. QED
  BY <1>6, <1>10, <1>11, <1>12, <1>13 DEF HostInv

(* A native method returns the instance: from the local variable to the    *)
(* pointer of its holder.                                                  *)
LEMMA ReturnStep ==
    ASSUME HostInv, todo # << >>, ReturnPointer(todo[1]),
           UNCHANGED <<appVars, glueVars, host>>
    PROVE  HostInv'
<1> DEFINE who == todo[1].who
<1>1. /\ PointersTyped /\ Plan(todo) /\ Len(todo) \in Nat
      /\ todo[1] \in Calls /\ 1 \in Positions /\ who \in Holder
  BY FirstCall DEF HostInv, Calls
<1>2. todo[1].api = "return" /\ todo[1].via = "local"
  BY <1>1 DEF ReturnPointer, Plan, Positions, Setup
<1>3. ptr[who] = NoEnv /\ (host = "app" => Keeps(who))
  BY <1>1, <1>2 DEF HostInv, CallSafe
<1>4. /\ todo' = Tail(todo) /\ local' = NoEnv /\ sdk' = sdk
      /\ ptr' = [ptr EXCEPT ![who] = local]
      /\ UNCHANGED <<home, render, activity, argv, host>>
  BY DEF ReturnPointer, vars, appVars, glueVars
<1> HIDE DEF who
<1>5. ptr \in [Holder -> Env \cup {NoEnv}] /\ local \in Env \cup {NoEnv}
  BY <1>1 DEF PointersTyped
<1>6. /\ ptr' \in [Holder -> Env \cup {NoEnv}]
      /\ ptr'[who] = local
      /\ \A h \in Holder \ {who} : ptr'[h] = ptr[h]
  BY <1>1, <1>4, <1>5
<1>7. \A h \in Holder : (Usable(h) => Usable(h)') /\ (Keeps(h)' <=> Keeps(h))
  <2>1. local # NoEnv => sdk[local].life # "freed"
    BY DEF HostInv, OneHolder
  <2>. QED
    BY <1>1, <1>4, <1>6, <2>1 DEF Usable, Keeps
<1>8. PointersTyped'
  BY <1>1, <1>4, <1>6, Later DEF PointersTyped
<1>9. ASSUME NEW i \in Positions' PROVE CallSafe(todo[i])'
  <2>1. /\ i + 1 \in Positions /\ todo'[i] = todo[i + 1]
        /\ todo'[i] \in Calls /\ CallSafe(todo'[i])
        /\ todo'[i].api # "lookup"
        /\ todo'[i].api = "freeSdkEnv" => host # "app"
    BY <1>4, Later
  <2>2. todo'[i].who \in Holder /\ todo'[i].via \in {"local", "kept"}
    BY <2>1 DEF Calls
  <2>3. i \in Nat \ {0}
    BY <1>1, <1>4, Remaining DEF Positions
  <2>4. todo[i + 1].via # "local"
    <3>1. ASSUME todo[i + 1].via = "local" PROVE i + 1 <= 1
      BY <1>1, <1>2, <2>1, <3>1 DEF Plan, Positions
    <3>. QED
      BY <2>3, <3>1
  <2>5. ~Allocates(todo'[i])
    <3>1. todo[i + 1].api \notin Setup
      BY <1>1, <2>1, <2>4, Zenon DEF Plan, Positions
    <3>. QED
      BY <2>1, <3>1 DEF Setup, Allocates
  <2>6. Usable(todo[i].who)'
    <3>1. Usable(todo[i + 1].who) /\ todo[i + 1].who \in Holder
      BY <2>1, <2>2, <2>4 DEF CallSafe
    <3>. QED
      BY <1>4, <1>7, <2>1, <3>1 DEF Usable
  <2>. QED
    BY <1>4, <2>1, <2>2, <2>4, <2>5, <2>6 DEF CallSafe, Allocates
<1>10. OneHolder'
  BY <1>1, <1>4, <1>5, <1>6 DEF HostInv, OneHolder
<1>11. KeptUsable'
  BY <1>1, <1>4, <1>7 DEF HostInv, KeptUsable, PointersTyped
<1>12. NoneLost'
  <2> SUFFICES ASSUME host = "app", NEW f \in Env,
                      sdk[f].life \in {"live", "dangling"}
               PROVE  \E h \in {Home, View} :
                         f = ptr'[h] /\ (Keeps(h) \/ FreePending(h))'
    BY <1>4 DEF NoneLost
  <2>1. CASE f = local
    <3>1. Keeps(who) /\ who \in {Home, View}
      BY <1>3 DEF Keeps
    <3>. QED
      BY <1>1, <1>6, <1>7, <2>1, <3>1
  <2>2. CASE f # local
    <3>1. PICK h \in {Home, View} : f = ptr[h] /\ (Keeps(h) \/ FreePending(h))
      BY <2>2 DEF HostInv, NoneLost
    <3>2. h # who
      BY <1>3, <3>1, NoEnvAssumption
    <3>. QED
      BY <1>2, <1>4, <1>6, <1>7, <3>1, <3>2, PendingStays
  <2>. QED
    BY <2>1, <2>2
<1>. QED
  BY <1>4, <1>8, <1>9, <1>10, <1>11, <1>12, Later DEF HostInv

(* Every call of a handler.                                                *)
LEMMA CallStep ==
    ASSUME HostInv, Call
    PROVE  HostInv'
<1> DEFINE c == todo[1]
<1>1. todo # << >> /\ UNCHANGED <<appVars, glueVars, host>>
  BY DEF Call
<1>2. /\ PointersTyped /\ Head(todo) = c
      /\ local \in Env \cup {NoEnv} /\ sdk \in [Env -> SdkRecord]
  BY <1>1, FirstCall DEF HostInv, PointersTyped
<1>3. ASSUME UNCHANGED sdk PROVE LivesKept
  BY <1>2, <1>3 DEF LivesKept
<1>4. CASE /\ Allocate(c) /\ todo' = Tail(todo) /\ UNCHANGED <<ptr, answered, saved>>
  BY <1>1, <1>2, <1>4, AllocateStep DEF Surroundings
<1>5. CASE /\ SdkCall(c) /\ todo' = Tail(todo)
           /\ UNCHANGED <<local, ptr, answered, saved>>
  BY <1>1, <1>2, <1>5, SdkCallStep DEF Surroundings
<1>6. CASE /\ SaveImage(c) /\ todo' = Tail(todo)
           /\ UNCHANGED <<local, ptr, answered>>
  BY <1>1, <1>3, <1>6, QuietCall DEF Surroundings, SaveImage
<1>7. ASSUME GoOn, UNCHANGED sdk, c.api \notin {"return", "freeSdkEnv"}
      PROVE  HostInv'
  BY <1>1, <1>3, <1>7, QuietCall DEF Surroundings, GoOn
<1>8. CASE Lookup(c)
  <2>1. UNCHANGED sdk /\ c.api = "lookup" /\ (ReturnNull(c) \/ GoOn)
    BY <1>8 DEF Lookup, vars
  <2>2. local = NoEnv
    BY <1>1, <2>1, <1>2, FirstCall DEF HostInv, CallSafe
  <2>. QED
    BY <1>1, <1>7, <2>1, <2>2, DropStep
<1>9. CASE CheckPointer(c)
  <2>1. /\ UNCHANGED sdk /\ c.api = "check"
        /\ IF local = NoEnv THEN ReturnNull(c) ELSE GoOn
    BY <1>9 DEF CheckPointer, vars
  <2>. QED
    BY <1>1, <1>7, <2>1, DropStep
<1>10. CASE CheckInit(c)
  <2>1. c.api = "init"
    BY <1>10 DEF CheckInit
  <2>2. CASE GoOn /\ UNCHANGED vars
    BY <1>7, <2>1, <2>2 DEF vars
  <2>3. CASE ReturnNull(c) /\ FreeSdkEnv(local)
    <3>1. CASE local = NoEnv
      <4>1. UNCHANGED sdk
        BY <1>2, <2>3, <3>1 DEF FreeSdkEnv, ReleaseSdkEnv
      <4>. QED
        BY <1>1, <2>1, <2>3, <3>1, <4>1, DropStep
    <3>2. CASE local # NoEnv
      BY <1>1, <2>1, <2>3, <3>2, DropStep
    <3>. QED
      BY <3>1, <3>2
  <2>. QED
    BY <1>10, <2>2, <2>3 DEF CheckInit
<1>11. CASE ReturnPointer(c)
  BY <1>1, <1>11, ReturnStep
<1>12. CASE OnSuccess(c)
  BY <1>7, <1>12 DEF OnSuccess, vars
<1>. QED
  BY <1>2, <1>4, <1>5, <1>6, <1>8, <1>9, <1>10, <1>11, <1>12 DEF Call, JniStep

-----------------------------------------------------------------------------
(* The handlers.  Calls on a pointer that is kept, none of which frees it. *)
KeptCalls(s, h) ==
    /\ s \in Seq(Calls)
    /\ \A i \in 1 .. Len(s) :
          s[i].via = "kept" /\ s[i].who = h /\ s[i].api \notin Setup \cup {"freeSdkEnv"}

(* Calls on the local variable that set an instance up for a holder.       *)
LocalCalls(s, h) ==
    /\ s \in Seq(Calls)
    /\ \A i \in 1 .. Len(s) :
          /\ s[i].via = "local" /\ s[i].who = h /\ s[i].api # "freeSdkEnv"
          /\ s[i].api = "lookup" <=> i = 1
          /\ Allocates(s[i]) <=> i = 2
          /\ s[i].api = "return" <=> i = Len(s)
    /\ Len(s) > 2

LEMMA KeptPlan ==
    ASSUME NEW s, NEW h, KeptCalls(s, h)
    PROVE  Plan(s)
  BY DEF KeptCalls, Plan, Setup, Allocates

LEMMA LocalPlan ==
    ASSUME NEW s, NEW h, LocalCalls(s, h)
    PROVE  Plan(s)
<1>1. Len(s) \in Nat /\ Len(s) > 2
  BY LenProperties DEF LocalCalls
<1>. QED
  BY <1>1 DEF LocalCalls, Plan

LEMMA KeptOne ==
    ASSUME NEW c \in Calls, c.via = "kept", c.api \notin Setup \cup {"freeSdkEnv"}
    PROVE  KeptCalls(<<c>>, c.who)
  BY DEF KeptCalls

LEMMA KeptJoin ==
    ASSUME NEW s, NEW t, NEW h, KeptCalls(s, h), KeptCalls(t, h)
    PROVE  KeptCalls(s \o t, h)
<1>1. s \in Seq(Calls) /\ t \in Seq(Calls) /\ Len(s) \in Nat /\ Len(t) \in Nat
  BY LenProperties DEF KeptCalls
<1>2. /\ s \o t \in Seq(Calls)
      /\ Len(s \o t) = Len(s) + Len(t)
      /\ \A i \in 1 .. Len(s) + Len(t) :
            (s \o t)[i] = IF i <= Len(s) THEN s[i] ELSE t[i - Len(s)]
  BY <1>1, ConcatProperties
<1>3. ASSUME NEW i \in 1 .. Len(s \o t)
      PROVE  \/ \E j \in 1 .. Len(s) : (s \o t)[i] = s[j]
             \/ \E j \in 1 .. Len(t) : (s \o t)[i] = t[j]
  <2>1. CASE i <= Len(s)
    BY <1>1, <1>2, <2>1
  <2>2. CASE ~(i <= Len(s))
    <3>1. i - Len(s) \in 1 .. Len(t)
      BY <1>1, <1>2, <2>2
    <3>. QED
      BY <1>1, <1>2, <2>2, <3>1
  <2>. QED
    BY <2>1, <2>2
<1>. QED
  BY <1>2, <1>3 DEF KeptCalls

(* The native methods that the application calls on a pointer it keeps.    *)
LEMMA KeptMethods ==
    ASSUME NEW h \in Holder
    PROVE  /\ \A path \in Path : KeptCalls(SetInputPath(h, path), h)
           /\ \A path \in Outputs : KeptCalls(SetOutputPath(h, path), h)
           /\ \A cmd \in Commands : KeptCalls(SetCmd(h, cmd), h)
           /\ KeptCalls(ExecuteCmd(h), h)
           /\ KeptCalls(<< >>, h)
           /\ KeptCalls(<< OnKept("sdkMain", h, NoArg) >>, h)
<1>1. ASSUME NEW api \in {"setInputImagePath", "setOutputImagePath", "setEffectCmd",
                          "swapEglBuffers", "onSdkDraw", "onSuccess", "sdkMain"},
             NEW arg \in Path \cup Commands \cup {NoArg}
      PROVE  /\ OnKept(api, h, arg) \in Calls
             /\ OnKept(api, h, arg).via = "kept" /\ OnKept(api, h, arg).who = h
             /\ OnKept(api, h, arg).api \notin Setup \cup {"freeSdkEnv"}
  BY DEF OnKept, Calls, ApiNames, Setup
<1>2. ASSUME NEW api \in {"setInputImagePath", "setOutputImagePath", "setEffectCmd",
                          "sdkMain"},
             NEW arg \in Path \cup Commands \cup {NoArg}
      PROVE  KeptCalls(<< OnKept(api, h, arg) >>, h)
  BY <1>1, KeptOne
<1>3. KeptCalls(ExecuteCmd(h), h)
  <2> DEFINE a == OnKept("swapEglBuffers", h, NoArg)
             b == OnKept("onSdkDraw", h, NoArg)
             d == OnKept("onSuccess", h, NoArg)
  <2>1. /\ a \in Calls /\ a.via = "kept" /\ a.who = h
        /\ a.api \notin Setup \cup {"freeSdkEnv"}
        /\ b \in Calls /\ b.via = "kept" /\ b.who = h
        /\ b.api \notin Setup \cup {"freeSdkEnv"}
        /\ d \in Calls /\ d.via = "kept" /\ d.who = h
        /\ d.api \notin Setup \cup {"freeSdkEnv"}
    BY <1>1
  <2>2. ExecuteCmd(h) = <<a, b, d>>
    BY DEF ExecuteCmd
  <2> HIDE DEF a, b, d
  <2>. QED
    BY <2>1, <2>2 DEF KeptCalls
<1>4. KeptCalls(<< >>, h)
  BY DEF KeptCalls
<1>. QED
  BY <1>2, <1>3, <1>4, OutputsAssumption DEF SetInputPath, SetOutputPath, SetCmd

LEMMA SetUpMethods ==
    ASSUME NEW h \in Holder
    PROVE  LocalCalls(InitSDK(h), h) /\ LocalCalls(InitRenderSDK(h), h)
<1>1. ASSUME NEW api \in Setup \cup ApiNames
      PROVE  /\ OnLocal(api, h) \in Calls /\ OnLocal(api, h).api = api
             /\ OnLocal(api, h).via = "local" /\ OnLocal(api, h).who = h
             /\ Allocates(OnLocal(api, h)) <=>
                   api \in {"newBlankSdkEnv", "newDefaultSdkEnv"}
  BY DEF OnLocal, Calls, Setup, Allocates
<1>2. /\ {"lookup", "newBlankSdkEnv", "check", "init", "return", "setPlatformData",
          "initSdkEnv", "setEglNativeWindow", "sdkMain"} \subseteq Setup \cup ApiNames
  BY DEF Setup, ApiNames
<1>3. LocalCalls(InitSDK(h), h)
  BY <1>1, <1>2 DEF LocalCalls, InitSDK
<1>4. LocalCalls(InitRenderSDK(h), h)
  BY <1>1, <1>2 DEF LocalCalls, InitRenderSDK
<1>. QED
  BY <1>3, <1>4

-----------------------------------------------------------------------------
(* A handler starts between two others: no call is pending, and the local  *)
(* variable is 0.                                                          *)
LEMMA BetweenHandlers ==
    ASSUME HostInv, todo = << >>
    PROVE  /\ Positions = {} /\ local = NoEnv
           /\ \A h \in Holder : ~FreePending(h)
  BY EmptySeq DEF HostInv, OneHolder, Positions, FreePending

LEMMA StartStep ==
    ASSUME HostInv, todo = << >>, UNCHANGED <<sdk, local, host>>,
           PointersTyped', Plan(todo'), KeptUsable',
           \A i \in Positions' : CallSafe(todo[i])',
           \A h \in Holder : ptr'[h] \in {ptr[h], NoEnv},
           host = "app" => \A h \in {Home, View} :
              Keeps(h) => ptr'[h] = ptr[h] /\ (Keeps(h)' \/ FreePending(h)')
    PROVE  HostInv'
<1>1. local = NoEnv /\ \A h \in Holder : ~FreePending(h)
  BY BetweenHandlers
<1>2. OneHolder'
  BY <1>1 DEF HostInv, OneHolder
<1>3. NoneLost'
  <2> SUFFICES ASSUME host = "app", NEW e \in Env,
                      sdk[e].life \in {"live", "dangling"}
               PROVE  \E h \in {Home, View} :
                         e = ptr'[h] /\ (Keeps(h)' \/ FreePending(h)')
    BY DEF NoneLost
  <2>1. PICK h \in {Home, View} : e = ptr[h] /\ (Keeps(h) \/ FreePending(h))
    BY <1>1 DEF HostInv, NoneLost
  <2>. QED
    BY <1>1, <2>1
<1>. QED
  BY <1>2, <1>3 DEF HostInv

(* A handler that only calls on a pointer that may be used, or calls       *)
(* nothing.                                                                *)
LEMMA StartKept ==
    ASSUME HostInv, todo = << >>, UNCHANGED <<sdk, local, ptr, host>>,
           PointersTyped', KeptUsable',
           NEW h \in Holder, KeptCalls(todo', h), todo' # << >> => Usable(h),
           host = "app" => \A g \in {Home, View} : Keeps(g) => Keeps(g)'
    PROVE  HostInv'
<1>1. Plan(todo')
  BY KeptPlan
<1>2. ASSUME NEW i \in Positions' PROVE CallSafe(todo[i])'
  <2>1. /\ todo'[i].via = "kept" /\ todo'[i].who = h
        /\ todo'[i].api \notin Setup \cup {"freeSdkEnv"}
    BY DEF KeptCalls, Positions
  <2>2. todo' # << >>
    BY EmptySeq DEF Positions
  <2>3. Usable(h)'
    BY <2>2 DEF Usable
  <2>. QED
    BY <2>1, <2>3 DEF CallSafe, Setup, Allocates, Usable
<1>. QED
  BY <1>1, <1>2, StartStep

(* A handler that sets up a new instance for a holder without one.         *)
LEMMA StartLocal ==
    ASSUME HostInv, todo = << >>, host = "app", UNCHANGED <<sdk, local, host>>,
           PointersTyped', NEW h \in {Home, View}, LocalCalls(todo', h),
           Unused(h) # {}, ~Keeps(h), Keeps(h)', ptr' = [ptr EXCEPT ![h] = NoEnv],
           \A g \in {Home, View} \ {h} : Keeps(g)' <=> Keeps(g)
    PROVE  HostInv'
<1>1. ptr \in [Holder -> Env \cup {NoEnv}] /\ h \in Holder /\ local = NoEnv
  BY BetweenHandlers DEF HostInv, PointersTyped
<1>2. ptr'[h] = NoEnv /\ \A g \in Holder \ {h} : ptr'[g] = ptr[g]
  BY <1>1
<1>3. Plan(todo')
  BY LocalPlan
<1>4. ASSUME NEW i \in Positions' PROVE CallSafe(todo[i])'
  <2>1. todo'[i].via = "local" /\ todo'[i].who = h /\ todo'[i].api # "freeSdkEnv"
    BY DEF LocalCalls, Positions
  <2>2. Unused(h)' # {}
    BY DEF Unused
  <2>3. Unused(todo[i].who)' # {} /\ Keeps(todo[i].who)'
    BY <2>1, <2>2 DEF Unused, Keeps
  <2>. QED
    BY <1>1, <1>2, <2>1, <2>3 DEF CallSafe, Allocates
<1>5. KeptUsable'
  <2>1. ASSUME NEW g \in {Home, View}, Keeps(g)' PROVE Usable(g)'
    BY <1>2, <2>1 DEF HostInv, KeptUsable, Usable
  <2>. QED
    BY <2>1 DEF KeptUsable
<1>6. \A g \in {Home, View} : Keeps(g) => ptr'[g] = ptr[g] /\ (Keeps(g)' \/ FreePending(g)')
  BY <1>2
<1>7. \A g \in Holder : ptr'[g] \in {ptr[g], NoEnv}
  BY <1>2
<1>. QED
  BY <1>3, <1>4, <1>5, <1>6, <1>7, StartStep

(* A handler that frees the instance the application has let go of.        *)
LEMMA StartFree ==
    ASSUME HostInv, todo = << >>, host = "app", UNCHANGED <<sdk, local, ptr, host>>,
           PointersTyped', NEW h \in {Home, View}, todo' = FreeSDK(h),
           Keeps(h), ~Keeps(h)',
           \A g \in {Home, View} \ {h} : Keeps(g)' <=> Keeps(g)
    PROVE  HostInv'
<1> DEFINE c == OnKept("freeSdkEnv", h, NoArg)
<1>1. /\ c.api = "freeSdkEnv" /\ c.via = "kept" /\ c.who = h /\ ~Allocates(c)
      /\ h \in Holder
  BY DEF OnKept, Allocates
<1>2. todo' = <<c>>
  BY DEF FreeSDK
<1> HIDE DEF c
<1>3. Len(todo') = 1 /\ todo'[1] = c /\ Positions' = {1}
  BY <1>2 DEF Positions
<1>4. Plan(todo')
  BY <1>1, <1>3 DEF Plan, Setup
<1>5. ASSUME NEW i \in Positions' PROVE CallSafe(todo[i])'
  <2>1. todo'[i] = c
    BY <1>3
  <2>2. Usable(h)
    BY DEF HostInv, KeptUsable
  <2>3. Usable(todo[i].who)' /\ ~Keeps(todo[i].who)'
    BY <1>1, <2>1, <2>2 DEF Usable, Keeps
  <2>. QED
    BY <1>1, <1>3, <2>1, <2>3 DEF CallSafe, Allocates
<1>6. KeptUsable'
  <2>1. ASSUME NEW g \in {Home, View}, Keeps(g)' PROVE Usable(g)'
    BY <2>1 DEF HostInv, KeptUsable, Usable
  <2>. QED
    BY <2>1 DEF KeptUsable
<1>7. FreePending(h)'
  BY <1>1, <1>3 DEF FreePending
<1>8. \A g \in {Home, View} : Keeps(g) => ptr'[g] = ptr[g] /\ (Keeps(g)' \/ FreePending(g)')
  BY <1>7
<1>. QED
  BY <1>4, <1>5, <1>6, <1>8, StartStep

-----------------------------------------------------------------------------
(* The events of the application.                                          *)
LEMMA AppEvents ==
    ASSUME HostInv, AppStep
    PROVE  HostInv'
<1>1. /\ host = "app" /\ todo = << >> /\ AppEvent
      /\ UNCHANGED <<sdk, local, activity, argv, host>>
  BY DEF AppStep, Idle, vars, glueVars
<1>2. /\ PointersTyped /\ ptr \in [Holder -> Env \cup {NoEnv}]
      /\ \A h \in {Home, View} : Keeps(h) => Usable(h)
  BY <1>1 DEF HostInv, PointersTyped, KeptUsable
<1>3. /\ Keeps(Home) <=> home.state # "absent"
      /\ Keeps(View) <=> render.surface
      /\ Keeps(Home)' <=> home'.state # "absent"
      /\ Keeps(View)' <=> render'.surface
  BY DEF Keeps
<1>4. ASSUME todo' \in Seq(Calls), ptr' \in [Holder -> Env \cup {NoEnv}],
             render'.surface => render'.state # "absent",
             render'.state # "absent" => render'.path \in Path,
             home' \in HomeRecord, render' \in RenderRecord
      PROVE  PointersTyped'
  BY <1>1, <1>2, <1>4 DEF PointersTyped
(* Handlers that leave the pointers alone.                                 *)
<1>5. ASSUME UNCHANGED ptr, NEW h \in {Home, View}, KeptCalls(todo', h),
             todo' # << >> => Keeps(h),
             render'.surface => render'.state # "absent",
             render'.state # "absent" => render'.path \in Path,
             home' \in HomeRecord, render' \in RenderRecord,
             \A g \in {Home, View} : Keeps(g)' <=> Keeps(g)
      PROVE  HostInv'
  <2>1. KeptUsable'
    <3>1. \A g \in {Home, View} : Usable(g)' <=> Usable(g)
      BY <1>1, <1>5 DEF Usable
    <3>. QED
      BY <1>1, <1>2, <1>5, <3>1 DEF KeptUsable
  <2>2. todo' # << >> => Usable(h)
    BY <1>2, <1>5
  <2>3. PointersTyped'
    BY <1>2, <1>4, <1>5 DEF KeptCalls
  <2>4. h \in Holder
    OBVIOUS
  <2>. QED
    BY <1>1, <1>5, <2>1, <2>2, <2>3, <2>4, StartKept
<1>6. KeptCalls(<< >>, Home) /\ KeptCalls(<< >>, View)
  BY KeptMethods
<1>7. /\ render.surface => render.state # "absent"
      /\ render.state # "absent" => render.path \in Path
      /\ home \in HomeRecord /\ render \in RenderRecord
  BY <1>2 DEF PointersTyped
<1>8. NoHome \in HomeRecord /\ NoRender \in RenderRecord
  BY DEF NoHome, HomeRecord, NoRender, RenderRecord
<1>9. CASE HomeCreate
  <2>1. /\ home.state = "absent" /\ InstanceLeft(Home)
        /\ home' = [state |-> "front", path |-> NoPath]
        /\ ptr' = [ptr EXCEPT ![Home] = NoEnv] /\ todo' = InitSDK(Home)
        /\ render' = render
    BY <1>9 DEF HomeCreate, Start
  <2>2. LocalCalls(todo', Home) /\ todo' \in Seq(Calls) /\ Unused(Home) # {}
    BY <2>1, SetUpMethods DEF LocalCalls, InstanceLeft
  <2>3. ptr' \in [Holder -> Env \cup {NoEnv}] /\ home' \in HomeRecord
    BY <1>2, <2>1 DEF HomeRecord
  <2>4. PointersTyped'
    BY <1>4, <1>7, <2>1, <2>2, <2>3
  <2>. QED
    BY <1>1, <1>3, <2>1, <2>2, <2>4, StartLocal
<1>10. CASE HomeDestroy
  <2>1. /\ home.state # "absent" /\ home' = NoHome /\ todo' = FreeSDK(Home)
        /\ UNCHANGED <<render, ptr>>
    BY <1>10 DEF HomeDestroy, Start
  <2>2. todo' \in Seq(Calls)
    BY <2>1 DEF FreeSDK, OnKept, Calls, ApiNames
  <2>3. PointersTyped'
    BY <1>2, <1>4, <1>7, <1>8, <2>1, <2>2
  <2>. QED
    BY <1>1, <1>3, <2>1, <2>3, StartFree DEF NoHome
<1>11. ASSUME NEW path \in Path, HomePick(path) PROVE HostInv'
  <2>1. /\ home' = [home EXCEPT !.path = path] /\ UNCHANGED <<todo, render, ptr>>
    BY <1>11 DEF HomePick
  <2>2. home' \in HomeRecord /\ home'.state = home.state
    BY <1>7, <2>1 DEF HomeRecord
  <2>. QED
    BY <1>1, <1>3, <1>5, <1>6, <1>7, <2>1, <2>2
<1>12. CASE HomeLoad
  <2>1. PICK output \in Outputs :
          todo' = SetInputPath(Home, home.path) \o SetOutputPath(Home, output)
                    \o SetCmd(Home, RotateCmd) \o ExecuteCmd(Home)
    BY <1>12 DEF HomeLoad, Start
  <2>2. /\ home.state # "absent" /\ home.path \in Path
        /\ UNCHANGED <<home, render, ptr>>
    BY <1>7, <1>12 DEF HomeLoad, HomeRecord
  <2>3. /\ KeptCalls(SetInputPath(Home, home.path), Home)
        /\ KeptCalls(SetOutputPath(Home, output), Home)
        /\ KeptCalls(SetCmd(Home, RotateCmd), Home)
        /\ KeptCalls(ExecuteCmd(Home), Home)
    BY <2>2, KeptMethods, AppCommandsAssumption
  <2>4. KeptCalls(todo', Home)
    BY <2>1, <2>3, KeptJoin, Zenon
  <2>. QED
    BY <1>3, <1>5, <1>7, <2>2, <2>4
<1>13. CASE HomeGo
  <2>1. /\ home.state = "front" /\ home.path \in Path /\ render.state = "absent"
        /\ home' = [home EXCEPT !.state = "behind"]
        /\ render' = [NoRender EXCEPT !.state = "front", !.path = home.path]
        /\ UNCHANGED <<todo, ptr>>
    BY <1>7, <1>13 DEF HomeGo, HomeRecord
  <2>2. home' \in HomeRecord /\ home'.state # "absent"
    BY <1>7, <2>1 DEF HomeRecord
  <2>3. /\ render' \in RenderRecord /\ ~render'.surface
        /\ render'.state = "front" /\ render'.path \in Path
    BY <2>1 DEF NoRender, RenderRecord
  <2>4. ~render.surface
    BY <1>7, <2>1
  <2>. QED
    BY <1>1, <1>3, <1>5, <1>6, <2>1, <2>2, <2>3, <2>4
<1>14. CASE SurfaceCreated
  <2>1. /\ render.state = "front" /\ ~render.surface /\ InstanceLeft(View)
        /\ render' = [render EXCEPT !.surface = TRUE]
        /\ ptr' = [ptr EXCEPT ![View] = NoEnv] /\ todo' = InitRenderSDK(View)
        /\ home' = home
    BY <1>14 DEF SurfaceCreated, Start
  <2>2. LocalCalls(todo', View) /\ todo' \in Seq(Calls) /\ Unused(View) # {}
    BY <2>1, SetUpMethods DEF LocalCalls, InstanceLeft
  <2>3. /\ ptr' \in [Holder -> Env \cup {NoEnv}]
        /\ render' \in RenderRecord /\ render'.surface
        /\ render'.state = "front" /\ render'.path = render.path
    BY <1>2, <1>7, <2>1 DEF RenderRecord
  <2>4. PointersTyped'
    BY <1>4, <1>7, <2>1, <2>2, <2>3
  <2>. QED
    BY <1>1, <1>3, <2>1, <2>2, <2>3, <2>4, StartLocal
<1>15. CASE SurfaceDestroyed
  <2>1. /\ render.surface /\ render' = [render EXCEPT !.surface = FALSE]
        /\ todo' = FreeSDK(View) /\ UNCHANGED <<home, ptr>>
    BY <1>15 DEF SurfaceDestroyed, Start
  <2>2. todo' \in Seq(Calls)
    BY <2>1 DEF FreeSDK, OnKept, Calls, ApiNames
  <2>3. /\ render' \in RenderRecord /\ ~render'.surface
        /\ render'.state = render.state /\ render'.path = render.path
    BY <1>7, <2>1 DEF RenderRecord
  <2>4. PointersTyped'
    BY <1>2, <1>4, <1>7, <2>1, <2>2, <2>3
  <2>. QED
    BY <1>1, <1>3, <2>1, <2>3, <2>4, StartFree
<1>16. CASE RenderClick
  <2> DEFINE paths(output) ==
        SetInputPath(View, render.path) \o SetOutputPath(View, output)
  <2>1. PICK output \in Outputs :
          todo' = (IF render.given THEN << >> ELSE paths(output))
                    \o SetCmd(View, NormalCmd) \o ExecuteCmd(View)
    BY <1>16 DEF RenderClick, Start
  <2>2. /\ render.state = "front" /\ render.surface /\ render.path \in Path
        /\ render' = [render EXCEPT !.given = TRUE]
        /\ UNCHANGED <<home, ptr>>
    BY <1>7, <1>16 DEF RenderClick
  <2>3. /\ KeptCalls(SetInputPath(View, render.path), View)
        /\ KeptCalls(SetOutputPath(View, output), View)
        /\ KeptCalls(SetCmd(View, NormalCmd), View)
        /\ KeptCalls(ExecuteCmd(View), View)
    BY <2>2, KeptMethods, AppCommandsAssumption
  <2>4. KeptCalls(paths(output), View)
    BY <2>3, KeptJoin, Zenon
  <2>5. KeptCalls(IF render.given THEN << >> ELSE paths(output), View)
    BY <1>6, <2>4
  <2>6. KeptCalls(todo', View)
    BY <2>1, <2>3, <2>5, KeptJoin, Zenon
  <2>7. /\ render' \in RenderRecord /\ render'.surface
        /\ render'.state = render.state /\ render'.path = render.path
    BY <1>7, <2>2 DEF RenderRecord
  <2>. QED
    BY <1>3, <1>5, <1>7, <2>2, <2>6, <2>7
<1>17. ASSUME NEW state \in {"front", "stopped", "leaving"}, render.state # "absent",
              render' = [render EXCEPT !.state = state],
              home' \in HomeRecord, home'.state # "absent" <=> home.state # "absent",
              UNCHANGED <<todo, ptr>>
       PROVE  HostInv'
  <2>1. /\ render' \in RenderRecord /\ render'.surface = render.surface
        /\ render'.state = state /\ render'.path = render.path
    BY <1>7, <1>17 DEF RenderRecord
  <2>. QED
    BY <1>1, <1>3, <1>5, <1>6, <1>7, <1>17, <2>1
<1>18. CASE RenderStop \/ RenderRestart
  BY <1>7, <1>17, <1>18 DEF RenderStop, RenderRestart
<1>19. CASE RenderBack
  <2>1. home' \in HomeRecord /\ (home'.state # "absent" <=> home.state # "absent")
    BY <1>7, <1>19 DEF RenderBack, HomeRecord
  <2>. QED
    BY <1>17, <1>19, <2>1 DEF RenderBack
<1>20. CASE RenderRotate
  <2>1. /\ render.state = "stopped" /\ ~render.surface /\ render.path \in Path
        /\ render' = [NoRender EXCEPT !.state = "front", !.path = render.path]
        /\ UNCHANGED <<todo, home, ptr>>
    BY <1>7, <1>20 DEF RenderRotate
  <2>2. /\ render' \in RenderRecord /\ ~render'.surface
        /\ render'.state = "front" /\ render'.path \in Path
    BY <2>1 DEF NoRender, RenderRecord
  <2>. QED
    BY <1>1, <1>3, <1>5, <1>6, <1>7, <2>1, <2>2
<1>21. CASE RenderDestroyed
  <2>1. /\ ~render.surface /\ render' = NoRender /\ UNCHANGED <<todo, home, ptr>>
    BY <1>21 DEF RenderDestroyed
  <2>2. render'.state = "absent" /\ ~render'.surface
    BY <2>1 DEF NoRender
  <2>. QED
    BY <1>1, <1>3, <1>5, <1>6, <1>7, <1>8, <2>1, <2>2
<1>. QED
  BY <1>1, <1>9, <1>10, <1>11, <1>12, <1>13, <1>14, <1>15, <1>16, <1>18, <1>19,
     <1>20, <1>21 DEF AppEvent

-----------------------------------------------------------------------------
(* The native activity.                                                    *)
LEMMA GlueEvents ==
    ASSUME HostInv, GlueStep
    PROVE  HostInv'
<1>1. /\ host = "glue" /\ todo = << >> /\ GlueEvent
      /\ UNCHANGED <<sdk, local, ptr, home, render, host>>
  BY DEF GlueStep, Idle, vars, appVars
<1>2. /\ PointersTyped
      /\ activity # NoApp => Usable(activity)
      /\ activity \in Glue \cup {NoApp} /\ local = NoEnv
  BY <1>1, BetweenHandlers DEF HostInv, PointersTyped, KeptUsable
<1>3. ASSUME NEW h \in Holder, KeptCalls(todo', h), todo' # << >> => Usable(h),
             activity' \in {activity, NoApp}
      PROVE  HostInv'
  <2>1. PointersTyped'
    BY <1>1, <1>2, <1>3 DEF PointersTyped, KeptCalls
  <2>2. KeptUsable'
    BY <1>1, <1>2, <1>3 DEF KeptUsable, Usable
  <2>. QED
    BY <1>1, <1>3, <2>1, <2>2, StartKept
<1>4. /\ KeptCalls(<< >>, Main)
      /\ activity # NoApp => activity \in Holder
  BY <1>2, KeptMethods
<1>5. ASSUME NEW app \in Glue, AndroidMain(app) PROVE HostInv'
  <2> DEFINE a == OnLocal("newBlankSdkEnv", app)
             b == OnLocal("setPlatformData", app)
             c == OnLocal("return", app)
             d == OnKept("sdkMain", app, NoArg)
  <2>1. /\ ptr[app] = NoEnv /\ Unused(app) # {} /\ activity' = app
        /\ todo' = <<a, b, c, d>>
    BY <1>5 DEF AndroidMain, InstanceLeft
  <2>2. /\ a \in Calls /\ a.via = "local" /\ a.who = app /\ a.api = "newBlankSdkEnv"
        /\ b \in Calls /\ b.via = "local" /\ b.who = app /\ b.api = "setPlatformData"
        /\ c \in Calls /\ c.via = "local" /\ c.who = app /\ c.api = "return"
        /\ d \in Calls /\ d.via = "kept" /\ d.who = app /\ d.api = "sdkMain"
    BY DEF OnLocal, OnKept, Calls, ApiNames
  <2> HIDE DEF a, b, c, d
  <2>3. /\ todo' \in Seq(Calls) /\ Len(todo') = 4
        /\ todo'[1] = a /\ todo'[2] = b /\ todo'[3] = c /\ todo'[4] = d
    BY <2>1, <2>2
  <2>4. Plan(todo')
    <3>1. \A i \in 1 .. 4 :
             /\ todo'[i].api = "return" <=> i = 3
             /\ todo'[i].via = "local" <=> i < 4
             /\ Allocates(todo'[i]) <=> i = 1
             /\ todo'[i].api \notin {"lookup", "freeSdkEnv"}
             /\ todo'[i].api \in Setup => i # 4
      BY <2>2, <2>3 DEF Allocates, Setup
    <3>. QED
      BY <2>3, <3>1 DEF Plan
  <2>5. PointersTyped'
    BY <1>1, <1>2, <2>1, <2>3 DEF PointersTyped
  <2>6. KeptUsable'
    BY <1>1, <2>1 DEF KeptUsable, Usable
  <2>7. Unused(app)' # {} /\ Usable(app)'
    BY <1>1, <2>1 DEF Unused, Usable
  <2>8. ASSUME NEW i \in Positions' PROVE CallSafe(todo[i])'
    <3>1. /\ todo'[i].who = app /\ todo'[i].via \in {"local", "kept"}
          /\ todo'[i].api \notin {"freeSdkEnv", "lookup"}
      BY <2>2, <2>3 DEF Positions
    <3>2. Unused(todo[i].who)' # {} /\ Usable(todo[i].who)'
      BY <2>7, <3>1 DEF Unused, Usable
    <3>. QED
      BY <1>1, <1>2, <2>1, <3>1, <3>2 DEF CallSafe
  <2>. QED
    BY <1>1, <2>4, <2>5, <2>6, <2>8, StartStep
<1>6. CASE InitWindow
  <2> DEFINE a == OnKept("setEglNativeWindow", activity, NoArg)
             b == OnKept("initSdkEnv", activity, NoArg)
             c == OnKept("sdkMain", activity, NoArg)
  <2>1. activity # NoApp /\ activity' = activity /\ todo' = <<a, b, c>>
    BY <1>6 DEF InitWindow
  <2>2. /\ a \in Calls /\ a.via = "kept" /\ a.who = activity
        /\ a.api \notin Setup \cup {"freeSdkEnv"}
        /\ b \in Calls /\ b.via = "kept" /\ b.who = activity
        /\ b.api \notin Setup \cup {"freeSdkEnv"}
        /\ c \in Calls /\ c.via = "kept" /\ c.who = activity
        /\ c.api \notin Setup \cup {"freeSdkEnv"}
    BY <1>4, <2>1 DEF OnKept, Calls, ApiNames, Setup
  <2> HIDE DEF a, b, c
  <2>3. KeptCalls(todo', activity)
    BY <2>1, <2>2 DEF KeptCalls
  <2>. QED
    BY <1>2, <1>3, <1>4, <2>1, <2>3
<1>7. CASE TermWindow
  BY <1>1, <1>3, <1>4, <1>7 DEF TermWindow
<1>8. CASE GainedFocus
  <2> DEFINE a == OnKept("swapEglBuffers", activity, NoArg)
  <2>1. activity # NoApp /\ activity' = activity /\ todo' = <<a>>
    BY <1>8 DEF GainedFocus
  <2>2. /\ a \in Calls /\ a.via = "kept" /\ a.who = activity
        /\ a.api \notin Setup \cup {"freeSdkEnv"}
    BY <1>4, <2>1 DEF OnKept, Calls, ApiNames, Setup
  <2> HIDE DEF a
  <2>3. KeptCalls(todo', activity)
    BY <2>1, <2>2 DEF KeptCalls
  <2>. QED
    BY <1>2, <1>3, <1>4, <2>1, <2>3
<1>9. CASE DestroyRequested
  BY <1>1, <1>3, <1>4, <1>9 DEF DestroyRequested
<1>. QED
  BY <1>1, <1>5, <1>6, <1>7, <1>8, <1>9 DEF GlueEvent

(* What main has to do until it frees its instance: the first two calls set *)
(* it up, the others use it.                                               *)
Opening(s) ==
    /\ s \in Seq(Calls) /\ Len(s) >= 2
    /\ s[1].api = "newDefaultSdkEnv" /\ s[2].api = "return"
    /\ \A i \in 1 .. Len(s) :
          /\ s[i].who = Main
          /\ i <= 2 => s[i].via = "local"
          /\ i > 2 => /\ s[i].via = "kept"
                      /\ s[i].api \notin Setup \cup {"freeSdkEnv"}

LEMMA OpeningGoesOn ==
    ASSUME NEW s, Opening(s), NEW t, KeptCalls(t, Main)
    PROVE  Opening(s \o t)
<1>1. /\ s \in Seq(Calls) /\ t \in Seq(Calls)
      /\ Len(s) \in Nat /\ Len(t) \in Nat /\ Len(s) >= 2
  BY LenProperties DEF Opening, KeptCalls
<1>2. /\ s \o t \in Seq(Calls)
      /\ Len(s \o t) = Len(s) + Len(t)
      /\ \A i \in 1 .. Len(s) + Len(t) :
            (s \o t)[i] = IF i <= Len(s) THEN s[i] ELSE t[i - Len(s)]
  BY <1>1, ConcatProperties
<1>3. (s \o t)[1] = s[1] /\ (s \o t)[2] = s[2]
  BY <1>1, <1>2
<1>4. ASSUME NEW i \in 1 .. Len(s \o t)
      PROVE  /\ (s \o t)[i].who = Main
             /\ i <= 2 => (s \o t)[i].via = "local"
             /\ i > 2 => /\ (s \o t)[i].via = "kept"
                         /\ (s \o t)[i].api \notin Setup \cup {"freeSdkEnv"}
  <2>1. CASE i <= Len(s)
    BY <1>1, <1>2, <2>1 DEF Opening
  <2>2. CASE ~(i <= Len(s))
    <3>1. i - Len(s) \in 1 .. Len(t) /\ i > 2
      BY <1>1, <1>2, <2>2
    <3>. QED
      BY <1>1, <1>2, <2>2, <3>1 DEF KeptCalls
  <2>. QED
    BY <2>1, <2>2
<1>. QED
  BY <1>1, <1>2, <1>3, <1>4 DEF Opening

(* The console program: its one handler sets up, uses and frees.           *)
LEMMA ConsoleEvents ==
    ASSUME HostInv, ConsoleStep
    PROVE  HostInv'
<1>1. PICK input \in Path, output \in Outputs : RunMain(input, output)
  BY DEF ConsoleStep, ConsoleEvent
<1>2. /\ host = "console" /\ todo = << >> /\ argv = << >>
      /\ argv' = <<input, output>> /\ Unused(Main) # {}
      /\ todo' = MainCalls(input, output)
      /\ UNCHANGED <<sdk, local, ptr, home, render, activity, host>>
  BY <1>1 DEF ConsoleStep, RunMain, InstanceLeft, Idle, vars, appVars
<1>3. PointersTyped /\ ptr[Main] = NoEnv /\ local = NoEnv
  BY <1>2, BetweenHandlers DEF HostInv, KeptUsable
<1> DEFINE a == OnLocal("newDefaultSdkEnv", Main)
           b == OnLocal("return", Main)
           m == OnKept("sdkMain", Main, NoArg)
           d == OnKept("onSdkDraw", Main, NoArg)
           v == OnKept("saveImage", Main, output)
           f == OnKept("freeSdkEnv", Main, NoArg)
           setup == <<a, b>>
           paths == SetInputPath(Main, input) \o SetOutputPath(Main, output)
<1>4. /\ a \in Calls /\ a.via = "local" /\ a.who = Main /\ a.api = "newDefaultSdkEnv"
      /\ b \in Calls /\ b.via = "local" /\ b.who = Main /\ b.api = "return"
      /\ f \in Calls /\ f.via = "kept" /\ f.who = Main /\ f.api = "freeSdkEnv"
  BY DEF OnLocal, OnKept, Calls, ApiNames
<1>5. /\ m \in Calls /\ m.via = "kept" /\ m.who = Main
      /\ m.api \notin Setup \cup {"freeSdkEnv"}
      /\ d \in Calls /\ d.via = "kept" /\ d.who = Main
      /\ d.api \notin Setup \cup {"freeSdkEnv"}
      /\ v \in Calls /\ v.via = "kept" /\ v.who = Main
      /\ v.api \notin Setup \cup {"freeSdkEnv"}
  BY OutputsAssumption DEF OnKept, Calls, ApiNames, Setup
<1> DEFINE cmd == SetCmd(Main, ConsoleCmd)
           in == SetInputPath(Main, input)
           out == SetOutputPath(Main, output)
<1>6. /\ KeptCalls(in, Main) /\ KeptCalls(out, Main) /\ KeptCalls(cmd, Main)
      /\ KeptCalls(<<m>>, Main) /\ KeptCalls(<<d>>, Main) /\ KeptCalls(<<v>>, Main)
  BY <1>5, KeptMethods, KeptOne
<1>7. todo' = setup \o in \o out \o <<m>> \o cmd \o <<d>> \o <<v>> \o <<f>>
  BY <1>2 DEF MainCalls, FreeSDK
<1> HIDE DEF a, b, m, d, v, f, cmd, in, out
<1>8. /\ setup \in Seq(Calls) /\ Len(setup) = 2 /\ setup[1] = a /\ setup[2] = b
      /\ <<f>> \in Seq(Calls) /\ Len(<<f>>) = 1 /\ <<f>>[1] = f
  BY <1>4
<1>9. Opening(setup)
  BY <1>4, <1>8 DEF Opening
<1> HIDE DEF setup
<1> DEFINE before == setup \o in \o out \o <<m>> \o cmd \o <<d>> \o <<v>>
<1>10. Opening(before) /\ todo' = before \o <<f>>
  BY <1>6, <1>7, <1>9, OpeningGoesOn
<1> HIDE DEF before
<1>11. /\ before \in Seq(Calls) /\ Len(before) \in Nat /\ Len(before) >= 2
       /\ before[1].api = "newDefaultSdkEnv" /\ before[2].api = "return"
       /\ \A i \in 1 .. Len(before) :
             /\ before[i].who = Main
             /\ i <= 2 => before[i].via = "local"
             /\ i > 2 => /\ before[i].via = "kept"
                         /\ before[i].api \notin Setup \cup {"freeSdkEnv"}
  BY <1>10, LenProperties DEF Opening
<1>12. /\ todo' \in Seq(Calls) /\ Len(todo') = Len(before) + 1
       /\ todo'[Len(before) + 1] = f
       /\ \A i \in 1 .. Len(before) : todo'[i] = before[i]
  <2>1. /\ before \o <<f>> \in Seq(Calls)
        /\ Len(before \o <<f>>) = Len(before) + 1
        /\ \A i \in 1 .. Len(before) + 1 :
              (before \o <<f>>)[i] = IF i <= Len(before) THEN before[i]
                                     ELSE <<f>>[i - Len(before)]
    BY <1>8, <1>11, ConcatProperties
  <2>. QED
    BY <1>8, <1>10, <1>11, <2>1
<1>13. ASSUME NEW i \in 1 .. Len(todo')
       PROVE  /\ todo'[i].who = Main /\ todo'[i].via \in {"local", "kept"}
              /\ todo'[i].via = "local" <=> i <= 2
              /\ Allocates(todo'[i]) <=> i = 1
              /\ todo'[i].api = "return" <=> i = 2
              /\ todo'[i].api = "freeSdkEnv" <=> i = Len(todo')
              /\ todo'[i].api # "lookup"
              /\ todo'[i].api \in Setup => i <= 2
  <2>1. CASE i = Len(before) + 1
    BY <1>4, <1>11, <1>12, <2>1 DEF Allocates, Setup
  <2>2. CASE i \in 1 .. Len(before) /\ i <= 2
    <3>1. i = 1 \/ i = 2
      BY <2>2
    <3>. QED
      BY <1>11, <1>12, <2>2, <3>1 DEF Allocates
  <2>3. CASE i \in 1 .. Len(before) /\ i > 2
    BY <1>11, <1>12, <2>3 DEF Allocates, Setup
  <2>. QED
    BY <1>11, <1>12, <2>1, <2>2, <2>3
<1>14. Plan(todo')
  <2>1. 2 \in 1 .. Len(todo') /\ Len(todo') \in Nat
    BY <1>11, <1>12
  <2>. QED
    BY <1>13, <2>1 DEF Plan
<1>15. PointersTyped'
  BY <1>2, <1>3, <1>12 DEF PointersTyped
<1>16. KeptUsable'
  BY <1>2 DEF KeptUsable
<1>17. ASSUME NEW i \in Positions' PROVE CallSafe(todo[i])'
  <2>1. i \in 1 .. Len(todo')
    BY DEF Positions
  <2>2. Unused(Main)' # {} /\ Usable(Main)'
    BY <1>2, <1>3 DEF Unused, Usable
  <2>3. Unused(todo[i].who)' # {} /\ Usable(todo[i].who)'
    BY <1>13, <2>1, <2>2 DEF Unused, Usable
  <2>. QED
    BY <1>2, <1>3, <1>13, <2>1, <2>3 DEF CallSafe
<1>. QED
  BY <1>2, <1>14, <1>15, <1>16, <1>17, StartStep

-----------------------------------------------------------------------------
LEMMA HostInitially == HostInit => HostInv
<1> SUFFICES ASSUME HostInit PROVE HostInv
  OBVIOUS
<1>1. /\ todo = << >> /\ local = NoEnv /\ ptr = [h \in Holder |-> NoEnv]
      /\ sdk = [e \in Env |-> BlankSdk] /\ home = NoHome /\ render = NoRender
      /\ activity = NoApp /\ host \in {"app", "glue", "console"}
  BY HostsAssumption DEF HostInit, Init, CallsInit, AppInit, GlueInit
<1>2. BlankSdk \in SdkRecord /\ BlankSdk.life = "none"
  BY DEF BlankSdk, SdkRecord
<1>3. NoHome \in HomeRecord /\ NoRender \in RenderRecord
  BY DEF NoHome, HomeRecord, NoRender, RenderRecord
<1>4. NoHome.state = "absent" /\ NoRender.state = "absent" /\ ~NoRender.surface
  BY DEF NoHome, NoRender
<1>5. Positions = {} /\ Plan(todo) /\ todo \in Seq(Calls)
  BY <1>1, EmptySeq DEF Positions, Plan
<1>6. PointersTyped
  BY <1>1, <1>2, <1>3, <1>4, <1>5 DEF PointersTyped
<1>7. OneHolder
  BY <1>1 DEF OneHolder
<1>8. KeptUsable
  BY <1>1 DEF KeptUsable, Usable
<1>9. NoneLost
  BY <1>1, <1>2 DEF NoneLost
<1>. QED
  BY <1>5, <1>6, <1>7, <1>8, <1>9 DEF HostInv

LEMMA HostStep == HostInv /\ [HostNext]_hostVars => HostInv'
<1> SUFFICES ASSUME HostInv, [HostNext]_hostVars PROVE HostInv'
  OBVIOUS
<1>1. CASE UNCHANGED hostVars
  BY <1>1 DEF hostVars, vars, callVars, appVars, glueVars, HostInv, PointersTyped,
     Positions, CallSafe, Usable, Keeps, Unused, OneHolder, KeptUsable, NoneLost,
     FreePending
<1>. QED
  BY <1>1, CallStep, AppEvents, GlueEvents, ConsoleEvents DEF HostNext

(* No call of the JNI bridge, the native activity or the console program   *)
(* reaches an instance after its freeSdkEnv, whatever fails and whatever   *)
(* the platform does: the pointers ImageSdk keeps after onDestroy          *)
(* (ImageSdk.java:45) are never handed to the SDK again.                   *)
THEOREM HandlesAlwaysLive == HostSpec => []HandlesAreLive
<1>1. HostInv => HandlesAreLive
  <2> SUFFICES ASSUME HostInv, todo # << >>, Subject(todo[1]) # NoEnv
               PROVE  sdk[Subject(todo[1])].life # "freed"
    BY FirstCall DEF HandlesAreLive, HostInv
  <2>1. CallSafe(todo[1]) /\ todo[1] \in Calls
    BY FirstCall DEF HostInv
  <2>2. CASE todo[1].via = "local"
    BY <2>2 DEF Subject, HostInv, OneHolder
  <2>3. CASE todo[1].via = "kept"
    BY <2>1, <2>3 DEF Subject, CallSafe, Usable
  <2>. QED
    BY <2>1, <2>2, <2>3 DEF Calls
<1>. QED
  BY <1>1, HostInitially, HostStep, PTL DEF HostSpec

(* The application can free every instance it has allocated, after every   *)
(* failure of initSDK and initRenderSDK and whatever happens to its        *)
(* activities (NativeImageSdk.c:57-61).                                    *)
THEOREM NeverOrphaned == HostSpec => []NoOrphans
<1>1. HostInv => NoOrphans
  <2> SUFFICES ASSUME HostInv, host = "app", Idle, NEW e \in Env,
                      sdk[e].life \in {"live", "dangling"}
               PROVE  e \in Reachable
    BY DEF NoOrphans
  <2>1. local = NoEnv /\ ~FreePending(Home) /\ ~FreePending(View)
    BY BetweenHandlers DEF Idle
  <2>2. PICK h \in {Home, View} : e = ptr[h] /\ (Keeps(h) \/ FreePending(h))
    BY <2>1 DEF HostInv, NoneLost
  <2>. QED
    BY <2>1, <2>2 DEF Reachable, Keeps
<1>. QED
  BY <1>1, HostInitially, HostStep, PTL DEF HostSpec
-----------------------------------------------------------------------------
(* The application and main, unlike the native activity, initialise each   *)
(* instance once: what they do to the SDK is what SdkEnv lets a client do, *)
(* but for a call on an instance that initSdkEnv has freed.                *)

(* A call has an argument of its own kind.                                 *)
Fits(c) ==
    /\ c.api = "setInputImagePath" => c.arg \in Path
    /\ c.api = "setOutputImagePath" => c.arg \in Outputs
    /\ c.api = "setEffectCmd" => c.arg \in Commands

(* A handler initialises one instance at most, a new one.                  *)
InitOnce(s) ==
    \A i \in 1 .. Len(s) :
       /\ Fits(s[i])
       /\ s[i].api = "initSdkEnv" =>
             /\ s[i].via = "local"
             /\ \A j \in 1 .. Len(s) :
                   /\ s[j].api # "newDefaultSdkEnv"
                   /\ s[j].api = "initSdkEnv" => j = i

FreshLocal ==
    \A i \in Positions :
       todo[i].api = "initSdkEnv" /\ local # NoEnv => sdk[local].ret = "none"

(* The return of newBlankSdkEnv is tested before that of initSdkEnv.       *)
CheckedFirst ==
    \A i \in Positions :
       todo[i].api = "init" =>
          local # NoEnv \/ \E j \in Positions : j < i /\ todo[j].api = "check"

ClientInv ==
    /\ InputInv
    /\ ContextInv
    /\ InitOnce(todo)
    /\ FreshLocal
    /\ CheckedFirst

(* What SdkEnv's invariant says of an instance does not depend on proc.    *)
LEMMA ProcessMoves ==
    ASSUME InputInv, ContextInv, UNCHANGED <<sdk, egl, user, effect, glVars>>,
           proc' \in {"running", "crashed", "exited", "spinning"}
    PROVE  InputInv' /\ ContextInv'
<1>1. InputInv'
  BY DEF InputInv, TypeOK, ActivePathIsSet, ReuseIsCurrentInput, glVars
<1>2. ContextInv'
  BY ContextsQuiet DEF glVars, InputInv, ContextInv, UnusedIsFresh
<1>. QED
  BY <1>1, <1>2

LEMMA ClientMoves ==
    ASSUME InputInv, ContextInv, StepOnce
    PROVE  InputInv' /\ ContextInv'
<1>1. ASSUME NEW e \in Env, sdk[e].ret = "none", InitSdkEnv(e) PROVE Next
  BY <1>1 DEF Next, Lifecycle
<1>2. [Next]_vars
  BY <1>1 DEF StepOnce, CallOnce, Next, Lifecycle
<1>. QED
  BY <1>2, InputStep, ContextStepOnce DEF InputInv

(* The return of the last initialisation stays as it is or is forgotten,   *)
(* except by initSdkEnv and newDefaultSdkEnv.                              *)
RetKept == \A e \in Env : sdk'[e].ret \in {sdk[e].ret, "none"}

LEMMA RetUntouched ==
    ASSUME NEW r \in SdkRecord
    PROVE  /\ [r EXCEPT !.window = TRUE].ret = r.ret
           /\ [r EXCEPT !.assets = TRUE].ret = r.ret
           /\ [r EXCEPT !.hooks = TRUE].ret = r.ret
           /\ [r EXCEPT !.cmd = "text"].ret = r.ret
           /\ [r EXCEPT !.life = "live"].ret = r.ret
           /\ [r EXCEPT !.life = "freed"].ret = r.ret
           /\ [BlankSdk EXCEPT !.life = "freed"].ret = "none"
  BY DEF SdkRecord, BlankSdk

LEMMA ApiKeepsRet ==
    ASSUME sdk \in [Env -> SdkRecord], NEW c \in Calls, NEW e \in Env,
           Api(c, e), c.api # "initSdkEnv"
    PROVE  RetKept
<1>1. CASE UNCHANGED sdk
  BY <1>1 DEF RetKept
<1>2. CASE sdk' = [sdk EXCEPT ![e].window = TRUE]
  BY <1>2, RetUntouched DEF RetKept
<1>3. CASE sdk' = [sdk EXCEPT ![e].assets = TRUE]
  BY <1>3, RetUntouched DEF RetKept
<1>4. CASE sdk' = [sdk EXCEPT ![e].hooks = TRUE]
  BY <1>4, RetUntouched DEF RetKept
<1>5. CASE sdk' = [sdk EXCEPT ![e].cmd = "text"]
  BY <1>5, RetUntouched DEF RetKept
<1>6. CASE FreeSdkEnv(e)
  <2> DEFINE blank == [BlankSdk EXCEPT !.life = "freed"]
             freed == [sdk[e] EXCEPT !.life = "freed"]
  <2>1. blank.ret = "none" /\ freed.ret = sdk[e].ret
    BY RetUntouched
  <2>2. sdk' = [sdk EXCEPT ![e] = blank] \/ sdk' = [sdk EXCEPT ![e] = freed]
    BY <1>6 DEF FreeSdkEnv, ReleaseSdkEnv
  <2> HIDE DEF blank, freed
  <2>. QED
    BY <2>1, <2>2 DEF RetKept
<1>7. ASSUME SetEffectCmd(e, c.arg)
      PROVE  UNCHANGED sdk \/ sdk' = [sdk EXCEPT ![e].cmd = "text"]
  BY <1>7 DEF SetEffectCmd, EffectWithoutImage, EffectReusesImage,
     EffectFailsToLoad, EffectLosesProcess, EffectLoadsImage
<1>8. ASSUME UNCHANGED vars PROVE UNCHANGED sdk
  BY <1>8 DEF vars
<1>. QED
  BY <1>1, <1>2, <1>3, <1>4, <1>5, <1>6, <1>7, <1>8
  DEF Api, SetWindow, SetEglNativeWindow, SetPlatformData, RunSdk, SdkMain,
      SetInput, SetInputImagePath, SetOutputImagePath, Draw, OnSdkDraw, Swap,
      SwapEglBuffers

(* What is left of a handler.                                              *)
LEMMA RestFits ==
    ASSUME HostInv, ClientInv, todo # << >>, todo' = Tail(todo)
    PROVE  /\ InitOnce(todo')
           /\ \A i \in Positions' : i + 1 \in Positions /\ todo'[i] = todo[i + 1]
<1>1. \A i \in 1 .. Len(todo') : i + 1 \in 1 .. Len(todo) /\ todo'[i] = todo[i + 1]
  BY Remaining DEF HostInv, Positions
<1>2. Len(todo') \in Nat
  BY FirstCall, Remaining DEF HostInv
<1>3. \A i, j \in 1 .. Len(todo') : i + 1 = j + 1 => i = j
  BY <1>2
<1>4. InitOnce(todo')
  <2> SUFFICES ASSUME NEW i \in 1 .. Len(todo')
               PROVE  /\ Fits(todo'[i])
                      /\ todo'[i].api = "initSdkEnv" =>
                            /\ todo'[i].via = "local"
                            /\ \A j \in 1 .. Len(todo') :
                                  /\ todo'[j].api # "newDefaultSdkEnv"
                                  /\ todo'[j].api = "initSdkEnv" => j = i
    BY DEF InitOnce
  <2>1. i + 1 \in 1 .. Len(todo) /\ todo'[i] = todo[i + 1]
    BY <1>1
  <2>2. /\ Fits(todo[i + 1])
        /\ todo[i + 1].api = "initSdkEnv" =>
              /\ todo[i + 1].via = "local"
              /\ \A j \in 1 .. Len(todo) :
                    /\ todo[j].api # "newDefaultSdkEnv"
                    /\ todo[j].api = "initSdkEnv" => j = i + 1
    BY <2>1 DEF ClientInv, InitOnce
  <2>3. Fits(todo'[i])
    BY <2>1, <2>2
  <2>4. ASSUME todo'[i].api = "initSdkEnv", NEW j \in 1 .. Len(todo')
        PROVE  /\ todo'[j].api # "newDefaultSdkEnv"
               /\ todo'[j].api = "initSdkEnv" => j = i
    <3>1. j + 1 \in 1 .. Len(todo) /\ todo'[j] = todo[j + 1]
      BY <1>1
    <3>. QED
      BY <1>3, <2>1, <2>2, <2>4, <3>1
  <2>. QED
    BY <2>1, <2>2, <2>3, <2>4
<1>. QED
  BY <1>1, <1>4 DEF Positions

LEMMA StaysFresh ==
    ASSUME HostInv, ClientInv, todo # << >>, todo' = Tail(todo),
           todo[1].api # "initSdkEnv" /\ local' # NoEnv => sdk'[local'].ret = "none"
    PROVE  FreshLocal'
<1> SUFFICES ASSUME NEW i \in Positions', todo'[i].api = "initSdkEnv", local' # NoEnv
             PROVE  sdk'[local'].ret = "none"
  BY DEF FreshLocal
<1>1. i + 1 \in Positions /\ todo'[i] = todo[i + 1] /\ 1 \in Positions /\ i + 1 # 1
  BY RestFits, FirstCall, Remaining DEF HostInv, Positions
<1>2. todo[1].api # "initSdkEnv"
  BY <1>1 DEF ClientInv, InitOnce, Positions
<1>. QED
  BY <1>2
LEMMA StaysChecked ==
    ASSUME HostInv, ClientInv, todo # << >>, todo' = Tail(todo),
           todo[1].api = "check" => local' # NoEnv,
           local # NoEnv => local' # NoEnv \/ todo[1].api = "return"
    PROVE  CheckedFirst'
<1> SUFFICES ASSUME NEW i \in Positions', todo'[i].api = "init", local' = NoEnv
             PROVE  \E j \in Positions' : j < i /\ todo'[j].api = "check"
  BY DEF CheckedFirst
<1>1. /\ i + 1 \in Positions /\ todo'[i] = todo[i + 1] /\ 1 \in Positions
      /\ Len(todo) \in Nat /\ Len(todo') = Len(todo) - 1 /\ i \in Nat \ {0}
  BY RestFits, FirstCall, Remaining DEF HostInv, Positions
<1>2. local = NoEnv
  <2>1. CASE todo[1].api = "return"
    <3>1. todo[i + 1].via = "local"
      BY <1>1 DEF HostInv, Plan, Positions, Setup
    <3>2. i + 1 <= 1
      BY <1>1, <2>1, <3>1 DEF HostInv, Plan, Positions
    <3>. QED
      BY <1>1, <3>2
  <2>. QED
    BY <2>1
<1>3. PICK j \in Positions : j < i + 1 /\ todo[j].api = "check"
  BY <1>1, <1>2 DEF ClientInv, CheckedFirst
<1>4. j # 1
  BY <1>3
<1>5. j - 1 \in Positions' /\ j - 1 < i /\ (j - 1) + 1 = j
  BY <1>1, <1>3, <1>4 DEF Positions
<1>6. todo'[j - 1] = todo[j]
  BY <1>5, RestFits
<1>. QED
  BY <1>3, <1>5, <1>6

(* A call of imgsdk.h by the application or main.                          *)
LEMMA ClientCall ==
    ASSUME HostInv, ClientInv, todo # << >>, proc = "running", SdkCall(todo[1])
    PROVE  /\ InputInv' /\ ContextInv'
           /\ todo[1].api # "initSdkEnv" => RetKept
<1> DEFINE c == todo[1]
           e == Subject(c)
<1>1. /\ PointersTyped /\ c \in Calls /\ 1 \in 1 .. Len(todo) /\ 1 \in Positions
      /\ sdk \in [Env -> SdkRecord]
      /\ c.api \in ApiNames /\ c.who \in Holder
  BY FirstCall DEF HostInv, PointersTyped, Positions, SdkCall, Calls
<1>2. /\ Fits(c)
      /\ c.api = "initSdkEnv" =>
            c.via = "local" /\ (local # NoEnv => sdk[local].ret = "none")
  BY <1>1 DEF ClientInv, InitOnce, FreshLocal
<1>3. e \in Env \cup {NoEnv}
  BY <1>1 DEF Subject, PointersTyped
<1>4. UNCHANGED sdk => RetKept
  BY DEF RetKept
<1>5. CASE UNCHANGED vars
  BY <1>4, <1>5, ClientMoves DEF ClientInv, StepOnce, vars
<1>6. CASE UseAfterFree
  BY <1>4, <1>6, ProcessMoves DEF ClientInv, UseAfterFree
<1>7. CASE e # NoEnv /\ ~Gone(c, e) /\ Api(c, e)
  <2>1. e \in Env
    BY <1>3, <1>7
  <2>2. c.api = "initSdkEnv" => sdk[e].ret = "none"
    BY <1>2, <1>7 DEF Subject
  <2>3. c.api = "initSdkEnv" => sdk[e].life = "live"
    <3>1. ASSUME c.api = "initSdkEnv" PROVE sdk[e].life \in {"live", "dangling"}
      BY <1>2, <1>7, <3>1 DEF Subject, HostInv, OneHolder
    <3>. QED
      BY <1>7, <3>1 DEF Gone
  <2>4. c.api # "initSdkEnv" => RetKept
    BY <1>1, <1>7, <2>1, ApiKeepsRet
  <2> HIDE DEF c, e
  <2>5. StepOnce
    <3>1. CASE UNCHANGED vars
      BY <3>1 DEF StepOnce
    <3>2. CASE c.api = "initSdkEnv"
      <4>1. InitSdkEnv(e)
        BY <1>7, <2>2, <2>3, <3>2 DEF Api, InitAgain, InitSdkEnv, Live
      <4>. QED
        BY <2>1, <2>2, <3>2, <4>1 DEF StepOnce, CallOnce
    <3>3. CASE c.api # "initSdkEnv" /\ ~UNCHANGED vars
      <4>1. CASE c.api = "setInputImagePath"
        BY <1>2, <1>7, <2>1, <3>3, <4>1 DEF Api, SetInput, Fits, StepOnce, CallOnce, Editing
      <4>2. CASE c.api = "setOutputImagePath"
        BY <1>2, <1>7, <2>1, <4>2 DEF Api, Fits, StepOnce, CallOnce, Editing
      <4>3. CASE c.api = "setEffectCmd"
        BY <1>2, <1>7, <2>1, <4>3 DEF Api, Fits, StepOnce, CallOnce, Editing
      <4>4. CASE c.api \notin {"setInputImagePath", "setOutputImagePath", "setEffectCmd"}
        BY <1>7, <2>1, <3>3, <4>4 DEF Api, SetWindow, RunSdk, Draw, Swap,
           StepOnce, CallOnce, Editing
      <4>. QED
        BY <4>1, <4>2, <4>3, <4>4
    <3>. QED
      BY <3>1, <3>2, <3>3
  <2>6. InputInv' /\ ContextInv'
    BY <2>5, ClientMoves DEF ClientInv
  <2>. QED
    BY <2>4, <2>6 DEF c
<1>. QED
  BY <1>5, <1>6, <1>7 DEF SdkCall
LEMMA ClientAllocates ==
    ASSUME HostInv, ClientInv, todo # << >>, Allocate(todo[1])
    PROVE  /\ InputInv' /\ ContextInv'
           /\ todo[1].api = "newBlankSdkEnv" /\ local' # NoEnv =>
                 sdk'[local'].ret = "none"
<1> DEFINE c == todo[1]
           e == CHOOSE x \in Unused(c.who) : TRUE
<1>1. /\ c \in Calls /\ c.who \in Holder /\ CallSafe(c)
      /\ sdk \in [Env -> SdkRecord]
  BY FirstCall DEF HostInv, PointersTyped, Calls
<1>2. Allocates(c)
  BY DEF Allocate, Allocates
<1>3. e \in Unused(c.who)
  BY <1>1, <1>2 DEF CallSafe
<1>4. e \in Env /\ sdk[e].life = "none"
  BY <1>1, <1>3 DEF Unused
<1>5. \/ c.api = "newBlankSdkEnv" /\ NewBlankSdkEnv(e) /\ local' = e
      \/ c.api = "newDefaultSdkEnv" /\ NewDefaultSdkEnv(e)
      \/ local' = NoEnv /\ UNCHANGED vars
  BY Zenon DEF Allocate, c, e
<1> HIDE DEF c, e
<1>6. StepOnce
  BY <1>4, <1>5 DEF StepOnce, CallOnce
<1>7. ASSUME NewBlankSdkEnv(e) PROVE sdk'[e].ret = "none"
  <2>1. sdk' = [sdk EXCEPT ![e] = [sdk[e] EXCEPT !.life = "live"]]
    BY <1>7 DEF NewBlankSdkEnv
  <2>2. sdk[e].ret = "none"
    BY <1>4 DEF ClientInv, ContextInv, UnusedIsFresh
  <2>. QED
    BY <1>1, <1>4, <2>1, <2>2, RetUntouched
<1>. QED
  BY <1>5, <1>6, <1>7, ClientMoves DEF ClientInv, c

(* Every call of the application and of main.                              *)
LEMMA ClientStep ==
    ASSUME HostInv, ClientInv, Call
    PROVE  ClientInv'
<1> DEFINE c == todo[1]
<1>1. /\ todo # << >> /\ Head(todo) = c /\ proc = "running"
      /\ PointersTyped /\ Plan(todo) /\ local \in Env \cup {NoEnv}
      /\ 1 \in 1 .. Len(todo) /\ 1 \in Positions /\ c \in Calls
  BY FirstCall DEF Call, HostInv, PointersTyped, Positions
<1>2. InputInv /\ ContextInv
  BY DEF ClientInv
<1>3. ASSUME UNCHANGED vars PROVE InputInv' /\ ContextInv'
  BY <1>2, <1>3, ClientMoves DEF StepOnce
(* A call after which the handler goes on with the same instance.          *)
<1>4. ASSUME todo' = Tail(todo), local' = local, InputInv', ContextInv',
             c.api # "initSdkEnv" => RetKept, c.api = "check" => local # NoEnv
      PROVE  ClientInv'
  <2>1. c.api # "initSdkEnv" /\ local # NoEnv => sdk'[local].ret = "none" \/ FreshLocal'
    <3>1. CASE \E i \in Positions : todo[i].api = "initSdkEnv"
      BY <1>1, <1>4, <3>1 DEF ClientInv, FreshLocal, RetKept
    <3>2. CASE ~\E i \in Positions : todo[i].api = "initSdkEnv"
      BY <1>1, <1>4, <3>2, RestFits DEF FreshLocal
    <3>. QED
      BY <3>1, <3>2
  <2>2. FreshLocal'
    BY <1>1, <1>4, <2>1, StaysFresh
  <2>3. CheckedFirst'
    BY <1>1, <1>4, StaysChecked
  <2>. QED
    BY <1>1, <1>4, <2>2, <2>3, RestFits DEF ClientInv
<1>5. CASE SdkCall(c) /\ todo' = Tail(todo) /\ UNCHANGED local
  <2>1. c.api # "check"
    BY <1>5 DEF SdkCall, ApiNames
  <2>. QED
    BY <1>1, <1>4, <1>5, <2>1, ClientCall
<1>6. CASE Allocate(c) /\ todo' = Tail(todo)
  <2>1. /\ InputInv' /\ ContextInv'
        /\ c.api = "newBlankSdkEnv" /\ local' # NoEnv => sdk'[local'].ret = "none"
    BY <1>1, <1>6, ClientAllocates
  <2>2. Allocates(c) /\ c.api \in {"newBlankSdkEnv", "newDefaultSdkEnv"}
    BY <1>6 DEF Allocate, Allocates
  <2>3. local = NoEnv
    BY <1>1, <2>2 DEF HostInv, CallSafe
  <2>4. FreshLocal'
    <3>1. CASE c.api = "newBlankSdkEnv"
      BY <1>1, <1>6, <2>1, <3>1, StaysFresh
    <3>2. CASE c.api = "newDefaultSdkEnv"
      <4>1. \A i \in Positions : todo[i].api # "initSdkEnv"
        BY <1>1, <3>2 DEF ClientInv, InitOnce, Positions
      <4>. QED
        BY <1>1, <1>6, <4>1, RestFits DEF FreshLocal
    <3>. QED
      BY <2>2, <3>1, <3>2
  <2>5. CheckedFirst'
    BY <1>1, <1>6, <2>2, <2>3, StaysChecked
  <2>. QED
    BY <1>1, <1>6, <2>1, <2>4, <2>5, RestFits DEF ClientInv
<1>7. CASE SaveImage(c) /\ todo' = Tail(todo) /\ UNCHANGED local
  <2>1. /\ c.api = "saveImage" /\ UNCHANGED <<sdk, egl, user, effect, glVars>>
        /\ proc' \in {"running", "crashed"}
    BY <1>1, <1>7 DEF SaveImage
  <2>2. InputInv' /\ ContextInv' /\ RetKept
    BY <1>2, <2>1, ProcessMoves DEF RetKept
  <2>. QED
    BY <1>4, <1>7, <2>1, <2>2
<1>8. ASSUME GoOn, UNCHANGED vars, c.api = "check" => local # NoEnv
      PROVE  ClientInv'
  BY <1>3, <1>4, <1>8 DEF GoOn, vars, RetKept
<1>9. ASSUME todo' = << >>, InputInv', ContextInv'
       PROVE  ClientInv'
  BY <1>9, EmptySeq DEF ClientInv, InitOnce, FreshLocal, CheckedFirst, Positions
<1>10. CASE Lookup(c)
  BY <1>3, <1>8, <1>9, <1>10 DEF Lookup, ReturnNull
<1>11. CASE CheckPointer(c)
  BY <1>3, <1>8, <1>9, <1>11 DEF CheckPointer, ReturnNull
<1>12. CASE CheckInit(c)
  <2>1. c.api = "init"
    BY <1>12 DEF CheckInit
  <2>2. CASE GoOn /\ UNCHANGED vars
    BY <1>8, <2>1, <2>2
  <2>3. CASE ReturnNull(c) /\ FreeSdkEnv(local)
    <3>1. local \in Env
      <4>1. ~\E j \in Positions : j < 1
        BY DEF Positions
      <4>. QED
        BY <1>1, <2>1, <4>1 DEF ClientInv, CheckedFirst
    <3>2. StepOnce
      BY <2>3, <3>1 DEF StepOnce, CallOnce
    <3>. QED
      BY <1>2, <1>9, <2>3, <3>2, ClientMoves DEF ReturnNull
  <2>. QED
    BY <1>12, <2>2, <2>3 DEF CheckInit
<1>13. CASE ReturnPointer(c)
  <2>1. /\ c.api = "return" /\ todo' = Tail(todo) /\ local' = NoEnv
        /\ InputInv' /\ ContextInv'
    BY <1>3, <1>13 DEF ReturnPointer
  <2>2. FreshLocal' /\ CheckedFirst'
    BY <1>1, <2>1, StaysFresh, StaysChecked
  <2>. QED
    BY <1>1, <2>1, <2>2, RestFits DEF ClientInv
<1>14. CASE OnSuccess(c)
  BY <1>8, <1>14 DEF OnSuccess
<1>. QED
  BY <1>1, <1>5, <1>6, <1>7, <1>10, <1>11, <1>12, <1>13, <1>14 DEF Call, JniStep
-----------------------------------------------------------------------------
(* The handlers.  Most of them initialise nothing.                         *)
Plain(s) ==
    /\ s \in Seq(Calls)
    /\ \A i \in 1 .. Len(s) : s[i].api \notin {"initSdkEnv", "init"} /\ Fits(s[i])

LEMMA PlainOne ==
    ASSUME NEW c \in Calls, c.api \notin {"initSdkEnv", "init"}, Fits(c)
    PROVE  Plain(<<c>>)
  BY DEF Plain

LEMMA PlainJoin ==
    ASSUME NEW s, NEW t, Plain(s), Plain(t)
    PROVE  Plain(s \o t)
<1>1. s \in Seq(Calls) /\ t \in Seq(Calls) /\ Len(s) \in Nat /\ Len(t) \in Nat
  BY LenProperties DEF Plain
<1>2. /\ s \o t \in Seq(Calls)
      /\ Len(s \o t) = Len(s) + Len(t)
      /\ \A i \in 1 .. Len(s) + Len(t) :
            (s \o t)[i] = IF i <= Len(s) THEN s[i] ELSE t[i - Len(s)]
  BY <1>1, ConcatProperties
<1>3. ASSUME NEW i \in 1 .. Len(s \o t)
      PROVE  \/ \E j \in 1 .. Len(s) : (s \o t)[i] = s[j]
             \/ \E j \in 1 .. Len(t) : (s \o t)[i] = t[j]
  <2>1. CASE i <= Len(s)
    BY <1>1, <1>2, <2>1
  <2>2. CASE ~(i <= Len(s))
    <3>1. i - Len(s) \in 1 .. Len(t)
      BY <1>1, <1>2, <2>2
    <3>. QED
      BY <1>1, <1>2, <2>2, <3>1
  <2>. QED
    BY <2>1, <2>2
<1>. QED
  BY <1>2, <1>3 DEF Plain

LEMMA PlainMethods ==
    ASSUME NEW h \in Holder
    PROVE  /\ \A path \in Path : Plain(SetInputPath(h, path))
           /\ \A path \in Outputs : Plain(SetOutputPath(h, path))
           /\ \A cmd \in Commands : Plain(SetCmd(h, cmd))
           /\ Plain(ExecuteCmd(h)) /\ Plain(FreeSDK(h)) /\ Plain(<< >>)
<1>1. ASSUME NEW api \in {"swapEglBuffers", "onSdkDraw", "onSuccess", "freeSdkEnv"}
      PROVE  Plain(<< OnKept(api, h, NoArg) >>)
  <2>1. OnKept(api, h, NoArg) \in Calls /\ OnKept(api, h, NoArg).api = api
    BY DEF OnKept, Calls, ApiNames
  <2>. QED
    BY <2>1, PlainOne DEF Fits
<1>2. ASSUME NEW path \in Path PROVE Plain(SetInputPath(h, path))
  <2> DEFINE c == OnKept("setInputImagePath", h, path)
  <2>1. c \in Calls /\ c.api = "setInputImagePath" /\ c.arg = path
    BY DEF OnKept, Calls, ApiNames
  <2>. QED
    BY <2>1, PlainOne DEF Fits, SetInputPath
<1>3. ASSUME NEW path \in Outputs PROVE Plain(SetOutputPath(h, path))
  <2> DEFINE c == OnKept("setOutputImagePath", h, path)
  <2>1. c \in Calls /\ c.api = "setOutputImagePath" /\ c.arg = path
    BY OutputsAssumption DEF OnKept, Calls, ApiNames
  <2>. QED
    BY <2>1, PlainOne DEF Fits, SetOutputPath
<1>4. ASSUME NEW cmd \in Commands PROVE Plain(SetCmd(h, cmd))
  <2> DEFINE c == OnKept("setEffectCmd", h, cmd)
  <2>1. c \in Calls /\ c.api = "setEffectCmd" /\ c.arg = cmd
    BY DEF OnKept, Calls, ApiNames
  <2>. QED
    BY <2>1, PlainOne DEF Fits, SetCmd
<1>5. Plain(ExecuteCmd(h))
  <2> DEFINE a == OnKept("swapEglBuffers", h, NoArg)
             b == OnKept("onSdkDraw", h, NoArg)
             d == OnKept("onSuccess", h, NoArg)
  <2>1. /\ a \in Calls /\ a.api = "swapEglBuffers"
        /\ b \in Calls /\ b.api = "onSdkDraw"
        /\ d \in Calls /\ d.api = "onSuccess"
    BY DEF OnKept, Calls, ApiNames
  <2>2. ExecuteCmd(h) = <<a, b, d>>
    BY DEF ExecuteCmd
  <2> HIDE DEF a, b, d
  <2>. QED
    BY <2>1, <2>2 DEF Plain, Fits
<1>6. Plain(<< >>)
  BY DEF Plain
<1>. QED
  BY <1>1, <1>2, <1>3, <1>4, <1>5, <1>6 DEF FreeSDK

(* A handler starts: the local variable is 0.                              *)
LEMMA ClientStarts ==
    ASSUME HostInv, ClientInv, todo = << >>, UNCHANGED <<vars, local>>,
           InitOnce(todo'),
           \A i \in Positions' : todo'[i].api = "init" =>
              \E j \in Positions' : j < i /\ todo'[j].api = "check"
    PROVE  ClientInv'
<1>1. local' = NoEnv
  BY BetweenHandlers
<1>2. InputInv' /\ ContextInv'
  BY ClientMoves DEF ClientInv, StepOnce
<1>. QED
  BY <1>1, <1>2 DEF ClientInv, FreshLocal, CheckedFirst

LEMMA ClientStartsPlain ==
    ASSUME HostInv, ClientInv, todo = << >>, UNCHANGED <<vars, local>>, Plain(todo')
    PROVE  ClientInv'
  BY ClientStarts DEF Plain, InitOnce, Positions

LEMMA ClientStartsInit ==
    ASSUME HostInv, ClientInv, todo = << >>, UNCHANGED <<vars, local>>,
           NEW h \in Holder, todo' = InitSDK(h) \/ todo' = InitRenderSDK(h)
    PROVE  ClientInv'
<1>1. ASSUME NEW api \in (Setup \cup ApiNames) \ {"setInputImagePath",
                            "setOutputImagePath", "setEffectCmd"}
      PROVE  /\ OnLocal(api, h).api = api /\ OnLocal(api, h).via = "local"
             /\ Fits(OnLocal(api, h))
  BY DEF OnLocal, Fits, Setup
<1>2. {"lookup", "newBlankSdkEnv", "check", "init", "return", "setPlatformData",
       "initSdkEnv", "setEglNativeWindow", "sdkMain"}
         \subseteq (Setup \cup ApiNames) \ {"setInputImagePath",
                            "setOutputImagePath", "setEffectCmd"}
  BY DEF Setup, ApiNames
<1>3. CASE todo' = InitSDK(h)
  <2>1. /\ Len(todo') = 7
        /\ \A i \in 1 .. 7 :
              /\ todo'[i].via = "local" /\ Fits(todo'[i])
              /\ todo'[i].api # "newDefaultSdkEnv"
              /\ todo'[i].api = "check" <=> i = 3
              /\ todo'[i].api = "initSdkEnv" <=> i = 5
              /\ todo'[i].api = "init" <=> i = 6
    BY <1>1, <1>2, <1>3 DEF InitSDK
  <2>. QED
    BY <2>1, ClientStarts DEF InitOnce, Positions
<1>4. CASE todo' = InitRenderSDK(h)
  <2>1. /\ Len(todo') = 9
        /\ \A i \in 1 .. 9 :
              /\ todo'[i].via = "local" /\ Fits(todo'[i])
              /\ todo'[i].api # "newDefaultSdkEnv"
              /\ todo'[i].api = "check" <=> i = 3
              /\ todo'[i].api = "initSdkEnv" <=> i = 6
              /\ todo'[i].api = "init" <=> i = 7
    BY <1>1, <1>2, <1>4 DEF InitRenderSDK
  <2>. QED
    BY <2>1, ClientStarts DEF InitOnce, Positions
<1>. QED
  BY <1>3, <1>4

LEMMA AppIsClient ==
    ASSUME HostInv, ClientInv, AppStep
    PROVE  ClientInv'
<1>1. /\ todo = << >> /\ AppEvent /\ UNCHANGED <<vars, local>>
      /\ Home \in Holder /\ View \in Holder
  BY DEF AppStep, Idle
<1>2. CASE todo' = << >>
  BY <1>1, <1>2, PlainMethods, ClientStartsPlain
<1>3. CASE HomeCreate \/ SurfaceCreated
  BY <1>1, <1>3, ClientStartsInit DEF HomeCreate, SurfaceCreated, Start
<1>4. CASE HomeDestroy \/ SurfaceDestroyed
  BY <1>1, <1>4, PlainMethods, ClientStartsPlain DEF HomeDestroy, SurfaceDestroyed, Start
<1>5. CASE HomeLoad
  <2>1. PICK output \in Outputs :
          todo' = SetInputPath(Home, home.path) \o SetOutputPath(Home, output)
                    \o SetCmd(Home, RotateCmd) \o ExecuteCmd(Home)
    BY <1>5 DEF HomeLoad, Start
  <2>2. home.path \in Path
    BY <1>5 DEF HomeLoad, HostInv, PointersTyped, HomeRecord
  <2>3. /\ Plain(SetInputPath(Home, home.path)) /\ Plain(SetOutputPath(Home, output))
        /\ Plain(SetCmd(Home, RotateCmd)) /\ Plain(ExecuteCmd(Home))
    BY <1>1, <2>2, PlainMethods, AppCommandsAssumption
  <2>4. Plain(todo')
    BY <2>1, <2>3, PlainJoin, Zenon
  <2>. QED
    BY <1>1, <2>4, ClientStartsPlain
<1>6. CASE RenderClick
  <2> DEFINE paths(output) ==
        SetInputPath(View, render.path) \o SetOutputPath(View, output)
  <2>1. PICK output \in Outputs :
          todo' = (IF render.given THEN << >> ELSE paths(output))
                    \o SetCmd(View, NormalCmd) \o ExecuteCmd(View)
    BY <1>6 DEF RenderClick, Start
  <2>2. render.path \in Path
    BY <1>6 DEF RenderClick, HostInv, PointersTyped
  <2>3. /\ Plain(SetInputPath(View, render.path)) /\ Plain(SetOutputPath(View, output))
        /\ Plain(SetCmd(View, NormalCmd)) /\ Plain(ExecuteCmd(View)) /\ Plain(<< >>)
    BY <1>1, <2>2, PlainMethods, AppCommandsAssumption
  <2>4. Plain(paths(output))
    BY <2>3, PlainJoin, Zenon
  <2>5. Plain(IF render.given THEN << >> ELSE paths(output))
    BY <2>3, <2>4
  <2>6. Plain(todo')
    BY <2>1, <2>3, <2>5, PlainJoin, Zenon
  <2>. QED
    BY <1>1, <2>6, ClientStartsPlain
<1>7. CASE \/ \E path \in Path : HomePick(path)
           \/ HomeGo \/ RenderStop \/ RenderRestart \/ RenderRotate \/ RenderBack
           \/ RenderDestroyed
  BY <1>1, <1>2, <1>7 DEF HomePick, HomeGo, RenderStop, RenderRestart, RenderRotate,
     RenderBack, RenderDestroyed
<1>. QED
  BY <1>1, <1>3, <1>4, <1>5, <1>6, <1>7 DEF AppEvent

LEMMA ConsoleIsClient ==
    ASSUME HostInv, ClientInv, ConsoleStep
    PROVE  ClientInv'
<1>1. PICK input \in Path, output \in Outputs : RunMain(input, output)
  BY DEF ConsoleStep, ConsoleEvent
<1>2. /\ todo = << >> /\ UNCHANGED <<vars, local>>
      /\ todo' = MainCalls(input, output) /\ Main \in Holder
  BY <1>1 DEF ConsoleStep, RunMain, Idle
<1> DEFINE a == OnLocal("newDefaultSdkEnv", Main)
           b == OnLocal("return", Main)
           m == OnKept("sdkMain", Main, NoArg)
           d == OnKept("onSdkDraw", Main, NoArg)
           v == OnKept("saveImage", Main, output)
           in == SetInputPath(Main, input)
           out == SetOutputPath(Main, output)
           cmd == SetCmd(Main, ConsoleCmd)
           free == FreeSDK(Main)
           setup == <<a, b>>
<1>3. /\ a \in Calls /\ a.api = "newDefaultSdkEnv" /\ b \in Calls /\ b.api = "return"
      /\ m \in Calls /\ m.api = "sdkMain" /\ d \in Calls /\ d.api = "onSdkDraw"
      /\ v \in Calls /\ v.api = "saveImage"
  BY <1>2, OutputsAssumption DEF OnLocal, OnKept, Calls, ApiNames
<1>4. Plain(in) /\ Plain(out) /\ Plain(cmd) /\ Plain(free)
  BY <1>2, PlainMethods
<1>5. todo' = setup \o in \o out \o <<m>> \o cmd \o <<d>> \o <<v>> \o free
  BY <1>2 DEF MainCalls
<1> HIDE DEF a, b, m, d, v, in, out, cmd, free
<1>6. Plain(setup) /\ Plain(<<m>>) /\ Plain(<<d>>) /\ Plain(<<v>>)
  BY <1>3 DEF Plain, Fits
<1> HIDE DEF setup
<1>7. Plain(setup \o in \o out \o <<m>>)
  BY <1>4, <1>6, PlainJoin, Zenon
<1>8. Plain(setup \o in \o out \o <<m>> \o cmd \o <<d>>)
  BY <1>4, <1>6, <1>7, PlainJoin, Zenon
<1>9. Plain(todo')
  BY <1>4, <1>5, <1>6, <1>8, PlainJoin, Zenon
<1>. QED
  BY <1>2, <1>9, ClientStartsPlain

-----------------------------------------------------------------------------
(* What is current in a thread of the application or of main is the        *)
(* context of an instance that is still there and used from that thread,   *)
(* whichever step of an initialisation fails and in whatever order the     *)
(* activities and the surface free their instances (imgsdk.c:689).         *)
THEOREM ContextNeverLost == HostSpec => []NoLostContextCurrent
<1> DEFINE Inv == HostInv /\ (host # "glue" => ClientInv)
<1>1. HostInit => Inv
  <2> SUFFICES ASSUME HostInit PROVE Inv
    OBVIOUS
  <2>1. Positions = {} /\ InitOnce(todo)
    BY EmptySeq DEF HostInit, CallsInit, Positions, InitOnce
  <2>. QED
    BY <2>1, HostInitially, InputInit, ContextInit
    DEF HostInit, ClientInv, FreshLocal, CheckedFirst
<1>2. Inv /\ [HostNext]_hostVars => Inv'
  <2> SUFFICES ASSUME Inv, [HostNext]_hostVars, host # "glue" PROVE ClientInv'
    <3>1. [HostNext]_hostVars => host' = host
      BY DEF HostNext, hostVars, Call, AppStep, GlueStep, ConsoleStep
    <3>. QED
      BY <3>1, HostStep
  <2>1. CASE UNCHANGED hostVars
    <3>1. InputInv' /\ ContextInv'
      BY <2>1, ClientMoves DEF hostVars, ClientInv, StepOnce
    <3>. QED
      BY <2>1, <3>1 DEF hostVars, vars, callVars, ClientInv, InitOnce, FreshLocal,
         CheckedFirst, Positions
  <2>2. ~GlueStep
    BY DEF GlueStep
  <2>. QED
    BY <2>1, <2>2, ClientStep, AppIsClient, ConsoleIsClient DEF HostNext
<1>3. Inv => NoLostContextCurrent
  BY DEF ClientInv, InputInv, ContextInv, CurrentIsUsed, CurrentIsHeld, UnusedIsFresh,
     FreshIsBlank, BlankEgl, NoLostContextCurrent
<1>. QED
  BY <1>1, <1>2, <1>3, PTL DEF HostSpec

-----------------------------------------------------------------------------
USE ThreadOfAssumption

(* Where a handler is: `s` is what is left of the calls `t`.               *)
Rest(s, t) ==
    /\ Len(s) <= Len(t)
    /\ \A i \in 1 .. Len(s) : s[i] = t[i + (Len(t) - Len(s))]

LEMMA RestMoves ==
    ASSUME PointersTyped, todo # << >>, NEW t, Len(t) \in Nat, Rest(todo, t)
    PROVE  /\ Len(todo) \in 1 .. Len(t)
           /\ todo[1] = t[1 + (Len(t) - Len(todo))]
           /\ Len(Tail(todo)) = Len(todo) - 1
           /\ Rest(Tail(todo), t)
<1>1. /\ Len(todo) \in Nat /\ 1 \in 1 .. Len(todo)
      /\ Len(Tail(todo)) = Len(todo) - 1
      /\ \A i \in 1 .. Len(Tail(todo)) : Tail(todo)[i] = todo[i + 1]
  BY FirstCall, HeadTailProperties DEF PointersTyped, Positions
<1>2. Len(todo) <= Len(t) /\ todo[1] = t[1 + (Len(t) - Len(todo))]
  BY <1>1 DEF Rest
<1>3. ASSUME NEW i \in 1 .. Len(Tail(todo))
      PROVE  Tail(todo)[i] = t[i + (Len(t) - Len(Tail(todo)))]
  <2>1. i + 1 \in 1 .. Len(todo)
    BY <1>1
  <2>2. todo[i + 1] = t[(i + 1) + (Len(t) - Len(todo))]
    BY <2>1 DEF Rest
  <2>3. (i + 1) + (Len(t) - Len(todo)) = i + (Len(t) - Len(Tail(todo)))
    BY <1>1
  <2>. QED
    BY <1>1, <2>2, <2>3
<1>. QED
  BY <1>1, <1>2, <1>3 DEF Rest

(* The calls of the handlers, one by one.                                  *)
LEMMA MainCallList ==
    ASSUME NEW input \in Path, NEW output \in Outputs
    PROVE  LET t == MainCalls(input, output)
           IN  /\ Len(t) = 9
               /\ t[1] = OnLocal("newDefaultSdkEnv", Main)
               /\ t[2] = OnLocal("return", Main)
               /\ t[3] = OnKept("setInputImagePath", Main, input)
               /\ t[4] = OnKept("setOutputImagePath", Main, output)
               /\ t[5] = OnKept("sdkMain", Main, NoArg)
               /\ t[6] = OnKept("setEffectCmd", Main, ConsoleCmd)
               /\ t[7] = OnKept("onSdkDraw", Main, NoArg)
               /\ t[8] = OnKept("saveImage", Main, output)
               /\ t[9] = OnKept("freeSdkEnv", Main, NoArg)
  BY DEF MainCalls, SetInputPath, SetOutputPath, SetCmd, FreeSDK

LEMMA MainCallAt ==
    ASSUME NEW input \in Path, NEW output \in Outputs, NEW left \in 1 .. 9,
           NEW c, c = MainCalls(input, output)[10 - left]
    PROVE  /\ left = 9 => c = OnLocal("newDefaultSdkEnv", Main)
           /\ left = 8 => c = OnLocal("return", Main)
           /\ left = 7 => c = OnKept("setInputImagePath", Main, input)
           /\ left = 6 => c = OnKept("setOutputImagePath", Main, output)
           /\ left = 5 => c = OnKept("sdkMain", Main, NoArg)
           /\ left = 4 => c = OnKept("setEffectCmd", Main, ConsoleCmd)
           /\ left = 3 => c = OnKept("onSdkDraw", Main, NoArg)
           /\ left = 2 => c = OnKept("saveImage", Main, output)
           /\ left = 1 => c = OnKept("freeSdkEnv", Main, NoArg)
<1> DEFINE t == MainCalls(input, output)
<1>1. /\ t[1] = OnLocal("newDefaultSdkEnv", Main)
      /\ t[2] = OnLocal("return", Main)
      /\ t[3] = OnKept("setInputImagePath", Main, input)
      /\ t[4] = OnKept("setOutputImagePath", Main, output)
      /\ t[5] = OnKept("sdkMain", Main, NoArg)
      /\ t[6] = OnKept("setEffectCmd", Main, ConsoleCmd)
      /\ t[7] = OnKept("onSdkDraw", Main, NoArg)
      /\ t[8] = OnKept("saveImage", Main, output)
      /\ t[9] = OnKept("freeSdkEnv", Main, NoArg)
  BY MainCallList
<1> HIDE DEF t
<1>. QED
  BY <1>1 DEF t

LEMMA SetUpLists ==
    ASSUME NEW h
    PROVE  LET t == InitSDK(h)
               u == InitRenderSDK(h)
           IN  /\ Len(t) = 7
               /\ t[1] = OnLocal("lookup", h)
               /\ t[2] = OnLocal("newBlankSdkEnv", h)
               /\ t[3] = OnLocal("check", h)
               /\ t[4] = OnLocal("setPlatformData", h)
               /\ t[5] = OnLocal("initSdkEnv", h)
               /\ t[6] = OnLocal("init", h)
               /\ t[7] = OnLocal("return", h)
               /\ Len(u) = 9
               /\ u[1] = OnLocal("lookup", h)
               /\ u[2] = OnLocal("newBlankSdkEnv", h)
               /\ u[3] = OnLocal("check", h)
               /\ u[4] = OnLocal("setEglNativeWindow", h)
               /\ u[5] = OnLocal("setPlatformData", h)
               /\ u[6] = OnLocal("initSdkEnv", h)
               /\ u[7] = OnLocal("init", h)
               /\ u[8] = OnLocal("sdkMain", h)
               /\ u[9] = OnLocal("return", h)
               /\ Len(FreeSDK(h)) = 1
               /\ FreeSDK(h)[1] = OnKept("freeSdkEnv", h, NoArg)
  BY DEF InitSDK, InitRenderSDK, FreeSDK

(* The calls of a click, with the paths and without.                       *)
ClickCalls(h, path, output, cmd) ==
    SetInputPath(h, path) \o SetOutputPath(h, output) \o SetCmd(h, cmd) \o ExecuteCmd(h)

AgainCalls(h, cmd) == << >> \o SetCmd(h, cmd) \o ExecuteCmd(h)

LEMMA ClickList ==
    ASSUME NEW h, NEW path, NEW output, NEW cmd
    PROVE  LET t == ClickCalls(h, path, output, cmd)
               u == AgainCalls(h, cmd)
           IN  /\ Len(t) = 6
               /\ t[1] = OnKept("setInputImagePath", h, path)
               /\ t[2] = OnKept("setOutputImagePath", h, output)
               /\ t[3] = OnKept("setEffectCmd", h, cmd) /\ u[1] = t[3]
               /\ t[4] = OnKept("swapEglBuffers", h, NoArg) /\ u[2] = t[4]
               /\ t[5] = OnKept("onSdkDraw", h, NoArg) /\ u[3] = t[5]
               /\ t[6] = OnKept("onSuccess", h, NoArg) /\ u[4] = t[6]
               /\ Len(u) = 4
  BY DEF ClickCalls, AgainCalls, SetInputPath, SetOutputPath, SetCmd, ExecuteCmd

-----------------------------------------------------------------------------
LEMMA ApiChosen ==
    ASSUME NEW c, NEW e, Api(c, e)
    PROVE  /\ c.api = "setEglNativeWindow" => SetWindow(e)
           /\ c.api = "setPlatformData" => SetPlatformData(e)
           /\ c.api = "initSdkEnv" => InitAgain(e)
           /\ c.api = "sdkMain" => RunSdk(e)
           /\ c.api = "freeSdkEnv" => FreeSdkEnv(e)
           /\ c.api = "setInputImagePath" => SetInput(e, c.arg)
           /\ c.api = "setOutputImagePath" => SetOutputImagePath(e, c.arg)
           /\ c.api = "setEffectCmd" => SetEffectCmd(e, c.arg)
           /\ c.api = "swapEglBuffers" => Swap(e)
           /\ c.api = "onSdkDraw" => Draw(e)
  BY DEF Api

LEMMA LocalFields ==
    ASSUME NEW api, NEW h
    PROVE  LET c == OnLocal(api, h)
           IN  c.api = api /\ c.who = h /\ c.via = "local"
  BY DEF OnLocal

LEMMA KeptFields ==
    ASSUME NEW api, NEW h, NEW arg
    PROVE  LET c == OnKept(api, h, arg)
           IN  c.api = api /\ c.who = h /\ c.via = "kept" /\ c.arg = arg
  BY DEF OnKept

(* What one call of imgsdk.h does to its instance, and that it does        *)
(* nothing to another one.                                                 *)
SameBut(f, g, e) == \A o \in Env \ {e} : f[o] = g[o]

LEMMA PathTaken ==
    ASSUME TypeOK, NEW e \in Env, NEW path \in Path, SetInput(e, path)
    PROVE  /\ UNCHANGED <<sdk, egl, effect, glVars>>
           /\ user'[e].input = path
           /\ user'[e].param = user[e].param
           /\ user[e].input # path => user'[e].active = "path"
           /\ SameBut(user', user, e)
<1>1. CASE SetInputImagePath(e, path)
  <2>1. /\ UNCHANGED <<sdk, egl, effect, glVars>>
        /\ user' = [user EXCEPT ![e] = WithInput(user[e], path)]
    BY <1>1 DEF SetInputImagePath
  <2>2. user[e] \in UserRecord
    BY DEF TypeOK
  <2>3. LET r == WithInput(user[e], path)
        IN  r.input = path /\ r.active = "path" /\ r.param = user[e].param
    BY <2>2 DEF WithInput, UserRecord
  <2>. QED
    BY <2>1, <2>3 DEF TypeOK, SameBut
<1>2. CASE user[e].input = path /\ UNCHANGED vars
  BY <1>2 DEF vars, glVars, SameBut
<1>. QED
  BY <1>1, <1>2 DEF SetInput

LEMMA OutputTaken ==
    ASSUME TypeOK, NEW e \in Env, NEW path, SetOutputImagePath(e, path)
    PROVE  /\ UNCHANGED <<sdk, egl, effect, glVars>>
           /\ user'[e].input = user[e].input
           /\ user'[e].param = user[e].param
           /\ user'[e].active = user[e].active
           /\ SameBut(user', user, e)
<1>1. user[e] \in UserRecord /\ user' = [user EXCEPT ![e] = [user[e] EXCEPT !.output = path]]
  BY DEF SetOutputImagePath, TypeOK
<1>2. LET r == [user[e] EXCEPT !.output = path]
      IN  r.input = user[e].input /\ r.param = user[e].param /\ r.active = user[e].active
  BY <1>1 DEF UserRecord
<1>. QED
  BY <1>1, <1>2 DEF SetOutputImagePath, TypeOK, SameBut

LEMMA HooksSet ==
    ASSUME TypeOK, NEW e \in Env, RunSdk(e)
    PROVE  /\ UNCHANGED <<egl, user, effect, glVars>>
           /\ sdk'[e].hooks
           /\ Core(sdk'[e]) = Core(sdk[e])
           /\ sdk'[e].linked = sdk[e].linked
           /\ SameBut(sdk', sdk, e)
<1>1. CASE SdkMain(e)
  <2>1. sdk[e] \in SdkRecord /\ sdk' = [sdk EXCEPT ![e] = [sdk[e] EXCEPT !.hooks = TRUE]]
    BY <1>1 DEF SdkMain, TypeOK
  <2>2. LET r == [sdk[e] EXCEPT !.hooks = TRUE]
        IN  r.hooks /\ r.linked = sdk[e].linked /\ Core(r) = Core(sdk[e])
    BY <2>1 DEF SdkRecord, Core
  <2>. QED
    BY <1>1, <2>1, <2>2 DEF SdkMain, TypeOK, SameBut
<1>2. CASE sdk[e].hooks /\ UNCHANGED vars
  BY <1>2 DEF vars, glVars, SameBut
<1>. QED
  BY <1>1, <1>2 DEF RunSdk

(* setEffectCmd keeps the image, or loads the active path, and uploads to  *)
(* the context that is current.                                            *)
LoadedInto(e, ctx) ==
    /\ user[e].active = "path"
    /\ user'[e].param \in Decoded(user[e].input)
    /\ user'[e].input = user[e].input
    /\ IF ctx = NoCtx
       THEN UNCHANGED <<shown, target>>
       ELSE /\ shown' = [shown EXCEPT ![ctx] = user'[e].param]
            /\ target' = IF OffScreenCtx(ctx)
                         THEN [target EXCEPT ![ctx] = NoImage] ELSE target

LEMMA EffectSet ==
    ASSUME TypeOK, NEW e \in Env, NEW cmd, SetEffectCmd(e, cmd)
    PROVE  /\ UNCHANGED <<current, refs, made, bound>>
           /\ \A o \in Env : /\ Core(sdk'[o]) = Core(sdk[o])
                             /\ sdk'[o].linked = sdk[o].linked
                             /\ sdk'[o].hooks = sdk[o].hooks
                             /\ egl'[o].context = egl[o].context
           /\ SameBut(user', user, e)
           /\ \/ UNCHANGED <<user, shown, target>>
              \/ LoadedInto(e, CurrentOf(e))
<1>1. UNCHANGED <<current, refs, made, bound>>
  BY DEF SetEffectCmd
<1>2. CASE UNCHANGED <<sdk, egl, user, shown, target>>
  BY <1>1, <1>2 DEF SameBut
<1>3. CASE EffectLoadsImage(e)
  <2>1. PICK picture \in Decoded(user[e].input) :
          /\ user' = [user EXCEPT ![e] =
                        [user[e] EXCEPT !.param = picture, !.active = "param"]]
          /\ Upload(e, picture)
    BY <1>3 DEF EffectLoadsImage
  <2>2. /\ sdk[e] \in SdkRecord /\ egl[e] \in EglRecord /\ user[e] \in UserRecord
        /\ sdk' = [sdk EXCEPT ![e] = [sdk[e] EXCEPT !.cmd = "text"]]
        /\ egl' = [egl EXCEPT ![e] = [egl[e] EXCEPT !.view = ViewAfterLoad(e)]]
    BY <1>3 DEF EffectLoadsImage, TypeOK
  <2>3. LET r == [sdk[e] EXCEPT !.cmd = "text"]
        IN  r.hooks = sdk[e].hooks /\ r.linked = sdk[e].linked /\ Core(r) = Core(sdk[e])
    BY <2>2 DEF SdkRecord, Core
  <2>4. LET r == [user[e] EXCEPT !.param = picture, !.active = "param"]
        IN  r.param = picture /\ r.input = user[e].input
    BY <2>2 DEF UserRecord
  <2>5. \A o \in Env : /\ Core(sdk'[o]) = Core(sdk[o])
                       /\ sdk'[o].linked = sdk[o].linked
                       /\ sdk'[o].hooks = sdk[o].hooks
    BY <2>2, <2>3 DEF TypeOK
  <2>6. \A o \in Env : egl'[o].context = egl[o].context
    BY <2>2, ViewUpdate DEF TypeOK
  <2>7. /\ SameBut(user', user, e)
        /\ user'[e].param = picture /\ user'[e].input = user[e].input
    BY <2>1, <2>4 DEF TypeOK, SameBut
  <2>8. LoadedInto(e, CurrentOf(e))
    BY <1>3, <2>1, <2>7 DEF LoadedInto, EffectLoadsImage, Upload
  <2>. QED
    BY <1>1, <2>5, <2>6, <2>7, <2>8
<1>. QED
  BY <1>2, <1>3 DEF SetEffectCmd, EffectWithoutImage, EffectReusesImage,
     EffectFailsToLoad, EffectLosesProcess

LEMMA BlankMade ==
    ASSUME TypeOK, ContextInv, NEW e \in Env, NewDefaultSdkEnv(e), sdk'[e].life = "live"
    PROVE  /\ Core(sdk'[e]) = <<"live", "ok", TRUE, "off">>
           /\ sdk'[e].linked
           /\ egl'[e].context # NoCtx /\ CurrentOf(e)' = egl'[e].context
           /\ UNCHANGED <<user, shown, target, bound>>
           /\ user[e] = BlankUser
<1>1. sdk[e] \in SdkRecord /\ egl[e] \in EglRecord /\ ThreadOf[e] \in Thread
  BY DEF TypeOK
<1>2. user[e] = BlankUser
  <2>1. sdk[e].life = "none"
    BY DEF NewDefaultSdkEnv
  <2>. QED
    BY <2>1 DEF ContextInv, UnusedIsFresh, FreshIsBlank
<1>3. CASE sdk' = [sdk EXCEPT ![e].life = "freed"]
  BY <1>1, <1>3, LifeUntouched DEF TypeOK
<1> DEFINE r == [BlankSdk EXCEPT !.life = "live", !.type = "off",
                   !.status = TRUE, !.ret = "ok", !.linked = TRUE, !.cmd = "empty"]
<1>4. ASSUME NEW ctx \in Ctx \ made, EglCalls(e, AllDone, ctx), sdk' = [sdk EXCEPT ![e] = r]
      PROVE  /\ Core(sdk'[e]) = <<"live", "ok", TRUE, "off">> /\ sdk'[e].linked
             /\ egl'[e].context # NoCtx /\ CurrentOf(e)' = egl'[e].context
  <2>1. r.linked /\ Core(r) = <<"live", "ok", TRUE, "off">>
    BY CoreStarts DEF BlankSdk
  <2> HIDE DEF r
  <2>2. egl' = [egl EXCEPT ![e] = EglAfter(egl[e], AllDone, ctx)]
    BY <1>4 DEF EglCalls
  <2>3. EglAfter(egl[e], AllDone, ctx).context = ctx
    BY DEF EglAfter, AllDone, CreateContext
  <2>4. current' = [current EXCEPT ![ThreadOf[e]] = ctx]
    BY <1>4 DEF EglCalls, CurrentAfterInit, AllDone, MakeCurrent
  <2>. QED
    BY <1>1, <1>4, <2>1, <2>2, <2>3, <2>4, NoCtxAssumption DEF TypeOK, CurrentOf
<1>. QED
  BY <1>2, <1>3, <1>4 DEF NewDefaultSdkEnv

-----------------------------------------------------------------------------
(* The console program.  main's instance while there are calls left, and   *)
(* what it is like at each of them: nothing but main uses it, and main     *)
(* tests nothing, so that what a call needs must come from those before.   *)
MainEnv == IF Len(todo) = 8 THEN local ELSE ptr[Main]

OffScreen(e) ==
    /\ Core(sdk[e]) = <<"live", "ok", TRUE, "off">> /\ sdk[e].linked
    /\ egl[e].context # NoCtx /\ CurrentOf(e) = egl[e].context

HasNothing(e) == user[e].input = NoPath /\ user[e].param = NoImage

HasPath(e) == user[e].input = argv[1] /\ user[e].active = "path" /\ user[e].param = NoImage

HasPicture(e) ==
    user[e].param # NoImage =>
       user[e].param.src = argv[1] /\ shown[egl[e].context] = user[e].param

HasDrawn(e) == user[e].param # NoImage => target[egl[e].context] = user[e].param

MainAt(left, e) ==
    /\ left \in 1 .. 8 /\ e # NoEnv =>
          /\ OffScreen(e)
          /\ left \in {7, 8} => HasNothing(e)
          /\ left \in 4 .. 6 => HasPath(e)
          /\ left \in 1 .. 4 => sdk[e].hooks
          /\ left \in 1 .. 3 => HasPicture(e)
          /\ left \in 1 .. 2 => HasDrawn(e)
    /\ left \in 0 .. 1 /\ PostfixOf[argv[2]] \in {"jpg", "png"} =>
          saved # NoImage /\ saved.src = argv[1]

MainInv ==
    host = "console" /\ argv # << >> /\ proc = "running" =>
       /\ argv \in Path \X Outputs
       /\ Rest(todo, MainCalls(argv[1], argv[2]))
       /\ MainAt(Len(todo), MainEnv)

(* The call that is made, and the instance it is made on.                  *)
LEMMA MainCall ==
    ASSUME HostInv, MainInv, Call, host = "console", argv # << >>
    PROVE  LET c == todo[1]
               left == Len(todo)
           IN  /\ argv \in Path \X Outputs /\ left \in 1 .. 9 /\ UNCHANGED argv
               /\ c = MainCalls(argv[1], argv[2])[10 - left]
               /\ left = 9 => c = OnLocal("newDefaultSdkEnv", Main)
               /\ left = 8 => c = OnLocal("return", Main)
               /\ left = 7 => c = OnKept("setInputImagePath", Main, argv[1])
               /\ left = 6 => c = OnKept("setOutputImagePath", Main, argv[2])
               /\ left = 5 => c = OnKept("sdkMain", Main, NoArg)
               /\ left = 4 => c = OnKept("setEffectCmd", Main, ConsoleCmd)
               /\ left = 3 => c = OnKept("onSdkDraw", Main, NoArg)
               /\ left = 2 => c = OnKept("saveImage", Main, argv[2])
               /\ left = 1 => c = OnKept("freeSdkEnv", Main, NoArg)
               /\ c \in Calls /\ MainAt(left, MainEnv)
               /\ Rest(Tail(todo), MainCalls(argv[1], argv[2]))
               /\ Len(Tail(todo)) = left - 1
               /\ MainEnv \in Env \cup {NoEnv}
               /\ \/ Allocate(c) /\ todo' = Tail(todo) /\ UNCHANGED <<ptr, saved>>
                  \/ SdkCall(c) /\ todo' = Tail(todo) /\ UNCHANGED <<local, ptr, saved>>
                  \/ JniStep(c) /\ UNCHANGED saved
                  \/ SaveImage(c) /\ todo' = Tail(todo) /\ UNCHANGED <<local, ptr>>
<1>1. /\ PointersTyped /\ todo # << >> /\ proc = "running" /\ Head(todo) = todo[1]
      /\ todo[1] \in Calls
  BY FirstCall DEF HostInv, Call
<1>2. /\ argv \in Path \X Outputs /\ Rest(todo, MainCalls(argv[1], argv[2]))
      /\ MainAt(Len(todo), MainEnv)
  BY <1>1 DEF MainInv
<1>3. Len(MainCalls(argv[1], argv[2])) = 9
  BY <1>2, MainCallList
<1> DEFINE t == MainCalls(argv[1], argv[2])
<1> HIDE DEF t
<1>4. /\ Len(todo) \in 1 .. 9 /\ todo[1] = t[1 + (9 - Len(todo))]
      /\ Len(Tail(todo)) = Len(todo) - 1 /\ Rest(Tail(todo), t)
  <2>1. Rest(todo, t) /\ Len(t) = 9
    BY <1>2, <1>3 DEF t
  <2>2. Len(t) \in Nat
    BY <2>1
  <2>3. /\ Len(todo) \in 1 .. Len(t) /\ todo[1] = t[1 + (Len(t) - Len(todo))]
        /\ Len(Tail(todo)) = Len(todo) - 1 /\ Rest(Tail(todo), t)
    BY <1>1, <2>1, <2>2, RestMoves, Zenon
  <2>. QED
    BY <2>1, <2>3
<1>5. 1 + (9 - Len(todo)) = 10 - Len(todo)
  BY <1>4
<1>6. MainEnv \in Env \cup {NoEnv}
  BY <1>1 DEF MainEnv, PointersTyped
<1>7. ASSUME NEW left, left = Len(todo), NEW c, c = todo[1]
      PROVE  /\ left = 9 => c = OnLocal("newDefaultSdkEnv", Main)
             /\ left = 8 => c = OnLocal("return", Main)
             /\ left = 7 => c = OnKept("setInputImagePath", Main, argv[1])
             /\ left = 6 => c = OnKept("setOutputImagePath", Main, argv[2])
             /\ left = 5 => c = OnKept("sdkMain", Main, NoArg)
             /\ left = 4 => c = OnKept("setEffectCmd", Main, ConsoleCmd)
             /\ left = 3 => c = OnKept("onSdkDraw", Main, NoArg)
             /\ left = 2 => c = OnKept("saveImage", Main, argv[2])
             /\ left = 1 => c = OnKept("freeSdkEnv", Main, NoArg)
  <2>1. /\ left \in 1 .. 9 /\ c = MainCalls(argv[1], argv[2])[10 - left]
        /\ argv[1] \in Path /\ argv[2] \in Outputs
    BY <1>2, <1>4, <1>5, <1>7 DEF t
  <2>. QED
    BY <2>1, MainCallAt
<1>. QED
  BY <1>1, <1>2, <1>4, <1>5, <1>6, <1>7 DEF Call, glueVars, t

LEMMA MainCreates ==
    ASSUME HostInv, ClientInv, NEW c \in Calls, CallSafe(c), c.who = Main,
           c.api = "newDefaultSdkEnv", Allocate(c), local' # NoEnv
    PROVE  /\ local' \in Env
           /\ \A e \in {local'} : OffScreen(e)' /\ HasNothing(e)'
<1>1. TypeOK /\ ContextInv
  BY DEF ClientInv, InputInv
<1> DEFINE e == CHOOSE x \in Unused(c.who) : TRUE
<1>2. e \in Unused(c.who)
  BY DEF CallSafe, Allocates
<1>3. e \in Env
  BY <1>2, EnvsOfAssumption DEF Unused, Calls
<1>4. NewDefaultSdkEnv(e) /\ local' = e /\ sdk'[e].life = "live"
  BY Zenon DEF Allocate
<1> HIDE DEF e
<1>5. PICK f \in Env : NewDefaultSdkEnv(f) /\ local' = f /\ sdk'[f].life = "live"
  BY <1>3, <1>4
<1>6. /\ Core(sdk'[f]) = <<"live", "ok", TRUE, "off">> /\ sdk'[f].linked
      /\ egl'[f].context # NoCtx /\ CurrentOf(f)' = egl'[f].context
      /\ user'[f] = BlankUser
  BY <1>1, <1>5, BlankMade
<1>7. OffScreen(f)' /\ HasNothing(f)'
  BY <1>6 DEF OffScreen, HasNothing, BlankUser
<1>. QED
  BY <1>5, <1>7

LEMMA OffScreenStays ==
    ASSUME NEW e \in Env, OffScreen(e), Core(sdk'[e]) = Core(sdk[e]),
           sdk'[e].linked = sdk[e].linked, egl'[e].context = egl[e].context,
           UNCHANGED current
    PROVE  OffScreen(e)'
  BY DEF OffScreen, CurrentOf

(* Each call on main's instance, in their order.                           *)
LEMMA MainEdits ==
    ASSUME HostInv, ClientInv, NEW left \in 3 .. 7, argv \in Path \X Outputs,
           UNCHANGED argv, NEW e \in Env, MainAt(left, e),
           Api(MainCalls(argv[1], argv[2])[10 - left], e)
    PROVE  MainAt(left - 1, e)'
<1>1. /\ TypeOK /\ argv[1] \in Path /\ argv[2] \in Outputs
      /\ e # NoEnv /\ OffScreen(e)
  BY DEF ClientInv, InputInv, MainAt
<1>2. CASE left = 7
  <2>1. SetInput(e, argv[1])
    BY <1>1, <1>2, MainCallList, ApiChosen, KeptFields, LocalFields
  <2>2. user[e].input # argv[1] /\ HasNothing(e)
    BY <1>1, <1>2, NoPathAssumption DEF MainAt, HasNothing
  <2>3. OffScreen(e)'
    BY <1>1, <2>1, PathTaken, OffScreenStays DEF glVars
  <2>4. HasPath(e)'
    BY <1>1, <2>1, <2>2, PathTaken DEF HasNothing, HasPath
  <2>. QED
    BY <1>2, <2>3, <2>4 DEF MainAt
<1>3. CASE left = 6
  <2>1. SetOutputImagePath(e, argv[2])
    BY <1>1, <1>3, MainCallList, ApiChosen, KeptFields, LocalFields
  <2>2. OffScreen(e)'
    BY <1>1, <2>1, OutputTaken, OffScreenStays DEF glVars
  <2>3. HasPath(e)'
    BY <1>1, <1>3, <2>1, OutputTaken DEF MainAt, HasPath
  <2>. QED
    BY <1>3, <2>2, <2>3 DEF MainAt
<1>4. CASE left = 5
  <2>1. RunSdk(e)
    BY <1>1, <1>4, MainCallList, ApiChosen, KeptFields, LocalFields
  <2>2. OffScreen(e)'
    BY <1>1, <2>1, HooksSet, OffScreenStays DEF glVars
  <2>3. HasPath(e)' /\ sdk'[e].hooks
    BY <1>1, <1>4, <2>1, HooksSet DEF MainAt, HasPath
  <2>. QED
    BY <1>4, <2>2, <2>3 DEF MainAt
<1>5. CASE left = 4
  <2>1. SetEffectCmd(e, ConsoleCmd)
    BY <1>1, <1>5, MainCallList, ApiChosen, KeptFields, LocalFields
  <2>2. OffScreen(e)' /\ sdk'[e].hooks
    BY <1>1, <1>5, <2>1, EffectSet, OffScreenStays DEF MainAt
  <2>3. HasPath(e)
    BY <1>1, <1>5 DEF MainAt
  <2>4. CASE UNCHANGED user
    BY <1>5, <2>2, <2>3, <2>4 DEF MainAt, HasPath, HasPicture
  <2>5. CASE LoadedInto(e, CurrentOf(e))
    <3>1. user'[e].param.src = argv[1]
      BY <1>1, <2>3, <2>5, DecodedTyped DEF LoadedInto, HasPath
    <3>2. CurrentOf(e) \in Ctx /\ egl[e].context = CurrentOf(e) /\ egl[e].context # NoCtx
      BY <1>1 DEF OffScreen, TypeOK, EglRecord
    <3>3. shown'[egl[e].context] = user'[e].param /\ egl'[e].context = egl[e].context
      BY <1>1, <2>1, <2>5, <3>2, EffectSet DEF LoadedInto, TypeOK
    <3>. QED
      BY <1>5, <2>2, <3>1, <3>3 DEF MainAt, HasPicture
  <2>. QED
    BY <1>1, <2>1, <2>4, <2>5, EffectSet
<1>6. CASE left = 3
  <2>1. Draw(e)
    BY <1>1, <1>6, MainCallList, ApiChosen, KeptFields, LocalFields
  <2>2. CurrentOf(e) = egl[e].context /\ egl[e].context \in Ctx /\ egl[e].context # NoCtx
    BY <1>1 DEF OffScreen, TypeOK, EglRecord
  <2>3. OnSdkDraw(e)
    BY <1>1, <1>6, <2>1, <2>2 DEF Draw, MainAt
  <2>4. OffScreen(e)' /\ HasPicture(e)' /\ sdk'[e].hooks
    BY <1>1, <1>6, <2>3, OffScreenStays DEF OnSdkDraw, MainAt, HasPicture
  <2>5. sdk[e].type = "off" /\ sdk[e].linked
    BY <1>1 DEF OffScreen, Core
  <2>6. DrawnTo(e, egl[e].context) = shown[egl[e].context]
    BY <2>5 DEF DrawnTo, OffScreenCtx
  <2>7. target'[egl[e].context] = shown[egl[e].context]
    BY <2>2, <2>3, <2>6 DEF OnSdkDraw, TypeOK, ClientInv, InputInv
  <2>8. HasDrawn(e)'
    BY <1>6, <1>1, <2>3, <2>7 DEF OnSdkDraw, MainAt, HasPicture, HasDrawn
  <2>. QED
    BY <1>6, <2>4, <2>8 DEF MainAt
<1>. QED
  BY <1>2, <1>3, <1>4, <1>5, <1>6

LEMMA MainStep ==
    ASSUME HostInv, ClientInv, MainInv, Call, host = "console", argv # << >>,
           proc' = "running"
    PROVE  MainInv'
<1>0. PICK left, c, t : left = Len(todo) /\ c = todo[1] /\ t = MainCalls(argv[1], argv[2])
  OBVIOUS
<1>1. /\ argv \in Path \X Outputs /\ left \in 1 .. 9 /\ UNCHANGED argv
      /\ c = t[10 - left] /\ c \in Calls /\ CallSafe(c)
      /\ MainAt(left, MainEnv) /\ MainEnv \in Env \cup {NoEnv}
      /\ Rest(Tail(todo), t) /\ Len(Tail(todo)) = left - 1
  BY <1>0, MainCall, FirstCall DEF HostInv, Call
<1>2. \/ Allocate(c) /\ todo' = Tail(todo) /\ UNCHANGED <<ptr, saved>>
      \/ SdkCall(c) /\ todo' = Tail(todo) /\ UNCHANGED <<local, ptr, saved>>
      \/ JniStep(c) /\ UNCHANGED saved
      \/ SaveImage(c) /\ todo' = Tail(todo) /\ UNCHANGED <<local, ptr>>
  BY <1>0, MainCall
<1>3. argv[1] \in Path /\ argv[2] \in Outputs
  BY <1>1
<1>4. /\ left = 9 => c = OnLocal("newDefaultSdkEnv", Main)
      /\ left = 8 => c = OnLocal("return", Main)
      /\ left = 7 => c = OnKept("setInputImagePath", Main, argv[1])
      /\ left = 6 => c = OnKept("setOutputImagePath", Main, argv[2])
      /\ left = 5 => c = OnKept("sdkMain", Main, NoArg)
      /\ left = 4 => c = OnKept("setEffectCmd", Main, ConsoleCmd)
      /\ left = 3 => c = OnKept("onSdkDraw", Main, NoArg)
      /\ left = 2 => c = OnKept("saveImage", Main, argv[2])
      /\ left = 1 => c = OnKept("freeSdkEnv", Main, NoArg)
  BY <1>0, MainCall
<1>5. ASSUME todo' = Tail(todo), NEW e, e = MainEnv', MainAt(left - 1, e)'
      PROVE  MainInv'
  <2>1. Len(todo') = left - 1 /\ Rest(todo', MainCalls(argv[1], argv[2]))
    BY <1>0, <1>1, <1>5
  <2>. QED
    BY <1>1, <1>5, <2>1 DEF MainInv
<1>6. /\ SdkCall(c) => c.api \in ApiNames
      /\ Allocate(c) => c.api \in {"newBlankSdkEnv", "newDefaultSdkEnv"}
      /\ JniStep(c) => c.api \in {"lookup", "check", "init", "return", "onSuccess"}
      /\ SaveImage(c) => c.api = "saveImage"
  BY DEF SdkCall, Allocate, SaveImage, JniStep, Lookup, CheckPointer, CheckInit,
     ReturnPointer, OnSuccess
<1>12. ASSUME todo' = Tail(todo)
       PROVE  Len(todo') = left - 1 /\ Len(todo) = left
  BY <1>0, <1>1, <1>12, Zenon
<1>13. /\ left = 9 => left - 1 = 8
       /\ left = 8 => left - 1 = 7
       /\ left = 2 => left - 1 = 1
       /\ left \in 3 .. 7 => left # 8 /\ left - 1 # 8
  OBVIOUS
<1>7. CASE left = 9
  <2>1. Allocate(c) /\ todo' = Tail(todo)
    BY <1>2, <1>4, <1>6, <1>7, KeptFields, LocalFields DEF ApiNames
  <2>2. MainEnv' = local'
    BY <1>7, <1>12, <1>13, <2>1 DEF MainEnv
  <2>3. ASSUME NEW e, e = local', e # NoEnv PROVE OffScreen(e)' /\ HasNothing(e)'
    <3>1. c.who = Main /\ c.api = "newDefaultSdkEnv"
      BY <1>4, <1>7, KeptFields, LocalFields
    <3>2. \A f \in {local'} : OffScreen(f)' /\ HasNothing(f)'
      BY <1>1, <2>1, <2>3, <3>1, MainCreates
    <3>. QED
      BY <2>3, <3>2
  <2>4. ASSUME NEW e, e = local' PROVE MainAt(8, e)'
    BY <2>3, <2>4 DEF MainAt
  <2>. QED
    BY <1>5, <1>7, <2>1, <2>2, <2>4
<1>8. CASE left = 8
  <2>1. c.api = "return" /\ c.who = Main
    BY <1>4, <1>8, KeptFields, LocalFields
  <2>2. ReturnPointer(c) /\ UNCHANGED saved
    BY <1>2, <1>6, <2>1
    DEF ApiNames, JniStep, Lookup, CheckPointer, CheckInit, OnSuccess
  <2>3. /\ todo' = Tail(todo) /\ UNCHANGED <<vars, saved>>
        /\ ptr' = [ptr EXCEPT ![Main] = local] /\ ptr \in [Holder -> Env \cup {NoEnv}]
    BY <2>1, <2>2 DEF ReturnPointer, HostInv, PointersTyped
  <2>4. Len(todo) = 8 /\ Len(todo') = 7
    BY <1>8, <1>12, <1>13, <2>3, Zenon
  <2>7. ptr'[Main] = local
    BY <2>3
  <2>5. MainEnv = local /\ MainEnv' = local
    BY <2>4, <2>7 DEF MainEnv
  <2>6. ASSUME NEW e, e = local PROVE MainAt(7, e)'
    <3>1. e # NoEnv => OffScreen(e) /\ HasNothing(e)
      BY <1>1, <1>8, <2>5, <2>6 DEF MainAt
    <3>2. e # NoEnv => OffScreen(e)' /\ HasNothing(e)'
      BY <2>3, <3>1 DEF vars, OffScreen, HasNothing, CurrentOf
    <3>. QED
      BY <3>2 DEF MainAt
  <2>. QED
    BY <1>5, <1>8, <2>3, <2>5, <2>6
<1>9. CASE left \in 3 .. 7
  <2>1. SdkCall(c) /\ todo' = Tail(todo) /\ UNCHANGED <<ptr, saved>>
    BY <1>2, <1>4, <1>6, <1>9, KeptFields, LocalFields DEF ApiNames
  <2>5. c.via = "kept" /\ c.who = Main
    BY <1>4, <1>9, KeptFields, LocalFields
  <2>6. Len(todo) # 8 /\ Len(todo') # 8
    BY <1>9, <1>12, <1>13, <2>1, Zenon
  <2>2. MainEnv' = ptr[Main] /\ MainEnv = ptr[Main] /\ Subject(c) = ptr[Main]
    BY <2>1, <2>5, <2>6 DEF MainEnv, Subject
  <2>3. CASE ptr[Main] = NoEnv
    BY <1>1, <1>5, <1>9, <2>1, <2>2, <2>3 DEF MainAt
  <2>4. CASE ptr[Main] # NoEnv
    <3>1. PICK e \in Env : e = ptr[Main] /\ e # NoEnv
      BY <1>1, <2>2, <2>4
    <3>5. MainAt(left, e)
      BY <1>1, <2>2, <3>1
    <3>6. OffScreen(e)
      BY <1>9, <3>1, <3>5 DEF MainAt
    <3>2. MainAt(left, e) /\ sdk[e].life = "live"
      BY <3>5, <3>6 DEF OffScreen, Core
    <3>3. Api(t[10 - left], e)
      BY <1>1, <2>1, <2>2, <3>1, <3>2 DEF SdkCall, Gone
    <3>4. MainAt(left - 1, e)'
      BY <1>1, <1>9, <1>0, <3>2, <3>3, MainEdits
    <3>. QED
      BY <1>5, <2>1, <2>2, <3>1, <3>4
  <2>. QED
    BY <2>3, <2>4
<1>10. CASE left = 2
  <2>1. SaveImage(c) /\ todo' = Tail(todo) /\ UNCHANGED ptr
    BY <1>2, <1>4, <1>6, <1>10, KeptFields, LocalFields DEF ApiNames
  <2>9. Len(todo) = 2 /\ Len(todo') = 1
    BY <1>10, <1>12, <1>13, <2>1, Zenon
  <2>2. MainEnv' = ptr[Main] /\ MainEnv = ptr[Main] /\ c.who = Main /\ c.arg = argv[2]
    <3>1. c.who = Main /\ c.arg = argv[2]
      BY <1>4, <1>10, KeptFields
    <3>2. Len(todo) # 8 /\ Len(todo') # 8
      BY <2>9
    <3>3. ptr' = ptr
      BY <2>1
    <3>4. MainEnv = ptr[Main]
      BY <3>2 DEF MainEnv
    <3>5. MainEnv' = ptr[Main]
      BY <3>2, <3>3 DEF MainEnv
    <3>. QED
      BY <3>1, <3>4, <3>5
  <2>3. /\ ptr[Main] # NoEnv /\ user[ptr[Main]].param # NoImage
        /\ UNCHANGED <<sdk, egl, user, effect, glVars>>
        /\ PostfixOf[argv[2]] \in {"jpg", "png"} => saved' = target[CurrentOf(ptr[Main])]
    BY <2>1, <2>2 DEF SaveImage
  <2>4. PICK e \in Env : e = ptr[Main]
    BY <1>1, <2>2, <2>3
  <2>5. /\ OffScreen(e) /\ HasPicture(e) /\ HasDrawn(e) /\ sdk[e].hooks
    BY <1>1, <1>10, <2>2, <2>3, <2>4 DEF MainAt
  <2>6. OffScreen(e)' /\ HasPicture(e)' /\ HasDrawn(e)' /\ sdk'[e].hooks
    BY <1>1, <2>3, <2>5, OffScreenStays DEF glVars, HasPicture, HasDrawn
  <2>7. PostfixOf[argv[2]] \in {"jpg", "png"} =>
           saved' = user[e].param /\ user[e].param # NoImage /\ user[e].param.src = argv[1]
    BY <2>3, <2>4, <2>5 DEF OffScreen, HasPicture, HasDrawn
  <2>8. MainAt(1, e)'
    BY <1>1, <2>6, <2>7 DEF MainAt
  <2>. QED
    BY <1>5, <1>10, <2>1, <2>2, <2>4, <2>8
<1>11. CASE left = 1
  <2>1. SdkCall(c) /\ todo' = Tail(todo) /\ UNCHANGED saved
    BY <1>2, <1>4, <1>6, <1>11, KeptFields, LocalFields DEF ApiNames
  <2>2. ASSUME NEW e PROVE MainAt(0, e)'
    BY <1>1, <1>11, <2>1 DEF MainAt
  <2>. QED
    BY <1>5, <1>11, <2>1, <2>2
<1>. QED
  BY <1>1, <1>7, <1>8, <1>9, <1>10, <1>11

(* main starts, or its program makes a call.                               *)
LEMMA MainKept ==
    ASSUME HostInv, ClientInv, MainInv, host = "console", Call \/ ConsoleStep
    PROVE  MainInv'
<1>1. CASE Call
  <2>1. argv # << >> /\ UNCHANGED argv
    BY <1>1 DEF Call, HostInv, KeptUsable, glueVars
  <2>. QED
    BY <1>1, <2>1, MainStep DEF MainInv
<1>2. CASE ConsoleStep
  <2>1. PICK input \in Path, output \in Outputs : RunMain(input, output)
    BY <1>2 DEF ConsoleStep, ConsoleEvent
  <2>2. /\ argv' = <<input, output>> /\ todo' = MainCalls(input, output)
        /\ Len(todo') = 9
    BY <2>1, MainCallList DEF RunMain
  <2>3. argv'[1] = input /\ argv'[2] = output /\ argv' \in Path \X Outputs
    BY <2>2
  <2>4. Rest(todo', todo')
    <3>1. \A i \in 1 .. 9 : i + (9 - 9) = i
      OBVIOUS
    <3>. QED
      BY <2>2, <3>1 DEF Rest
  <2>5. ASSUME NEW e PROVE MainAt(9, e)'
    BY DEF MainAt
  <2>6. Rest(todo', MainCalls(argv'[1], argv'[2]))
    BY <2>2, <2>3, <2>4
  <2>7. PICK e : e = MainEnv'
    OBVIOUS
  <2>. QED
    BY <2>2, <2>3, <2>5, <2>6, <2>7 DEF MainInv
<1>. QED
  BY <1>1, <1>2

(* What is left of main, and nothing else, saves an image.                 *)
NoSave(s) == \A i \in 1 .. Len(s) : s[i].api # "saveImage"

OtherTyped ==
    /\ answered \subseteq Holder
    /\ saved \in Picture \cup {NoImage}
    /\ fed \in Env \cup {NoEnv}
    /\ disturbed \in BOOLEAN
    /\ window \in {"before", "there", "gone"}
    /\ argv = << >> \/ argv \in Path \X Outputs
    /\ host # "console" => argv = << >> /\ NoSave(todo)

LEMMA HandlersSaveNothing ==
    ASSUME NEW h
    PROVE  /\ NoSave(<< >>)
           /\ NoSave(InitSDK(h)) /\ NoSave(InitRenderSDK(h)) /\ NoSave(FreeSDK(h))
           /\ \A path, output, cmd : NoSave(ClickCalls(h, path, output, cmd))
           /\ \A cmd : NoSave(AgainCalls(h, cmd))
<1>1. NoSave(<< >>)
  BY DEF NoSave
<1>2. NoSave(InitSDK(h)) /\ NoSave(InitRenderSDK(h)) /\ NoSave(FreeSDK(h))
  <2>1. PICK t, u, w : t = InitSDK(h) /\ u = InitRenderSDK(h) /\ w = FreeSDK(h)
    OBVIOUS
  <2>2. /\ Len(t) = 7 /\ Len(u) = 9 /\ Len(w) = 1
        /\ t[1].api = "lookup" /\ t[2].api = "newBlankSdkEnv" /\ t[3].api = "check"
        /\ t[4].api = "setPlatformData" /\ t[5].api = "initSdkEnv"
        /\ t[6].api = "init" /\ t[7].api = "return"
        /\ u[1].api = "lookup" /\ u[2].api = "newBlankSdkEnv" /\ u[3].api = "check"
        /\ u[4].api = "setEglNativeWindow" /\ u[5].api = "setPlatformData"
        /\ u[6].api = "initSdkEnv" /\ u[7].api = "init" /\ u[8].api = "sdkMain"
        /\ u[9].api = "return" /\ w[1].api = "freeSdkEnv"
    BY <2>1, SetUpLists, KeptFields, LocalFields
  <2>. QED
    BY <2>1, <2>2 DEF NoSave
<1>3. ASSUME NEW path, NEW output, NEW cmd
      PROVE  NoSave(ClickCalls(h, path, output, cmd)) /\ NoSave(AgainCalls(h, cmd))
  <2>1. PICK t, u : t = ClickCalls(h, path, output, cmd) /\ u = AgainCalls(h, cmd)
    OBVIOUS
  <2>2. /\ Len(t) = 6 /\ Len(u) = 4
        /\ t[1].api = "setInputImagePath" /\ t[2].api = "setOutputImagePath"
        /\ t[3].api = "setEffectCmd" /\ t[4].api = "swapEglBuffers"
        /\ t[5].api = "onSdkDraw" /\ t[6].api = "onSuccess"
        /\ u[1] = t[3] /\ u[2] = t[4] /\ u[3] = t[5] /\ u[4] = t[6]
    BY <2>1, ClickList, KeptFields, LocalFields
  <2>. QED
    BY <2>1, <2>2 DEF NoSave
<1>. QED
  BY <1>1, <1>2, <1>3

LEMMA AppTyped ==
    ASSUME HostInv, OtherTyped, AppStep
    PROVE  OtherTyped'
<1>1. /\ host = "app" /\ todo = << >> /\ AppEvent /\ PointersTyped
      /\ UNCHANGED <<saved, glueVars, host>> /\ argv = << >>
  BY DEF AppStep, Idle, HostInv, OtherTyped
<1>2. /\ answered' \subseteq Holder
      /\ fed' \in Env \cup {NoEnv}
      /\ disturbed' \in BOOLEAN
  BY <1>1 DEF AppEvent, HomeCreate, HomeDestroy, HomePick, HomeLoad, HomeGo,
     SurfaceCreated, SurfaceDestroyed, RenderClick, RenderStop, RenderRestart,
     RenderRotate, RenderBack, RenderDestroyed, OtherTyped, PointersTyped, RenderRecord
<1>3. NoSave(todo')
  <2>1. CASE HomeCreate \/ HomeDestroy \/ SurfaceCreated \/ SurfaceDestroyed
    BY <2>1, HandlersSaveNothing
    DEF HomeCreate, HomeDestroy, SurfaceCreated, SurfaceDestroyed, Start
  <2>2. CASE HomeLoad
    BY <2>2, HandlersSaveNothing DEF HomeLoad, Start, ClickCalls
  <2>3. CASE RenderClick
    <3>1. PICK output \in Outputs :
            todo' = (IF render.given THEN << >>
                     ELSE SetInputPath(View, render.path) \o SetOutputPath(View, output))
                    \o SetCmd(View, NormalCmd) \o ExecuteCmd(View)
      BY <2>3 DEF RenderClick, Start
    <3>. QED
      BY <3>1, HandlersSaveNothing DEF ClickCalls, AgainCalls
  <2>4. CASE UNCHANGED todo
    BY <1>1, <2>4, HandlersSaveNothing
  <2>. QED
    BY <1>1, <2>1, <2>2, <2>3, <2>4 DEF AppEvent, HomePick, HomeGo, RenderStop,
       RenderRestart, RenderRotate, RenderBack, RenderDestroyed
<1>. QED
  BY <1>1, <1>2, <1>3 DEF OtherTyped, glueVars

LEMMA GlueTyped ==
    ASSUME HostInv, OtherTyped, GlueStep
    PROVE  OtherTyped'
<1>1. /\ host = "glue" /\ todo = << >> /\ GlueEvent /\ argv = << >>
      /\ UNCHANGED <<answered, saved, appVars, host, argv>>
  BY DEF GlueStep, Idle, OtherTyped, GlueEvent
<1>2. window' \in {"before", "there", "gone"} /\ NoSave(todo')
  <2>1. CASE \E app \in Glue : AndroidMain(app)
    BY <2>1, KeptFields, LocalFields DEF AndroidMain, NoSave
  <2>2. CASE InitWindow
    BY <2>2, KeptFields, LocalFields DEF InitWindow, NoSave
  <2>3. CASE GainedFocus
    BY <2>3, KeptFields, LocalFields DEF GainedFocus, NoSave, OtherTyped
  <2>4. CASE TermWindow \/ DestroyRequested
    BY <1>1, <2>4 DEF TermWindow, DestroyRequested, NoSave, OtherTyped
  <2>. QED
    BY <1>1, <2>1, <2>2, <2>3, <2>4 DEF GlueEvent
<1>. QED
  BY <1>1, <1>2 DEF OtherTyped, appVars

LEMMA CallTyped ==
    ASSUME HostInv, host # "glue" => ClientInv, MainInv, OtherTyped, Call
    PROVE  OtherTyped'
<1>1. /\ todo # << >> /\ Head(todo) = todo[1] /\ todo[1] \in Calls /\ PointersTyped
      /\ UNCHANGED <<appVars, glueVars, host>> /\ 1 \in Positions /\ proc = "running"
  BY FirstCall DEF Call, HostInv
<1>2. todo' = Tail(todo) \/ todo' = << >>
  BY <1>1 DEF Call, JniStep, Lookup, CheckPointer, CheckInit, ReturnPointer, OnSuccess,
     ReturnNull, GoOn
<1>3. NoSave(todo) => NoSave(todo')
  BY <1>1, <1>2, Remaining DEF NoSave, HostInv, Positions
<1>4. answered' \subseteq Holder
  BY <1>1 DEF OtherTyped, Calls, Call, JniStep, OnSuccess
<1>5. saved' \in Picture \cup {NoImage}
  <2>1. CASE SaveImage(todo[1])
    <3>1. host = "console"
      BY <1>1, <2>1 DEF SaveImage, OtherTyped, NoSave, Positions
    <3>2. argv # << >>
      BY <1>1, <3>1 DEF HostInv, KeptUsable
    <3>3. PICK left \in 1 .. 9 :
            /\ left = Len(todo)
            /\ left = 9 => todo[1] = OnLocal("newDefaultSdkEnv", Main)
            /\ left = 8 => todo[1] = OnLocal("return", Main)
            /\ left = 7 => todo[1] = OnKept("setInputImagePath", Main, argv[1])
            /\ left = 6 => todo[1] = OnKept("setOutputImagePath", Main, argv[2])
            /\ left = 5 => todo[1] = OnKept("sdkMain", Main, NoArg)
            /\ left = 4 => todo[1] = OnKept("setEffectCmd", Main, ConsoleCmd)
            /\ left = 3 => todo[1] = OnKept("onSdkDraw", Main, NoArg)
            /\ left = 2 => todo[1] = OnKept("saveImage", Main, argv[2])
            /\ left = 1 => todo[1] = OnKept("freeSdkEnv", Main, NoArg)
            /\ MainAt(left, MainEnv) /\ MainEnv \in Env \cup {NoEnv}
      BY <3>1, <3>2, MainCall
    <3>4. left = 2
      <4>1. todo[1].api = "saveImage"
        BY <2>1 DEF SaveImage
      <4>2. \A api, h, arg :
               OnLocal(api, h).api = api /\ OnKept(api, h, arg).api = api
        BY LocalFields, KeptFields
      <4>3. /\ left = 9 => todo[1].api = "newDefaultSdkEnv"
            /\ left = 8 => todo[1].api = "return"
            /\ left = 7 => todo[1].api = "setInputImagePath"
            /\ left = 6 => todo[1].api = "setOutputImagePath"
            /\ left = 5 => todo[1].api = "sdkMain"
            /\ left = 4 => todo[1].api = "setEffectCmd"
            /\ left = 3 => todo[1].api = "onSdkDraw"
            /\ left = 1 => todo[1].api = "freeSdkEnv"
        <5>1. left = 9 => todo[1].api = "newDefaultSdkEnv"
          BY <3>3, <4>2
        <5>2. left = 8 => todo[1].api = "return"
          BY <3>3, <4>2
        <5>3. left = 7 => todo[1].api = "setInputImagePath"
          BY <3>3, <4>2
        <5>4. left = 6 => todo[1].api = "setOutputImagePath"
          BY <3>3, <4>2
        <5>5. left = 5 => todo[1].api = "sdkMain"
          BY <3>3, <4>2
        <5>6. left = 4 => todo[1].api = "setEffectCmd"
          BY <3>3, <4>2
        <5>7. left = 3 => todo[1].api = "onSdkDraw"
          BY <3>3, <4>2
        <5>8. left = 1 => todo[1].api = "freeSdkEnv"
          BY <3>3, <4>2
        <5>. QED
          BY <5>1, <5>2, <5>3, <5>4, <5>5, <5>6, <5>7, <5>8
      <4>. QED
        BY <4>1, <4>3
    <3>5. MainEnv = ptr[Main] /\ todo[1].who = Main
      BY <3>3, <3>4, MainCallList, KeptFields, LocalFields DEF MainEnv
    <3>6. CASE ptr[Main] = NoEnv
      BY <2>1, <3>5, <3>6 DEF SaveImage, OtherTyped
    <3>7. CASE ptr[Main] # NoEnv
      <4>1. PICK e \in Env : e = ptr[Main]
        BY <3>3, <3>5, <3>7
      <4>4. MainAt(2, e) /\ e # NoEnv
        BY <3>3, <3>4, <3>5, <3>7, <4>1
      <4>3. CurrentOf(e) = egl[e].context /\ egl[e].context # NoCtx /\ TypeOK
        BY <3>1, <4>4 DEF MainAt, OffScreen, ClientInv, InputInv
      <4>2. CurrentOf(e) \in Ctx /\ target[CurrentOf(e)] \in Picture \cup {NoImage}
        BY <4>3 DEF TypeOK, EglRecord
      <4>. QED
        BY <2>1, <3>5, <4>1, <4>2 DEF SaveImage, OtherTyped
    <3>. QED
      BY <3>6, <3>7
  <2>. QED
    BY <1>1, <2>1 DEF Call, OtherTyped
<1>. QED
  BY <1>1, <1>3, <1>4, <1>5 DEF OtherTyped, appVars, glueVars

(* What the programs do, with main's progress and the remaining types.     *)
ProgramInv ==
    /\ HostInv
    /\ host # "glue" => ClientInv
    /\ MainInv
    /\ OtherTyped

LEMMA ProgramInit == HostInit => ProgramInv
<1> SUFFICES ASSUME HostInit PROVE ProgramInv
  OBVIOUS
<1>1. Positions = {} /\ InitOnce(todo) /\ NoSave(todo)
  BY EmptySeq DEF HostInit, CallsInit, Positions, InitOnce, NoSave
<1>2. HostInv /\ ClientInv
  BY <1>1, HostInitially, InputInit, ContextInit
  DEF HostInit, ClientInv, FreshLocal, CheckedFirst
<1>3. MainInv
  BY DEF HostInit, GlueInit, MainInv
<1>4. OtherTyped
  BY <1>1 DEF HostInit, CallsInit, AppInit, GlueInit, OtherTyped
<1>. QED
  BY <1>2, <1>3, <1>4 DEF ProgramInv

LEMMA ProgramStep == ProgramInv /\ [HostNext]_hostVars => ProgramInv'
<1> SUFFICES ASSUME ProgramInv, [HostNext]_hostVars PROVE ProgramInv'
  OBVIOUS
<1>1. /\ HostInv /\ HostInv' /\ MainInv /\ OtherTyped /\ UNCHANGED host
      /\ host # "glue" => ClientInv
  BY HostStep DEF ProgramInv, HostNext, hostVars, Call, AppStep, GlueStep, ConsoleStep
<1>2. CASE UNCHANGED hostVars
  <2>1. ASSUME ClientInv PROVE ClientInv'
    <3>1. InputInv' /\ ContextInv'
      BY <1>2, <2>1, ClientMoves DEF hostVars, ClientInv, StepOnce
    <3>. QED
      BY <1>2, <2>1, <3>1 DEF hostVars, vars, callVars, ClientInv, InitOnce, FreshLocal,
         CheckedFirst, Positions
  <2>2. MainInv'
    BY <1>1, <1>2 DEF hostVars, vars, callVars, glueVars, MainInv, MainAt, MainEnv,
       OffScreen, HasNothing, HasPath, HasPicture, HasDrawn, CurrentOf
  <2>3. OtherTyped'
    BY <1>1, <1>2 DEF hostVars, callVars, appVars, glueVars, OtherTyped
  <2>. QED
    BY <1>1, <2>1, <2>2, <2>3 DEF ProgramInv
<1>3. CASE HostNext
  <2>1. ASSUME host # "glue" PROVE ClientInv'
    BY <1>1, <1>3, <2>1, ClientStep, AppIsClient, ConsoleIsClient DEF HostNext, GlueStep
  <2>2. MainInv'
    <3>1. CASE host = "console"
      BY <1>1, <1>3, <3>1, MainKept DEF HostNext, AppStep, GlueStep
    <3>. QED
      BY <1>1, <3>1 DEF MainInv
  <2>3. OtherTyped'
    <3>1. CASE ConsoleStep
      BY <1>1, <3>1 DEF ConsoleStep, ConsoleEvent, RunMain, OtherTyped, appVars
    <3>. QED
      BY <1>1, <1>3, <3>1, CallTyped, AppTyped, GlueTyped DEF HostNext
  <2>. QED
    BY <1>1, <2>1, <2>2, <2>3 DEF ProgramInv
<1>. QED
  BY <1>2, <1>3

(* Every variable keeps its type in all three programs, and RenderActivity *)
(* is never started without a path (HomeActivity.java).                    *)
THEOREM HostsTypeCorrect == HostSpec => []HostTypeOK
<1>1. ProgramInv => HostTypeOK
  BY DEF ProgramInv, HostInv, PointersTyped, OtherTyped, HostTypeOK
<1>. QED
  BY <1>1, ProgramInit, ProgramStep, PTL DEF HostSpec

(* main tests nothing on its way (imgsdk.c:184-220).  Whatever fails in its *)
(* initialisation, in its loading or in its rendering: when it comes to its *)
(* end, it has saved the image it was given, as it was drawn.              *)
THEOREM ConsoleAlwaysSaves == HostSpec => []ConsoleSavesItsInput
<1>1. ProgramInv => ConsoleSavesItsInput
  <2> SUFFICES ASSUME ProgramInv, argv # << >>, Idle,
                      PostfixOf[argv[2]] \in {"jpg", "png"}
               PROVE  saved # NoImage /\ saved.src = argv[1]
    BY DEF ConsoleSavesItsInput
  <2>1. host = "console" /\ todo = << >> /\ proc = "running"
    BY DEF ProgramInv, OtherTyped, Idle
  <2>2. PICK e : e = MainEnv
    OBVIOUS
  <2>3. MainAt(0, e)
    BY <2>1, <2>2, EmptySeq DEF ProgramInv, MainInv
  <2>. QED
    BY <2>3 DEF MainAt
<1>. QED
  BY <1>1, ProgramInit, ProgramStep, PTL DEF HostSpec

-----------------------------------------------------------------------------
(* RenderActivity's view.  Its instance on a surface, once it is set up:   *)
OnScreen(e) == sdk[e].life = "live" /\ sdk[e].ret = "ok" /\ sdk[e].type = "on"

InCharge(e) == CurrentOf(e) = egl[e].context

(* what it draws is the image it keeps,                                    *)
Textured(e) ==
    egl[e].context \notin bound /\ shown[egl[e].context] = user[e].param

Works(e) ==
    /\ OnScreen(e) /\ sdk[e].hooks
    /\ ~disturbed => InCharge(e)
    /\ InCharge(e) /\ render.state \in {"front", "stopped"} => Textured(e)

(* that image is the activity's, if the paths were given to this instance, *)
FedRight(e) ==
    /\ user[e].input = render.path
    /\ user[e].param # NoImage => user[e].param.src = render.path

Given(e) == IF fed = e THEN FedRight(e) ELSE HasNothing(e)

(* and the window shows it.                                                *)
Shows(e) ==
    target[egl[e].context] = IF sdk[e].linked THEN user[e].param ELSE NoImage

Watched(e) ==
    IF e = NoEnv THEN View \notin answered
    ELSE Works(e) /\ Given(e) /\ (InCharge(e) /\ View \in answered => Shows(e))

(* A call of HomeActivity, while a surface is there: it moves the current  *)
(* context only behind RenderActivity's back, and draws only when that     *)
(* activity is on its way out.                                             *)
Moves(c) == Allocates(c) \/ c.api \in {"init", "initSdkEnv", "freeSdkEnv"}

Draws(c) == c.api \in {"setEffectCmd", "onSdkDraw"}

Harmless(c) ==
    /\ c.who = Home
    /\ Moves(c) => disturbed
    /\ Draws(c) => render.state \in {"absent", "leaving"}

(* surfaceCreated, with `left` calls to go on the local instance e.        *)
Fresh(e) == sdk[e].life = "live" /\ sdk[e].ret = "none"

Begun(e) == OnScreen(e) /\ InCharge(e) /\ HasNothing(e) /\ Textured(e)

SetUpAt(left, e) ==
    /\ e # NoEnv => fed # e
    /\ left \in 8 .. 9 => e = NoEnv
    /\ left \in 1 .. 6 => e # NoEnv
    /\ left \in 4 .. 7 /\ e # NoEnv => Fresh(e)
    /\ left \in 4 .. 5 => sdk[e].window
    /\ left \in 1 .. 3 /\ sdk[e].ret = "ok" => Begun(e)
    /\ left \in 1 .. 2 => sdk[e].ret = "ok"
    /\ left = 1 => sdk[e].hooks

SettingUp ==
    /\ ~disturbed /\ View \notin answered /\ ptr[View] = NoEnv
    /\ Rest(todo, InitRenderSDK(View))
    /\ SetUpAt(Len(todo), local)

(* A click, with `left` calls to go on the view's instance e.              *)
ClickAt(left, e) ==
    IF e = NoEnv THEN View \notin answered
    ELSE /\ Works(e)
         /\ left = 6 => fed = e /\ HasNothing(e)
         /\ left \in 1 .. 5 => Given(e)
         /\ left = 1 /\ InCharge(e) => Shows(e)

Clicking ==
    /\ render.state = "front"
    /\ \E output \in Outputs :
          Rest(todo, ClickCalls(View, render.path, output, NormalCmd))
    /\ ClickAt(Len(todo), ptr[View])

Watching ==
    /\ \A i \in Positions : Harmless(todo[i])
    /\ Watched(ptr[View])

(* A context that does not exist yet is empty.                             *)
Unmade == \A ctx \in Ctx \ made : shown[ctx] = NoImage /\ ctx \notin bound

Screen ==
    /\ home.state = "front" => render.state \in {"absent", "leaving"}
    /\ ~render.given => fed = NoEnv

ViewInv ==
    host = "app" /\ proc = "running" =>
       /\ Screen
       /\ fed # NoEnv => sdk[fed].life # "none"
       /\ Unmade
       /\ render.surface =>
             Watching \/ (todo # << >> /\ SettingUp) \/ (todo # << >> /\ Clicking)

-----------------------------------------------------------------------------
(* What a call on one instance leaves of another, whose window it cannot   *)
(* reach and whose context it can only take away.                          *)
Left(e) ==
    /\ Core(sdk'[e]) = Core(sdk[e])
    /\ sdk'[e].hooks = sdk[e].hooks /\ sdk'[e].linked = sdk[e].linked
    /\ egl'[e].context = egl[e].context
    /\ user'[e] = user[e]

Apart(e) ==
    /\ Left(e)
    /\ InCharge(e)' => InCharge(e)
    /\ target'[egl[e].context] = target[egl[e].context]

(* What an initialisation and freeing an instance do to EGL.               *)
Switched(o) ==
    \/ UNCHANGED current
    \/ \E ctx \in {NoCtx} \cup (Ctx \ made) :
          current' = [current EXCEPT ![ThreadOf[o]] = ctx]

LEMMA FreeMoves ==
    ASSUME TypeOK, NEW o \in Env, FreeSdkEnv(o)
    PROVE  /\ UNCHANGED <<shown, target, bound, made>>
           /\ SameBut(sdk', sdk, o) /\ SameBut(egl', egl, o) /\ SameBut(user', user, o)
           /\ Switched(o)
  BY DEF FreeSdkEnv, ReleaseSdkEnv, CurrentAfterFree, TypeOK, SameBut, Switched, glVars

LEMMA EglMoves ==
    ASSUME TypeOK, NEW o \in Env, NEW stop, NEW ctx \in Ctx \ made, EglCalls(o, stop, ctx)
    PROVE  made \subseteq made' /\ SameBut(egl', egl, o) /\ Switched(o)
  BY DEF EglCalls, CurrentAfterInit, TypeOK, SameBut, Switched

LEMMA InitMoves ==
    ASSUME TypeOK, NEW o \in Env, InitAgain(o)
    PROVE  /\ UNCHANGED <<shown, target, bound>> /\ made \subseteq made'
           /\ SameBut(sdk', sdk, o) /\ SameBut(egl', egl, o) /\ SameBut(user', user, o)
           /\ Switched(o)
<1>1. CASE InitRefused(o)
  BY <1>1 DEF InitRefused, TypeOK, SameBut, Switched, glVars
<1>2. CASE InitWithoutBuffer(o)
  BY <1>2 DEF InitWithoutBuffer, ReleaseSdkEnv, CurrentAfterFree, TypeOK, SameBut, Switched
<1>3. CASE InitWithEgl(o)
  <2>1. PICK stop \in (Stops \ {NewBuffer}) \cup {AllDone}, ctx \in Ctx \ made,
             linked \in BOOLEAN :
          /\ EglCalls(o, stop, ctx)
          /\ sdk' = [sdk EXCEPT ![o] = SdkAfter(@, stop, linked)]
          /\ UNCHANGED <<user, shown, bound, target>>
    BY <1>3 DEF InitWithEgl
  <2>2. made \subseteq made' /\ SameBut(egl', egl, o) /\ Switched(o)
    BY <2>1, EglMoves
  <2>. QED
    BY <2>1, <2>2 DEF TypeOK, SameBut
<1>. QED
  BY <1>1, <1>2, <1>3 DEF InitAgain

LEMMA NewMoves ==
    ASSUME TypeOK, NEW o \in Env, NewBlankSdkEnv(o) \/ NewDefaultSdkEnv(o)
    PROVE  /\ UNCHANGED <<user, shown, target, bound>> /\ made \subseteq made'
           /\ SameBut(sdk', sdk, o) /\ SameBut(egl', egl, o)
           /\ Switched(o)
<1>1. CASE NewBlankSdkEnv(o)
  BY <1>1 DEF NewBlankSdkEnv, TypeOK, SameBut, Switched, glVars
<1>2. CASE NewDefaultSdkEnv(o)
  <2>1. UNCHANGED <<user, shown, target, bound>>
    BY <1>2 DEF NewDefaultSdkEnv
  <2>2. ASSUME NEW ctx \in Ctx \ made, EglCalls(o, AllDone, ctx)
        PROVE  made \subseteq made' /\ SameBut(egl', egl, o) /\ Switched(o)
    BY <2>2, EglMoves
  <2>3. ASSUME current' \in {current, [current EXCEPT ![ThreadOf[o]] = NoCtx]},
               UNCHANGED <<egl, made>>
        PROVE  made \subseteq made' /\ SameBut(egl', egl, o) /\ Switched(o)
    BY <2>3 DEF SameBut, Switched
  <2>4. SameBut(sdk', sdk, o)
    <3> DEFINE r == [BlankSdk EXCEPT !.life = "live", !.type = "off",
                       !.status = TRUE, !.ret = "ok", !.linked = TRUE, !.cmd = "empty"]
               f == [sdk[o] EXCEPT !.life = "freed"]
    <3>1. sdk' = [sdk EXCEPT ![o] = r] \/ sdk' = [sdk EXCEPT ![o] = f]
      BY <1>2 DEF NewDefaultSdkEnv
    <3> HIDE DEF r, f
    <3>. QED
      BY <3>1 DEF TypeOK, SameBut
  <2>5. made \subseteq made' /\ SameBut(egl', egl, o) /\ Switched(o)
    BY <1>2, <2>2, <2>3 DEF NewDefaultSdkEnv
  <2>. QED
    BY <2>1, <2>4, <2>5
<1>. QED
  BY <1>1, <1>2

(* The context of a working instance is not handed out again.              *)
LEMMA ChargeOnlyLost ==
    ASSUME TypeOK, ContextInv, NEW e \in Env, sdk[e].ret = "ok",
           NEW o \in Env, Switched(o), egl'[e].context = egl[e].context
    PROVE  InCharge(e)' => InCharge(e)
<1>1. egl[e].context # NoCtx /\ egl[e].context \in made
  BY DEF ContextInv, ReadyHasContext, ContextsAreMade
<1>. QED
  BY <1>1 DEF InCharge, CurrentOf, Switched, TypeOK

LEMMA SwitchedApart ==
    ASSUME TypeOK, ContextInv, NEW o \in Env, NEW e \in Env \ {o}, OnScreen(e),
           SameBut(sdk', sdk, o), SameBut(egl', egl, o), SameBut(user', user, o),
           UNCHANGED target, Switched(o)
    PROVE  Apart(e)
<1>1. Left(e)
  BY DEF Left, SameBut
<1>. QED
  BY <1>1, ChargeOnlyLost DEF Apart, Left, OnScreen

LEMMA QuietMoves ==
    ASSUME TypeOK, NEW o \in Env, NEW c, Api(c, o),
           c.api \notin {"initSdkEnv", "freeSdkEnv", "setEffectCmd", "onSdkDraw",
                         "swapEglBuffers"},
           Fits(c)
    PROVE  /\ UNCHANGED <<egl, glVars>>
           /\ SameBut(sdk', sdk, o) /\ SameBut(user', user, o)
<1>1. CASE SetWindow(o)
  BY <1>1 DEF SetWindow, SetEglNativeWindow, TypeOK, SameBut, vars, glVars
<1>2. CASE SetPlatformData(o)
  BY <1>2 DEF SetPlatformData, TypeOK, SameBut, vars, glVars
<1>3. CASE RunSdk(o)
  BY <1>3, HooksSet DEF SameBut
<1>4. CASE c.api = "setInputImagePath" /\ SetInput(o, c.arg)
  BY <1>4, PathTaken DEF SameBut, Fits
<1>5. CASE SetOutputImagePath(o, c.arg)
  BY <1>5, OutputTaken DEF SameBut
<1>. QED
  BY <1>1, <1>2, <1>3, <1>4, <1>5 DEF Api

(* The calls that draw, on one instance and for another: what is uploaded  *)
(* and drawn goes to the context that is current, the window of another    *)
(* instance is not touched.                                                *)
LEMMA NotOffScreen ==
    ASSUME TypeOK, ContextInv, NEW e \in Env, OnScreen(e)
    PROVE  /\ egl[e].context # NoCtx /\ egl[e].context \in made
           /\ egl[e].context \in Ctx
           /\ ~OffScreenCtx(egl[e].context)
           /\ \A o \in Env \ {e} : egl[o].context # egl[e].context
<1>1. egl[e].context # NoCtx /\ egl[e].context \in made /\ egl[e].context \in Ctx
  BY DEF ContextInv, ReadyHasContext, ContextsAreMade, OnScreen, TypeOK
<1>2. \A o \in Env \ {e} : egl[o].context # egl[e].context
  BY <1>1 DEF ContextInv, ContextsDiffer
<1>. QED
  BY <1>1, <1>2 DEF OffScreenCtx, OnScreen

LEMMA EffectApart ==
    ASSUME TypeOK, ContextInv, NEW o \in Env, NEW e \in Env \ {o}, OnScreen(e),
           NEW cmd, SetEffectCmd(o, cmd)
    PROVE  Apart(e) /\ UNCHANGED current
<1>1. Left(e) /\ UNCHANGED current
  BY EffectSet DEF Left, SameBut
<1>2. target'[egl[e].context] = target[egl[e].context]
  <2>1. CASE UNCHANGED target
    BY <2>1
  <2>2. CASE LoadedInto(o, CurrentOf(o))
    <3>1. PICK ctx : ctx = CurrentOf(o)
      OBVIOUS
    <3>2. \/ UNCHANGED target
          \/ OffScreenCtx(ctx) /\ target' = [target EXCEPT ![ctx] = NoImage]
      BY <2>2, <3>1 DEF LoadedInto
    <3>3. ctx # egl[e].context \/ ~OffScreenCtx(ctx)
      BY NotOffScreen
    <3>. QED
      BY <3>2, <3>3, NotOffScreen DEF TypeOK
  <2>. QED
    BY <2>1, <2>2, EffectSet
<1>3. InCharge(e)' => InCharge(e)
  BY <1>1 DEF InCharge, CurrentOf, Left
<1>. QED
  BY <1>1, <1>2, <1>3 DEF Apart

LEMMA DrawApart ==
    ASSUME TypeOK, ContextInv, NEW o \in Env, NEW e \in Env \ {o}, OnScreen(e), Draw(o)
    PROVE  Apart(e) /\ UNCHANGED current
<1>1. UNCHANGED <<sdk, egl, user, current>>
  BY DEF Draw, OnSdkDraw, vars, glVars
<1>2. target'[egl[e].context] = target[egl[e].context]
  <2>1. CASE UNCHANGED target
    BY <2>1
  <2>2. CASE OnSdkDraw(o)
    <3>1. PICK ctx \in Ctx :
            ctx = CurrentOf(o) /\ target' = [target EXCEPT ![ctx] = DrawnTo(o, ctx)]
      BY <2>2 DEF OnSdkDraw, CurrentOf, TypeOK
    <3>2. CASE ctx = egl[e].context
      <4>1. ~OffScreenCtx(ctx) /\ ctx # egl[o].context
        BY <3>2, NotOffScreen
      <4>2. DrawnTo(o, ctx) = target[ctx]
        BY <4>1 DEF DrawnTo
      <4>. QED
        BY <3>1, <3>2, <4>2 DEF TypeOK
    <3>. QED
      BY <3>1, <3>2, NotOffScreen DEF TypeOK
  <2>. QED
    BY <2>1, <2>2 DEF Draw, vars, glVars
<1>. QED
  BY <1>1, <1>2 DEF Apart, Left, InCharge, CurrentOf

LEMMA SwapApart ==
    ASSUME TypeOK, ContextInv, NEW o \in Env, NEW e \in Env \ {o}, OnScreen(e), Swap(o)
    PROVE  Apart(e) /\ UNCHANGED <<current, shown, bound>>
<1>1. UNCHANGED <<sdk, egl, user, current, shown, bound>>
  BY DEF Swap, SwapEglBuffers, vars, glVars
<1>2. egl[o].context # egl[e].context /\ egl[e].context \in Ctx
  BY NotOffScreen
<1>3. target'[egl[e].context] = target[egl[e].context]
  BY <1>2 DEF Swap, SwapEglBuffers, vars, glVars, TypeOK
<1>. QED
  BY <1>1, <1>3 DEF Apart, Left, InCharge, CurrentOf

(* A call on o, made by a handler as the instances are: none of them is    *)
(* gone, and the JNI bridge frees one that could not be initialised.       *)
Acts(c, o) ==
    \/ /\ o = Subject(c) /\ Fits(c) /\ Api(c, o)
       /\ sdk[o].life = "live" \/ c.api = "freeSdkEnv"
    \/ sdk[o].life = "none" /\ Allocates(c) /\ (NewBlankSdkEnv(o) \/ NewDefaultSdkEnv(o))
    \/ c.api = "init" /\ o = local /\ FreeSdkEnv(o)

LEMMA ActsApart ==
    ASSUME TypeOK, ContextInv, NEW o \in Env, NEW e \in Env \ {o}, OnScreen(e),
           NEW c, Acts(c, o)
    PROVE  /\ Apart(e)
           /\ Moves(c) \/ UNCHANGED current
           /\ Draws(c) \/ UNCHANGED <<shown, bound>>
<1>1. CASE Api(c, o) /\ Fits(c)
  <2>1. CASE c.api = "initSdkEnv"
    BY <1>1, <2>1, ApiChosen, InitMoves, SwitchedApart DEF Moves
  <2>2. CASE c.api = "freeSdkEnv"
    BY <1>1, <2>2, ApiChosen, FreeMoves, SwitchedApart DEF Moves
  <2>3. CASE c.api = "setEffectCmd"
    BY <1>1, <2>3, ApiChosen, EffectApart DEF Draws
  <2>4. CASE c.api = "onSdkDraw"
    BY <1>1, <2>4, ApiChosen, DrawApart DEF Draws
  <2>5. CASE c.api = "swapEglBuffers"
    BY <1>1, <2>5, ApiChosen, SwapApart
  <2>6. CASE c.api \notin {"initSdkEnv", "freeSdkEnv", "setEffectCmd", "onSdkDraw",
                            "swapEglBuffers"}
    BY <1>1, <2>6, QuietMoves, SwitchedApart DEF glVars, Switched, SameBut
  <2>. QED
    BY <2>1, <2>2, <2>3, <2>4, <2>5, <2>6
<1>2. CASE Allocates(c) /\ (NewBlankSdkEnv(o) \/ NewDefaultSdkEnv(o))
  BY <1>2, NewMoves, SwitchedApart DEF Moves, SameBut
<1>3. CASE c.api = "init" /\ FreeSdkEnv(o)
  BY <1>3, FreeMoves, SwitchedApart DEF Moves
<1>. QED
  BY <1>1, <1>2, <1>3 DEF Acts

(* A context that does not exist yet stays empty.                          *)
LEMMA UsedIsMade ==
    ASSUME TypeOK, ContextInv, NEW o \in Env, CurrentOf(o) # NoCtx
    PROVE  CurrentOf(o) \in made /\ CurrentOf(o) \in Ctx
  BY DEF CurrentOf, TypeOK, ContextInv, CurrentIsUsed, ContextsAreMade

LEMMA ActsUnmade ==
    ASSUME TypeOK, ContextInv, Unmade, NEW o \in Env, NEW c, Acts(c, o)
    PROVE  Unmade'
<1>1. ASSUME made \subseteq made', UNCHANGED <<shown, bound>>
      PROVE  Unmade'
  BY <1>1 DEF Unmade
<1>2. CASE Api(c, o) /\ Fits(c)
  <2>1. CASE c.api = "initSdkEnv"
    BY <1>1, <1>2, <2>1, ApiChosen, InitMoves
  <2>2. CASE c.api = "freeSdkEnv"
    BY <1>1, <1>2, <2>2, ApiChosen, FreeMoves
  <2>3. CASE c.api = "setEffectCmd"
    <3>1. SetEffectCmd(o, c.arg)
      BY <1>2, <2>3, ApiChosen
    <3>2. UNCHANGED <<made, bound>>
      BY <3>1, EffectSet
    <3>3. CASE UNCHANGED shown
      BY <1>1, <3>2, <3>3
    <3>4. CASE LoadedInto(o, CurrentOf(o))
      <4>1. PICK ctx : ctx = CurrentOf(o)
        OBVIOUS
      <4>2. \/ UNCHANGED shown
            \/ ctx \in made /\ shown' = [shown EXCEPT ![ctx] = user'[o].param]
        BY <3>4, <4>1, UsedIsMade DEF LoadedInto
      <4>. QED
        BY <3>2, <4>2 DEF Unmade, TypeOK
    <3>. QED
      BY <3>1, <3>3, <3>4, EffectSet
  <2>4. CASE c.api = "onSdkDraw"
    <3>1. Draw(o)
      BY <1>2, <2>4, ApiChosen
    <3>2. CASE OnSdkDraw(o)
      BY <3>2, UsedIsMade DEF OnSdkDraw, Unmade
    <3>. QED
      BY <1>1, <3>1, <3>2 DEF Draw, vars
  <2>5. CASE c.api = "swapEglBuffers"
    BY <1>1, <1>2, <2>5, ApiChosen DEF Swap, SwapEglBuffers, vars
  <2>6. CASE c.api \notin {"initSdkEnv", "freeSdkEnv", "setEffectCmd", "onSdkDraw",
                            "swapEglBuffers"}
    BY <1>1, <1>2, <2>6, QuietMoves DEF glVars
  <2>. QED
    BY <2>1, <2>2, <2>3, <2>4, <2>5, <2>6
<1>3. CASE NewBlankSdkEnv(o) \/ NewDefaultSdkEnv(o)
  BY <1>1, <1>3, NewMoves
<1>4. CASE FreeSdkEnv(o)
  BY <1>1, <1>4, FreeMoves
<1>. QED
  BY <1>2, <1>3, <1>4 DEF Acts

(* Nobody becomes unused again.                                            *)
LEMMA ActsLives ==
    ASSUME TypeOK, NEW o \in Env, NEW c \in Calls, Acts(c, o),
           NEW e \in Env, sdk[e].life # "none"
    PROVE  sdk'[e].life # "none"
<1>1. sdk \in [Env -> SdkRecord]
  BY DEF TypeOK
<1>2. CASE FreeSdkEnv(o)
  BY <1>1, <1>2, FreeLives
<1>3. CASE Api(c, o) /\ (sdk[o].life = "live" \/ c.api = "freeSdkEnv")
  <2>1. CASE c.api = "freeSdkEnv"
    BY <1>2, <1>3, <2>1, ApiChosen
  <2>2. CASE c.api # "freeSdkEnv"
    BY <1>1, <1>3, <2>2, ApiLives DEF LivesKept
  <2>. QED
    BY <2>1, <2>2
<1>4. CASE sdk[o].life = "none" /\ (NewBlankSdkEnv(o) \/ NewDefaultSdkEnv(o))
  BY <1>4, NewMoves DEF SameBut
<1>. QED
  BY <1>2, <1>3, <1>4 DEF Acts

(* Every call of a handler of the application acts on one instance, or on  *)
(* none.                                                                   *)
Rests == UNCHANGED <<sdk, egl, user, glVars>>

LEMMA CallActs ==
    ASSUME HostInv, ClientInv, Call
    PROVE  Rests \/ \E o \in Env : Acts(todo[1], o)
<1> DEFINE c == todo[1]
<1>1. /\ PointersTyped /\ todo # << >> /\ Head(todo) = c /\ c \in Calls
      /\ 1 \in Positions /\ 1 \in 1 .. Len(todo) /\ CallSafe(c)
  BY FirstCall DEF Call, HostInv, Positions
<1>2. c.who \in Holder /\ Fits(c)
  BY <1>1 DEF Calls, ClientInv, InitOnce
<1>3. Subject(c) \in Env \cup {NoEnv}
  BY <1>1, <1>2 DEF Subject, PointersTyped
<1> HIDE DEF c
<1>4. CASE SdkCall(c)
  <2>1. CASE UNCHANGED vars \/ UseAfterFree
    BY <2>1 DEF vars, UseAfterFree, Rests, glVars
  <2>2. CASE Subject(c) # NoEnv /\ ~Gone(c, Subject(c)) /\ Api(c, Subject(c))
    <3>1. PICK o \in Env : o = Subject(c) /\ ~Gone(c, o) /\ Api(c, o)
      BY <1>3, <2>2
    <3>2. sdk[o].life = "live" \/ c.api = "freeSdkEnv"
      <4>1. CASE c.via = "local"
        <5>1. o = local /\ local # NoEnv
          BY <2>2, <3>1, <4>1 DEF Subject
        <5>2. sdk[o].life \in {"live", "dangling"}
          BY <5>1 DEF HostInv, OneHolder
        <5>. QED
          BY <3>1, <5>2 DEF Gone
      <4>2. CASE c.via = "kept"
        <5>1. o = ptr[c.who] /\ o # NoEnv
          BY <2>2, <3>1, <4>2 DEF Subject
        <5>2. sdk[o].life # "none" /\ sdk[o].life \in {"none", "live", "freed", "dangling"}
          BY <1>1, <1>2, <5>1 DEF HostInv, OneHolder, PointersTyped, SdkRecord
        <5>. QED
          BY <3>1, <5>2 DEF Gone
      <4>. QED
        BY <1>1, <4>1, <4>2 DEF Calls
    <3>. QED
      BY <1>2, <3>1, <3>2 DEF Acts, c
  <2>. QED
    BY <1>4, <2>1, <2>2 DEF SdkCall
<1>5. CASE Allocate(c)
  <2> DEFINE e == CHOOSE x \in Unused(c.who) : TRUE
  <2>1. Allocates(c)
    BY <1>5 DEF Allocate, Allocates
  <2>2. e \in Unused(c.who)
    BY <1>1, <2>1 DEF CallSafe
  <2>3. e \in Env /\ sdk[e].life = "none"
    BY <1>2, <2>2 DEF Unused
  <2>4. NewBlankSdkEnv(e) \/ NewDefaultSdkEnv(e) \/ UNCHANGED vars
    BY <1>5, Zenon DEF Allocate
  <2> HIDE DEF e
  <2>. QED
    BY <2>1, <2>3, <2>4 DEF Acts, Rests, vars, glVars, c
<1>6. CASE JniStep(c)
  <2>1. CASE UNCHANGED vars
    BY <2>1 DEF Rests, vars, glVars
  <2>2. CASE CheckInit(c) /\ ~UNCHANGED vars
    <3>1. c.api = "init" /\ FreeSdkEnv(local)
      BY <2>2 DEF CheckInit
    <3>2. local \in Env
      <4>1. ~\E j \in Positions : j < 1
        BY DEF Positions
      <4>. QED
        BY <1>1, <3>1, <4>1 DEF ClientInv, CheckedFirst, PointersTyped, c
    <3>. QED
      BY <3>1, <3>2 DEF Acts, c
  <2>. QED
    BY <1>6, <2>1, <2>2 DEF JniStep, Lookup, CheckPointer, ReturnPointer, OnSuccess
<1>7. CASE SaveImage(c)
  BY <1>7 DEF SaveImage, Rests, glVars
<1>. QED
  BY <1>1, <1>4, <1>5, <1>6, <1>7 DEF Call

(* What else a call changes: the pointer of its own holder, and the calls  *)
(* that are left.                                                          *)
LEMMA CallMoves ==
    ASSUME HostInv, Call
    PROVE  LET c == todo[1]
           IN  /\ c \in Calls /\ 1 \in Positions /\ proc = "running"
               /\ UNCHANGED <<appVars, glueVars, host>>
               /\ ptr' \in [Holder -> Env \cup {NoEnv}]
               /\ \A h \in Holder \ {c.who} :
                     ptr'[h] = ptr[h] /\ (h \in answered' => h \in answered)
               /\ todo' = Tail(todo) \/ todo' = << >>
               /\ \A i \in Positions' : i + 1 \in Positions /\ todo'[i] = todo[i + 1]
<1> DEFINE c == todo[1]
<1>1. /\ PointersTyped /\ Plan(todo) /\ todo # << >> /\ Head(todo) = c
      /\ c \in Calls /\ 1 \in Positions
  BY FirstCall DEF Call, HostInv
<1>2. c.who \in Holder /\ ptr \in [Holder -> Env \cup {NoEnv}]
  BY <1>1 DEF Calls, PointersTyped
<1> HIDE DEF c
<1>3. /\ todo' = Tail(todo) \/ todo' = << >>
      /\ answered' \subseteq answered \cup {c.who}
      /\ \/ ptr' = ptr
         \/ ptr' = [ptr EXCEPT ![c.who] = NoEnv]
         \/ ptr' = [ptr EXCEPT ![c.who] = local]
  BY <1>1 DEF Call, JniStep, Lookup, CheckPointer, CheckInit, ReturnPointer, OnSuccess,
     ReturnNull, GoOn
<1>4. \A i \in Positions' : i + 1 \in Positions /\ todo'[i] = todo[i + 1]
  <2>1. CASE todo' = Tail(todo)
    BY <1>1, <2>1, Remaining DEF Positions
  <2>2. CASE todo' = << >>
    BY <2>2, EmptySeq DEF Positions
  <2>. QED
    BY <1>3, <2>1, <2>2
<1>5. local \in Env \cup {NoEnv}
  BY <1>1 DEF PointersTyped
<1>. QED
  BY <1>1, <1>2, <1>3, <1>4, <1>5 DEF Call, c

(* What is said of the view's instance stays true of it.                   *)
LEMMA WorksStays ==
    ASSUME NEW e \in Env, Works(e), Apart(e), UNCHANGED <<disturbed, render>>,
           disturbed \/ UNCHANGED current,
           render.state \in {"absent", "leaving"} \/ UNCHANGED <<shown, bound>>
    PROVE  Works(e)'
<1>1. OnScreen(e)' /\ sdk'[e].hooks
  BY DEF Works, Apart, Left, Core, OnScreen
<1>2. ~disturbed' => InCharge(e)'
  BY DEF Works, Apart, Left, InCharge, CurrentOf
<1>3. InCharge(e)' /\ render'.state \in {"front", "stopped"} => Textured(e)'
  BY DEF Works, Apart, Left, Textured
<1>. QED
  BY <1>1, <1>2, <1>3 DEF Works

LEMMA GivenStays ==
    ASSUME NEW e, Given(e), user'[e] = user[e], UNCHANGED <<fed, render>>
    PROVE  Given(e)'
  BY DEF Given, FedRight, HasNothing

LEMMA ShowsStays ==
    ASSUME NEW e, Shows(e), Apart(e)
    PROVE  Shows(e)'
  BY DEF Shows, Apart, Left

(* HomeActivity's calls while the view has its surface.                    *)
LEMMA HomeCalls ==
    ASSUME HostInv, ClientInv, Call, Watching
    PROVE  Watching'
<1>1. PICK c \in Calls : c = todo[1] /\ 1 \in Positions
  BY CallMoves
<1>2. /\ UNCHANGED <<home, render, fed, disturbed>>
      /\ \A i \in Positions' : i + 1 \in Positions /\ todo'[i] = todo[i + 1]
      /\ ptr'[View] = ptr[View] /\ (View \in answered' => View \in answered)
      /\ Harmless(c) /\ c.who = Home
  BY <1>1, CallMoves DEF appVars, Watching, Harmless
<1>3. \A i \in Positions' : Harmless(todo[i])'
  BY <1>2 DEF Watching, Harmless, Moves, Draws, Allocates
<1>4. PICK e \in Env \cup {NoEnv} : e = ptr[View]
  BY DEF HostInv, PointersTyped
<1>5. Watched(e)'
  <2>1. CASE e = NoEnv
    BY <1>2, <1>4, <2>1 DEF Watching, Watched
  <2>2. CASE e # NoEnv
    <3>1. /\ e \in Env /\ Works(e) /\ Given(e) /\ OnScreen(e)
          /\ InCharge(e) /\ View \in answered => Shows(e)
      BY <1>4, <2>2 DEF Watching, Watched, Works
    <3>2. /\ Apart(e)
          /\ Moves(c) \/ UNCHANGED current
          /\ Draws(c) \/ UNCHANGED <<shown, bound>>
      <4>1. CASE Rests
        BY <4>1 DEF Rests, glVars, Apart, Left, InCharge, CurrentOf
      <4>2. CASE ~Rests
        <5>1. PICK o \in Env : Acts(c, o)
          BY <1>1, <4>2, CallActs
        <5>2. o # e
          <6>1. CASE o = Subject(c)
            BY <1>2, <1>4, <2>2, <6>1 DEF Subject, HostInv, OneHolder
          <6>2. CASE sdk[o].life = "none"
            BY <3>1, <6>2 DEF OnScreen
          <6>3. CASE o = local
            BY <1>4, <6>3 DEF HostInv, OneHolder
          <6>. QED
            BY <5>1, <6>1, <6>2, <6>3 DEF Acts
        <5>3. TypeOK /\ ContextInv
          BY DEF ClientInv, InputInv
        <5>. QED
          BY <3>1, <5>1, <5>2, <5>3, ActsApart
      <4>. QED
        BY <4>1, <4>2
    <3>3. Works(e)'
      BY <1>2, <3>1, <3>2, WorksStays DEF Harmless
    <3>4. Given(e)'
      BY <1>2, <3>1, <3>2, GivenStays DEF Apart, Left
    <3>5. InCharge(e)' /\ View \in answered' => Shows(e)'
      BY <1>2, <3>1, <3>2, ShowsStays DEF Apart
    <3>. QED
      BY <2>2, <3>3, <3>4, <3>5 DEF Watched
  <2>. QED
    BY <2>1, <2>2
<1>. QED
  BY <1>2, <1>3, <1>4, <1>5 DEF Watching

(* surfaceCreated.  The calls in the order they are made, and what each    *)
(* makes of the new instance.                                              *)
LEMMA BlankBegins ==
    ASSUME TypeOK, ContextInv, NEW e \in Env, NewBlankSdkEnv(e),
           fed # NoEnv => fed \in Env /\ sdk[fed].life # "none", UNCHANGED fed
    PROVE  SetUpAt(7, e)'
<1>1. /\ sdk[e].life = "none" /\ sdk[e].ret = "none" /\ sdk[e] \in SdkRecord
      /\ sdk' = [sdk EXCEPT ![e] = [sdk[e] EXCEPT !.life = "live"]]
  BY DEF NewBlankSdkEnv, ContextInv, UnusedIsFresh, TypeOK
<1>2. LET r == [sdk[e] EXCEPT !.life = "live"] IN r.life = "live" /\ r.ret = "none"
  BY <1>1, LifeUntouched, RetUntouched
<1>3. Fresh(e)'
  BY <1>1, <1>2 DEF Fresh, TypeOK
<1>4. e # NoEnv /\ fed' # e
  BY <1>1
<1>. QED
  BY <1>3, <1>4 DEF SetUpAt

LEMMA WindowGiven ==
    ASSUME TypeOK, NEW e \in Env, SetUpAt(6, e), SetWindow(e), UNCHANGED fed
    PROVE  SetUpAt(5, e)'
<1>1. /\ e # NoEnv /\ fed # e /\ Fresh(e) /\ sdk[e] \in SdkRecord
      /\ sdk \in [Env -> SdkRecord]
  BY DEF SetUpAt, TypeOK
<1> DEFINE r == [sdk[e] EXCEPT !.window = TRUE]
<1>2. r.window /\ r.life = sdk[e].life /\ r.ret = sdk[e].ret
  BY <1>1 DEF SdkRecord
<1>3. sdk' = [sdk EXCEPT ![e] = r] \/ (sdk' = sdk /\ sdk[e].window)
  BY DEF SetWindow, SetEglNativeWindow, vars
<1> HIDE DEF r
<1>4. Fresh(e)' /\ sdk'[e].window
  BY <1>1, <1>2, <1>3 DEF Fresh
<1>. QED
  BY <1>1, <1>4 DEF SetUpAt

LEMMA AssetsGiven ==
    ASSUME TypeOK, NEW e \in Env, SetUpAt(5, e), SetPlatformData(e), UNCHANGED fed
    PROVE  SetUpAt(4, e)'
<1>1. /\ e # NoEnv /\ fed # e /\ Fresh(e) /\ sdk[e].window /\ sdk[e] \in SdkRecord
      /\ sdk \in [Env -> SdkRecord]
  BY DEF SetUpAt, TypeOK
<1> DEFINE r == [sdk[e] EXCEPT !.assets = TRUE]
<1>2. r.window = sdk[e].window /\ r.life = sdk[e].life /\ r.ret = sdk[e].ret
  BY <1>1 DEF SdkRecord
<1>3. sdk' = [sdk EXCEPT ![e] = r]
  BY DEF SetPlatformData
<1> HIDE DEF r
<1>4. Fresh(e)' /\ sdk'[e].window
  BY <1>1, <1>2, <1>3 DEF Fresh
<1>. QED
  BY <1>1, <1>4 DEF SetUpAt

(* An initialisation that succeeds leaves the new context current, and     *)
(* nothing in it.                                                          *)
LEMMA InitBegins ==
    ASSUME TypeOK, ContextInv, Unmade, NEW e \in Env, Fresh(e), sdk[e].window,
           InitAgain(e), sdk'[e].ret = "ok"
    PROVE  Begun(e)'
<1>1. /\ sdk[e] \in SdkRecord /\ sdk \in [Env -> SdkRecord] /\ egl[e] \in EglRecord
      /\ egl \in [Env -> EglRecord]
      /\ user[e] = BlankUser /\ ~sdk[e].status /\ ThreadOf[e] \in Thread
  BY DEF TypeOK, Fresh, ContextInv, FreshIsBlank
<1>2. ~InitRefused(e)
  <2> SUFFICES ASSUME InitRefused(e) PROVE FALSE
    OBVIOUS
  <2>1. sdk' = [sdk EXCEPT ![e] = [sdk[e] EXCEPT !.ret = "error"]]
    BY <1>1 DEF InitRefused
  <2>2. [sdk[e] EXCEPT !.ret = "error"].ret = "error"
    BY <1>1 DEF SdkRecord
  <2>. QED
    BY <1>1, <2>1, <2>2
<1>3. ~InitWithoutBuffer(e)
  <2> SUFFICES ASSUME InitWithoutBuffer(e) PROVE FALSE
    OBVIOUS
  <2>1. [BlankSdk EXCEPT !.life = "dangling"].ret = "none"
    BY DEF BlankSdk
  <2>. QED
    BY <1>1, <2>1 DEF InitWithoutBuffer, ReleaseSdkEnv
<1>4. InitWithEgl(e)
  BY <1>2, <1>3 DEF InitAgain
<1>5. PICK stop \in (Stops \ {NewBuffer}) \cup {AllDone}, ctx \in Ctx \ made,
           linked \in BOOLEAN :
        /\ EglCalls(e, stop, ctx)
        /\ sdk' = [sdk EXCEPT ![e] = SdkAfter(sdk[e], stop, linked)]
        /\ UNCHANGED <<user, shown, bound, target>>
  BY <1>4 DEF InitWithEgl
<1>6. stop \in Int
  BY StopsAssumption DEF NewBuffer, AttachShader, AllDone
<1>7. /\ sdk'[e].life = "live"
      /\ sdk'[e].ret = IF stop = AllDone THEN "ok" ELSE "error"
      /\ sdk'[e].type = IF MakeCurrent < stop /\ ~sdk[e].window THEN "off" ELSE "on"
  <2> DEFINE r == SdkAfter(sdk[e], stop, linked)
  <2>1. /\ r.life = sdk[e].life
        /\ r.ret = IF stop = AllDone THEN "ok" ELSE "error"
        /\ r.type = IF MakeCurrent < stop /\ ~sdk[e].window THEN "off" ELSE "on"
    <3> DEFINE all == \A x \in Int, l \in BOOLEAN :
                       /\ SdkAfter(sdk[e], x, l).life = sdk[e].life
                       /\ SdkAfter(sdk[e], x, l).ret = IF x = AllDone THEN "ok" ELSE "error"
                       /\ SdkAfter(sdk[e], x, l).type =
                            IF MakeCurrent < x /\ ~sdk[e].window THEN "off" ELSE "on"
    <3>1. all
      BY <1>1, CoreKept, Zenon
    <3>. QED
      BY <1>6, <3>1, Zenon
  <2>2. sdk' = [sdk EXCEPT ![e] = r]
    BY <1>5
  <2> HIDE DEF r
  <2>3. sdk'[e] = r
    BY <1>1, <2>2
  <2>. QED
    BY <2>1, <2>3 DEF Fresh
<1>8. OnScreen(e)' /\ stop = AllDone
  BY <1>7 DEF OnScreen
<1>9. egl'[e].context = ctx /\ current' = [current EXCEPT ![ThreadOf[e]] = ctx]
  <2>1. /\ egl' = [egl EXCEPT ![e] = EglAfter(egl[e], AllDone, ctx)]
        /\ current' = CurrentAfterInit(e, AllDone, ctx)
    BY <1>5, <1>8 DEF EglCalls
  <2>2. EglAfter(egl[e], AllDone, ctx).context = ctx
    BY DEF EglAfter, AllDone, CreateContext
  <2>. QED
    BY <1>1, <2>1, <2>2 DEF CurrentAfterInit, AllDone, MakeCurrent
<1>10. InCharge(e)'
  BY <1>1, <1>9 DEF InCharge, CurrentOf, TypeOK
<1>11. HasNothing(e)'
  BY <1>1, <1>5 DEF HasNothing, BlankUser
<1>12. Textured(e)'
  BY <1>1, <1>5, <1>9 DEF Textured, Unmade, BlankUser
<1>. QED
  BY <1>8, <1>10, <1>11, <1>12 DEF Begun

LEMMA HooksGiven ==
    ASSUME TypeOK, NEW e \in Env, SetUpAt(2, e), RunSdk(e), UNCHANGED fed
    PROVE  SetUpAt(1, e)'
<1>1. e # NoEnv /\ fed # e /\ Begun(e) /\ sdk[e].ret = "ok"
  BY DEF SetUpAt
<1>2. /\ UNCHANGED <<egl, user, glVars>> /\ sdk'[e].hooks
      /\ Core(sdk'[e]) = Core(sdk[e])
  BY HooksSet
<1>3. OnScreen(e)' /\ sdk'[e].ret = "ok"
  BY <1>1, <1>2 DEF Begun, OnScreen, Core
<1>4. InCharge(e)' /\ HasNothing(e)' /\ Textured(e)'
  BY <1>1, <1>2 DEF Begun, InCharge, CurrentOf, HasNothing, Textured, glVars
<1>. QED
  BY <1>1, <1>2, <1>3, <1>4 DEF SetUpAt, Begun

(* The handler goes on, or returns.                                        *)
LEMMA SetUpStep ==
    ASSUME HostInv, ClientInv, host = "app", Call, Unmade,
           fed # NoEnv => fed \in Env /\ sdk[fed].life # "none", SettingUp
    PROVE  Watching' \/ (todo' # << >> /\ SettingUp')
<1>0. PICK left, c, t : left = Len(todo) /\ c = todo[1] /\ t = InitRenderSDK(View)
  OBVIOUS
<1>1. PICK e : e = local
  OBVIOUS
<1>2. /\ PointersTyped /\ todo # << >> /\ Head(todo) = c /\ c \in Calls
      /\ TypeOK /\ ContextInv /\ e \in Env \cup {NoEnv} /\ CallSafe(c)
  BY <1>0, <1>1, FirstCall DEF Call, HostInv, ClientInv, InputInv, PointersTyped
<1>3. Len(t) = 9 /\ Rest(todo, t)
  BY <1>0, SetUpLists DEF SettingUp
<1>4. /\ left \in 1 .. 9 /\ c = t[10 - left]
      /\ Len(Tail(todo)) = left - 1 /\ Rest(Tail(todo), t)
  <2>1. Len(t) \in Nat
    BY <1>3
  <2>2. /\ Len(todo) \in 1 .. Len(t) /\ todo[1] = t[1 + (Len(t) - Len(todo))]
        /\ Len(Tail(todo)) = Len(todo) - 1 /\ Rest(Tail(todo), t)
    BY <1>2, <1>3, <2>1, RestMoves, Zenon
  <2>3. 1 + (9 - Len(todo)) = 10 - Len(todo)
    BY <1>3, <2>2
  <2>. QED
    BY <1>0, <1>3, <2>2, <2>3
<1>5. /\ left = 9 => c = OnLocal("lookup", View)
      /\ left = 8 => c = OnLocal("newBlankSdkEnv", View)
      /\ left = 7 => c = OnLocal("check", View)
      /\ left = 6 => c = OnLocal("setEglNativeWindow", View)
      /\ left = 5 => c = OnLocal("setPlatformData", View)
      /\ left = 4 => c = OnLocal("initSdkEnv", View)
      /\ left = 3 => c = OnLocal("init", View)
      /\ left = 2 => c = OnLocal("sdkMain", View)
      /\ left = 1 => c = OnLocal("return", View)
  <2>1. /\ t[1] = OnLocal("lookup", View)
        /\ t[2] = OnLocal("newBlankSdkEnv", View)
        /\ t[3] = OnLocal("check", View)
        /\ t[4] = OnLocal("setEglNativeWindow", View)
        /\ t[5] = OnLocal("setPlatformData", View)
        /\ t[6] = OnLocal("initSdkEnv", View)
        /\ t[7] = OnLocal("init", View)
        /\ t[8] = OnLocal("sdkMain", View)
        /\ t[9] = OnLocal("return", View)
    BY <1>0, SetUpLists
  <2>. QED
    BY <1>4, <2>1
<1>6. SetUpAt(left, e) /\ ~disturbed /\ View \notin answered /\ ptr[View] = NoEnv
  BY <1>0, <1>1 DEF SettingUp
<1>7. UNCHANGED <<home, render, fed, disturbed>> /\ ptr' \in [Holder -> Env \cup {NoEnv}]
  BY CallMoves DEF appVars
<1>8. \/ Allocate(c) /\ todo' = Tail(todo) /\ UNCHANGED <<ptr, answered>>
      \/ SdkCall(c) /\ todo' = Tail(todo) /\ UNCHANGED <<local, ptr, answered>>
      \/ JniStep(c)
      \/ SaveImage(c)
  BY <1>2 DEF Call
<1>9. /\ SdkCall(c) => c.api \in ApiNames
      /\ Allocate(c) => c.api \in {"newBlankSdkEnv", "newDefaultSdkEnv"}
      /\ JniStep(c) => c.api \in {"lookup", "check", "init", "return", "onSuccess"}
      /\ SaveImage(c) => c.api = "saveImage"
  BY DEF SdkCall, Allocate, SaveImage, JniStep, Lookup, CheckPointer, CheckInit,
     ReturnPointer, OnSuccess
<1>10. ASSUME left \in 2 .. 9, todo' = Tail(todo), UNCHANGED <<ptr, answered>>,
              NEW f, f = local', SetUpAt(left - 1, f)'
       PROVE  todo' # << >> /\ SettingUp'
  <2>0. Rest(todo', InitRenderSDK(View))
    <3>1. Rest(todo', t)
      BY <1>4, <1>10
    <3>. QED
      BY <1>0, <3>1
  <2>1. Len(todo') = left - 1 /\ Len(todo') # 0
    <3>1. Len(todo') = left - 1
      BY <1>4, <1>10, Zenon
    <3>2. left - 1 # 0
      BY <1>10
    <3>. QED
      BY <3>1, <3>2, Zenon
  <2>2. todo' # << >>
    BY <2>1, EmptySeq
  <2>. QED
    BY <1>6, <1>7, <1>10, <2>0, <2>1, <2>2 DEF SettingUp
<1>11. ASSUME ReturnNull(c), c.who = View, UNCHANGED answered
       PROVE  Watching'
  <2>1. todo' = << >> /\ ptr'[View] = NoEnv
    BY <1>2, <1>11 DEF ReturnNull, PointersTyped
  <2>2. \A i \in Positions' : FALSE
    BY <2>1, EmptySeq DEF Positions
  <2>. QED
    BY <1>6, <1>11, <2>1, <2>2 DEF Watching, Watched
<1>12. CASE left = 9
  <2>1. c.api = "lookup" /\ c.who = View
    BY <1>5, <1>12, LocalFields
  <2>2. Lookup(c) /\ UNCHANGED answered
    BY <1>8, <1>9, <2>1 DEF ApiNames, JniStep, CheckPointer, CheckInit, ReturnPointer, OnSuccess
  <2>3. CASE ReturnNull(c)
    BY <1>11, <2>1, <2>2, <2>3
  <2>4. CASE GoOn
    <3>1. SetUpAt(8, e)'
      BY <1>6, <1>7, <1>12 DEF SetUpAt
    <3>. QED
      BY <1>1, <1>10, <1>12, <2>2, <2>4, <3>1 DEF GoOn
  <2>. QED
    BY <2>2, <2>3, <2>4 DEF Lookup
<1>13. CASE left = 8
  <2>1. c.api = "newBlankSdkEnv" /\ c.who = View
    BY <1>5, <1>13, LocalFields
  <2>2. Allocate(c) /\ todo' = Tail(todo) /\ UNCHANGED <<ptr, answered>>
    BY <1>8, <1>9, <2>1 DEF ApiNames
  <2>3. PICK f : f = local'
    OBVIOUS
  <2> DEFINE o == CHOOSE x \in Unused(c.who) : TRUE
  <2>4. o \in Unused(c.who)
    BY <1>2, <2>1 DEF CallSafe, Allocates
  <2>5. o \in Env
    BY <2>1, <2>4 DEF Unused
  <2>6. (NewBlankSdkEnv(o) /\ local' = o) \/ local' = NoEnv
    BY <2>1, <2>2, Zenon DEF Allocate
  <2> HIDE DEF o
  <2>7. SetUpAt(7, f)'
    <3>1. CASE NewBlankSdkEnv(o) /\ local' = o
      BY <1>2, <1>7, <2>3, <2>5, <3>1, BlankBegins
    <3>2. CASE local' = NoEnv
      BY <2>3, <3>2 DEF SetUpAt
    <3>. QED
      BY <2>6, <3>1, <3>2
  <2>. QED
    BY <1>10, <1>13, <2>2, <2>3, <2>7
<1>14. CASE left = 7
  <2>1. c.api = "check" /\ c.who = View
    BY <1>5, <1>14, LocalFields
  <2>2. CheckPointer(c) /\ UNCHANGED answered
    BY <1>8, <1>9, <2>1 DEF ApiNames, JniStep, Lookup, CheckInit, ReturnPointer, OnSuccess
  <2>3. CASE local = NoEnv
    BY <1>11, <2>1, <2>2, <2>3 DEF CheckPointer
  <2>4. CASE local # NoEnv
    <3>1. GoOn /\ UNCHANGED vars
      BY <2>2, <2>4 DEF CheckPointer
    <3>2. SetUpAt(6, e)'
      BY <1>1, <1>6, <1>7, <1>14, <2>4, <3>1 DEF SetUpAt, Fresh, vars
    <3>. QED
      BY <1>1, <1>10, <1>14, <2>2, <3>1, <3>2 DEF GoOn
  <2>. QED
    BY <2>3, <2>4
<1>15. CASE left \in {2, 4, 5, 6}
  <2>1. /\ c.api \in {"sdkMain", "initSdkEnv", "setPlatformData", "setEglNativeWindow"}
        /\ c.via = "local"
    BY <1>5, <1>15, LocalFields
  <2>2. SdkCall(c) /\ todo' = Tail(todo) /\ UNCHANGED <<local, ptr, answered>>
    BY <1>8, <1>9, <2>1 DEF ApiNames
  <2>3. e # NoEnv /\ e \in Env /\ fed # e
    BY <1>2, <1>6, <1>15 DEF SetUpAt
  <2>4. sdk[e].life = "live"
    BY <1>6, <1>15, <2>3 DEF SetUpAt, Fresh, Begun, OnScreen
  <2>5. Api(c, e)
    BY <1>1, <2>1, <2>2, <2>3, <2>4 DEF SdkCall, Subject, Gone
  <2>6. SetUpAt(left - 1, e)'
    <3>1. CASE left = 6
      BY <1>2, <1>5, <1>6, <1>7, <2>3, <2>5, <3>1, LocalFields, ApiChosen, WindowGiven
    <3>2. CASE left = 5
      BY <1>2, <1>5, <1>6, <1>7, <2>3, <2>5, <3>2, LocalFields, ApiChosen, AssetsGiven
    <3>3. CASE left = 4
      <4>1. InitAgain(e)
        BY <1>5, <2>5, <3>3, LocalFields, ApiChosen
      <4>2. Fresh(e) /\ sdk[e].window
        BY <1>6, <2>3, <3>3 DEF SetUpAt
      <4>3. sdk'[e].ret = "ok" => Begun(e)'
        BY <1>2, <2>3, <4>1, <4>2, InitBegins
      <4>. QED
        BY <1>7, <2>3, <3>3, <4>3 DEF SetUpAt
    <3>4. CASE left = 2
      BY <1>2, <1>5, <1>6, <1>7, <2>3, <2>5, <3>4, LocalFields, ApiChosen, HooksGiven
    <3>. QED
      BY <1>15, <3>1, <3>2, <3>3, <3>4
  <2>. QED
    BY <1>1, <1>10, <1>15, <2>2, <2>6
<1>16. CASE left = 3
  <2>1. c.api = "init" /\ c.who = View
    BY <1>5, <1>16, LocalFields
  <2>2. CheckInit(c) /\ UNCHANGED answered
    BY <1>8, <1>9, <2>1 DEF ApiNames, JniStep, Lookup, CheckPointer, ReturnPointer, OnSuccess
  <2>3. CASE ReturnNull(c)
    BY <1>11, <2>1, <2>2, <2>3
  <2>4. CASE InitOk /\ GoOn /\ UNCHANGED vars
    <3>1. e # NoEnv /\ fed # e /\ sdk[e].ret = "ok" /\ Begun(e)
      BY <1>1, <1>6, <1>16, <2>4 DEF SetUpAt, InitOk
    <3>2. Begun(e)' /\ sdk'[e].ret = "ok"
      BY <2>4, <3>1 DEF vars, Begun, OnScreen, InCharge, CurrentOf, HasNothing, Textured
    <3>3. SetUpAt(2, e)'
      BY <1>7, <3>1, <3>2 DEF SetUpAt
    <3>. QED
      BY <1>1, <1>10, <1>16, <2>2, <2>4, <3>3 DEF GoOn
  <2>. QED
    BY <2>2, <2>3, <2>4 DEF CheckInit
<1>17. CASE left = 1
  <2>1. c.api = "return" /\ c.who = View
    BY <1>5, <1>17, LocalFields
  <2>2. ReturnPointer(c) /\ UNCHANGED answered
    BY <1>8, <1>9, <2>1 DEF ApiNames, JniStep, Lookup, CheckPointer, CheckInit, OnSuccess
  <2>3. /\ ptr' = [ptr EXCEPT ![View] = e] /\ todo' = Tail(todo) /\ UNCHANGED vars
        /\ ptr \in [Holder -> Env \cup {NoEnv}]
    BY <1>1, <1>2, <2>1, <2>2 DEF ReturnPointer, PointersTyped
  <2>4. ptr'[View] = e /\ Len(todo') = 0
    BY <1>4, <1>17, <2>3
  <2>5. \A i \in Positions' : FALSE
    BY <2>4 DEF Positions
  <2>6. e # NoEnv /\ fed # e /\ Begun(e) /\ sdk[e].hooks
    BY <1>6, <1>17 DEF SetUpAt
  <2>7. OnScreen(e)' /\ InCharge(e)' /\ HasNothing(e)' /\ Textured(e)' /\ sdk'[e].hooks
    BY <2>3, <2>6 DEF vars, Begun, OnScreen, InCharge, CurrentOf, HasNothing, Textured
  <2>8. Works(e)' /\ Given(e)'
    BY <1>7, <2>6, <2>7 DEF Works, Given
  <2>9. View \notin answered'
    BY <1>6, <2>2
  <2>10. Watched(e)'
    BY <2>6, <2>8, <2>9 DEF Watched
  <2>. QED
    BY <2>4, <2>5, <2>10 DEF Watching
<1>. QED
  BY <1>4, <1>12, <1>13, <1>14, <1>15, <1>16, <1>17

(* A click.  What each of its calls does to the view's instance.           *)
LEMMA WorksOn ==
    ASSUME NEW e, Works(e), Core(sdk'[e]) = Core(sdk[e]), sdk'[e].hooks = sdk[e].hooks,
           egl'[e].context = egl[e].context, user'[e].param = user[e].param,
           UNCHANGED <<current, shown, bound, disturbed, render>>
    PROVE  Works(e)'
<1>1. OnScreen(e)' /\ sdk'[e].hooks
  BY DEF Works, OnScreen, Core
<1>2. InCharge(e)' = InCharge(e) /\ Textured(e)' = Textured(e)
  BY DEF InCharge, CurrentOf, Textured
<1>. QED
  BY <1>1, <1>2 DEF Works

LEMMA ClickLoads ==
    ASSUME TypeOK, ContextInv, ActivePathIsSet, NEW e \in Env, Works(e), Given(e),
           render.state = "front", render.path \in Path, NEW cmd, SetEffectCmd(e, cmd),
           UNCHANGED <<render, fed, disturbed>>
    PROVE  Works(e)' /\ Given(e)'
<1>1. /\ UNCHANGED <<current, bound>>
      /\ Core(sdk'[e]) = Core(sdk[e]) /\ sdk'[e].hooks = sdk[e].hooks
      /\ egl'[e].context = egl[e].context
  BY EffectSet
<1>2. CASE UNCHANGED <<user, shown, target>>
  <2>1. Works(e)'
    BY <1>1, <1>2, WorksOn
  <2>. QED
    BY <1>2, <2>1 DEF Given, FedRight, HasNothing
<1>3. CASE LoadedInto(e, CurrentOf(e))
  <2>1. user[e].active = "path" /\ user[e].input \in Path
    BY <1>3 DEF LoadedInto, ActivePathIsSet
  <2>2. fed = e /\ user[e].input = render.path
    BY <2>1, NoPathAssumption DEF Given, FedRight, HasNothing
  <2>3. user'[e].input = render.path /\ user'[e].param.src = render.path
    BY <1>3, <2>1, <2>2, DecodedTyped DEF LoadedInto
  <2>4. Given(e)'
    BY <2>2, <2>3 DEF Given, FedRight
  <2>5. OnScreen(e)' /\ sdk'[e].hooks
    BY <1>1 DEF Works, OnScreen, Core
  <2>6. InCharge(e)' = InCharge(e)
    BY <1>1 DEF InCharge, CurrentOf
  <2>7. PICK ctx : ctx = CurrentOf(e)
    OBVIOUS
  <2>8. ASSUME InCharge(e) PROVE Textured(e)'
    <3>1. ctx = egl[e].context /\ ctx \in Ctx /\ ctx # NoCtx /\ ctx \notin bound
      BY <2>7, <2>8, NotOffScreen DEF InCharge, Works, Textured
    <3>2. shown' = [shown EXCEPT ![ctx] = user'[e].param]
      BY <1>3, <2>7, <3>1 DEF LoadedInto
    <3>. QED
      BY <1>1, <3>1, <3>2 DEF Textured, TypeOK
  <2>. QED
    BY <2>4, <2>5, <2>6, <2>8 DEF Works
<1>. QED
  BY <1>2, <1>3, EffectSet

LEMMA ClickDraws ==
    ASSUME TypeOK, ContextInv, NEW e \in Env, Works(e), Given(e),
           render.state = "front", Draw(e), UNCHANGED <<render, fed, disturbed>>
    PROVE  Works(e)' /\ Given(e)' /\ (InCharge(e)' => Shows(e)')
<1>1. /\ UNCHANGED <<sdk, egl, user, current, shown>>
      /\ OnScreen(e) /\ sdk[e].hooks
  BY DEF Draw, OnSdkDraw, vars, glVars, Works
<1>2. UNCHANGED bound
  BY <1>1 DEF Draw, OnSdkDraw, vars, glVars, OnScreen
<1>3. Works(e)'
  BY <1>1, <1>2, WorksOn
<1>4. Given(e)'
  BY <1>1 DEF Given, FedRight, HasNothing
<1>5. ASSUME InCharge(e)' PROVE Shows(e)'
  <2>1. PICK ctx : ctx = egl[e].context
    OBVIOUS
  <2>2. CurrentOf(e) = ctx
    BY <1>1, <1>5, <2>1 DEF InCharge, CurrentOf
  <2>3. ctx \in Ctx /\ ctx # NoCtx /\ ~OffScreenCtx(ctx)
    BY <1>1, <2>1, NotOffScreen
  <2>4. Textured(e)
    BY <2>1, <2>2 DEF Works, InCharge
  <2>5. OnSdkDraw(e)
    BY <1>1, <2>2, <2>3 DEF Draw
  <2>6. target' = [target EXCEPT ![ctx] = DrawnTo(e, ctx)]
    BY <2>2, <2>5 DEF OnSdkDraw
  <2>7. DrawnTo(e, ctx) = IF sdk[e].linked THEN user[e].param ELSE NoImage
    BY <1>1, <2>1, <2>3, <2>4 DEF DrawnTo, Textured, OnScreen
  <2>. QED
    BY <1>1, <2>1, <2>3, <2>6, <2>7 DEF Shows, TypeOK
<1>. QED
  BY <1>3, <1>4, <1>5

LEMMA ClickCall ==
    ASSUME TypeOK, ContextInv, ActivePathIsSet, NEW e \in Env, NEW left \in 2 .. 6,
           ClickAt(left, e), render.state = "front", render.path \in Path,
           UNCHANGED <<render, fed, disturbed, answered>>,
           NEW c, Api(c, e), NEW output,
           left = 6 => c = OnKept("setInputImagePath", View, render.path),
           left = 5 => c = OnKept("setOutputImagePath", View, output),
           left = 4 => c = OnKept("setEffectCmd", View, NormalCmd),
           left = 3 => c = OnKept("swapEglBuffers", View, NoArg),
           left = 2 => c = OnKept("onSdkDraw", View, NoArg)
    PROVE  ClickAt(left - 1, e)'
<1>1. e # NoEnv /\ Works(e)
  BY DEF ClickAt
<1>2. left \in 2 .. 5 => Given(e)
  BY <1>1 DEF ClickAt
<1>3. CASE left = 6
  <2>1. SetInput(e, render.path)
    BY <1>3, ApiChosen, KeptFields
  <2>2. fed = e /\ HasNothing(e)
    BY <1>1, <1>3 DEF ClickAt
  <2>3. Works(e)'
    BY <1>1, <2>1, PathTaken, WorksOn DEF glVars
  <2>4. Given(e)'
    BY <2>1, <2>2, PathTaken DEF Given, FedRight, HasNothing
  <2>. QED
    BY <1>1, <1>3, <2>3, <2>4 DEF ClickAt
<1>4. CASE left = 5
  <2>1. SetOutputImagePath(e, output)
    BY <1>4, ApiChosen, KeptFields
  <2>2. Works(e)'
    BY <1>1, <2>1, OutputTaken, WorksOn DEF glVars
  <2>3. Given(e)'
    BY <1>2, <1>4, <2>1, OutputTaken DEF Given, FedRight, HasNothing
  <2>. QED
    BY <1>1, <1>4, <2>2, <2>3 DEF ClickAt
<1>5. CASE left = 4
  <2>1. SetEffectCmd(e, NormalCmd)
    BY <1>5, ApiChosen, KeptFields
  <2>2. Works(e)' /\ Given(e)'
    BY <1>1, <1>2, <1>5, <2>1, ClickLoads
  <2>. QED
    BY <1>1, <1>5, <2>2 DEF ClickAt
<1>6. CASE left = 3
  <2>1. Swap(e)
    BY <1>6, ApiChosen, KeptFields
  <2>2. UNCHANGED <<sdk, egl, user, current, shown, bound>>
    BY <2>1 DEF Swap, SwapEglBuffers, vars, glVars
  <2>3. Works(e)'
    BY <1>1, <2>2, WorksOn
  <2>4. Given(e)'
    BY <1>2, <1>6, <2>2 DEF Given, FedRight, HasNothing
  <2>. QED
    BY <1>1, <1>6, <2>3, <2>4 DEF ClickAt
<1>7. CASE left = 2
  <2>1. Draw(e)
    BY <1>7, ApiChosen, KeptFields
  <2>2. Works(e)' /\ Given(e)' /\ (InCharge(e)' => Shows(e)')
    BY <1>1, <1>2, <1>7, <2>1, ClickDraws
  <2>. QED
    BY <1>1, <1>7, <2>2 DEF ClickAt
<1>. QED
  BY <1>3, <1>4, <1>5, <1>6, <1>7

LEMMA ClickStep ==
    ASSUME HostInv, ClientInv, Call, Clicking
    PROVE  Watching' \/ (todo' # << >> /\ Clicking')
<1>0. PICK left, c, output, t :
        /\ left = Len(todo) /\ c = todo[1] /\ output \in Outputs
        /\ t = ClickCalls(View, render.path, output, NormalCmd)
        /\ Rest(todo, t)
  BY DEF Clicking
<1>1. PICK e : e = ptr[View]
  OBVIOUS
<1>2. /\ PointersTyped /\ todo # << >> /\ Head(todo) = c /\ c \in Calls
      /\ TypeOK /\ ContextInv /\ ActivePathIsSet /\ e \in Env \cup {NoEnv}
      /\ render.state = "front" /\ render.path \in Path
  BY <1>0, <1>1, FirstCall DEF Call, HostInv, ClientInv, InputInv, PointersTyped, Clicking
<1>3. /\ Len(t) = 6
      /\ t[1] = OnKept("setInputImagePath", View, render.path)
      /\ t[2] = OnKept("setOutputImagePath", View, output)
      /\ t[3] = OnKept("setEffectCmd", View, NormalCmd)
      /\ t[4] = OnKept("swapEglBuffers", View, NoArg)
      /\ t[5] = OnKept("onSdkDraw", View, NoArg)
      /\ t[6] = OnKept("onSuccess", View, NoArg)
  BY <1>0, ClickList
<1>4. /\ left \in 1 .. 6 /\ c = t[7 - left]
      /\ Len(Tail(todo)) = left - 1 /\ Rest(Tail(todo), t)
  <2>1. Len(t) \in Nat
    BY <1>3
  <2>2. /\ Len(todo) \in 1 .. Len(t) /\ todo[1] = t[1 + (Len(t) - Len(todo))]
        /\ Len(Tail(todo)) = Len(todo) - 1 /\ Rest(Tail(todo), t)
    BY <1>0, <1>2, <2>1, RestMoves, Zenon
  <2>3. 1 + (6 - Len(todo)) = 7 - Len(todo)
    BY <1>3, <2>2
  <2>. QED
    BY <1>0, <1>3, <2>2, <2>3
<1>5. /\ left = 6 => c = OnKept("setInputImagePath", View, render.path)
      /\ left = 5 => c = OnKept("setOutputImagePath", View, output)
      /\ left = 4 => c = OnKept("setEffectCmd", View, NormalCmd)
      /\ left = 3 => c = OnKept("swapEglBuffers", View, NoArg)
      /\ left = 2 => c = OnKept("onSdkDraw", View, NoArg)
      /\ left = 1 => c = OnKept("onSuccess", View, NoArg)
  BY <1>3, <1>4
<1>6. ClickAt(left, e)
  BY <1>0, <1>1 DEF Clicking
<1>7. UNCHANGED <<home, render, fed, disturbed>>
  BY CallMoves DEF appVars
<1>8. \/ Allocate(c)
      \/ SdkCall(c) /\ todo' = Tail(todo) /\ UNCHANGED <<ptr, answered>>
      \/ JniStep(c)
      \/ SaveImage(c)
  BY <1>2 DEF Call
<1>9. /\ SdkCall(c) => c.api \in ApiNames
      /\ Allocate(c) => c.api \in {"newBlankSdkEnv", "newDefaultSdkEnv"}
      /\ JniStep(c) => c.api \in {"lookup", "check", "init", "return", "onSuccess"}
      /\ SaveImage(c) => c.api = "saveImage"
  BY DEF SdkCall, Allocate, SaveImage, JniStep, Lookup, CheckPointer, CheckInit,
     ReturnPointer, OnSuccess
<1>10. CASE left \in 2 .. 6
  <2>1. /\ c.api \in {"setInputImagePath", "setOutputImagePath", "setEffectCmd",
                      "swapEglBuffers", "onSdkDraw"}
        /\ c.via = "kept" /\ c.who = View
    <3>1. CASE left \in 5 .. 6
      BY <1>5, <3>1, KeptFields
    <3>2. CASE left = 4
      BY <1>5, <3>2, KeptFields
    <3>3. CASE left = 3
      BY <1>5, <3>3, KeptFields
    <3>4. CASE left = 2
      BY <1>5, <3>4, KeptFields
    <3>. QED
      BY <1>10, <3>1, <3>2, <3>3, <3>4
  <2>2. SdkCall(c) /\ todo' = Tail(todo) /\ UNCHANGED <<ptr, answered>>
    BY <1>8, <1>9, <2>1 DEF ApiNames
  <2>3. Subject(c) = e
    BY <1>1, <2>1 DEF Subject
  <2>4. ClickAt(left - 1, e)'
    <3>1. CASE e = NoEnv
      BY <1>6, <2>2, <3>1 DEF ClickAt
    <3>2. CASE e # NoEnv
      <4>1. e \in Env /\ sdk[e].life = "live"
        BY <1>2, <1>6, <3>2 DEF ClickAt, Works, OnScreen
      <4>2. Api(c, e)
        BY <2>2, <2>3, <3>2, <4>1 DEF SdkCall, Gone
      <4>. QED
        BY <1>2, <1>5, <1>6, <1>7, <1>10, <2>2, <4>1, <4>2, ClickCall
    <3>. QED
      BY <3>1, <3>2
  <2>5. /\ ptr'[View] = e /\ render' = render
        /\ Rest(todo', ClickCalls(View, render'.path, output, NormalCmd))
    BY <1>0, <1>1, <1>4, <1>7, <2>2
  <2>6. Len(todo') = left - 1
    BY <1>4, <2>2, Zenon
  <2>7. todo' # << >>
    BY <1>10, <2>6, EmptySeq
  <2>8. ClickAt(Len(todo), ptr[View])'
    <3>1. PICK l : l = Len(todo')
      OBVIOUS
    <3>2. ClickAt(l, e)'
      BY <2>4, <2>6, <3>1
    <3>. QED
      BY <2>5, <3>1, <3>2 DEF ClickAt, Works, OnScreen, InCharge, CurrentOf, Textured,
         Given, FedRight, HasNothing, Shows
  <2>9. Rest(todo, ClickCalls(View, render.path, output, NormalCmd))'
    BY <2>5 DEF Rest
  <2>. QED
    BY <1>0, <1>2, <2>5, <2>7, <2>8, <2>9 DEF Clicking
<1>11. CASE left = 1
  <2>1. c.api = "onSuccess" /\ c.who = View
    BY <1>5, <1>11, KeptFields
  <2>2. OnSuccess(c)
    BY <1>8, <1>9, <2>1 DEF ApiNames, JniStep, Lookup, CheckPointer, CheckInit, ReturnPointer
  <2>3. UNCHANGED <<vars, ptr>> /\ todo' = Tail(todo)
    BY <2>2 DEF OnSuccess, GoOn
  <2>4. Len(todo') = 0
    <3>1. Len(todo') = left - 1
      BY <1>4, <2>3, Zenon
    <3>. QED
      BY <1>11, <3>1
  <2>5. \A i \in Positions' : FALSE
    BY <2>4 DEF Positions
  <2>6. Watched(e)'
    <3>1. CASE e = NoEnv
      BY <1>1, <1>6, <2>1, <2>2, <3>1 DEF OnSuccess, ClickAt, Watched
    <3>2. CASE e # NoEnv
      <4>1. Works(e) /\ Given(e) /\ (InCharge(e) => Shows(e))
        BY <1>6, <1>11, <3>2 DEF ClickAt
      <4>2. Works(e)'
        BY <1>7, <2>3, <4>1, WorksOn DEF vars, glVars
      <4>3. Given(e)' /\ (InCharge(e)' => Shows(e)')
        BY <1>7, <2>3, <4>1 DEF vars, glVars, Given, FedRight, HasNothing, InCharge,
           CurrentOf, Shows
      <4>. QED
        BY <3>2, <4>2, <4>3 DEF Watched
    <3>. QED
      BY <3>1, <3>2
  <2>. QED
    BY <1>1, <2>3, <2>5, <2>6 DEF Watching
<1>. QED
  BY <1>4, <1>10, <1>11

-----------------------------------------------------------------------------
(* The events of the application, seen from the view.                      *)
LEMMA WatchedOn ==
    ASSUME NEW e, Watched(e), UNCHANGED <<vars, fed>>,
           View \in answered' <=> View \in answered, disturbed => disturbed', render'.path = render.path,
           render'.state \in {"front", "stopped"} => render.state \in {"front", "stopped"}
    PROVE  Watched(e)'
<1>1. CASE e = NoEnv
  BY <1>1 DEF Watched
<1>2. CASE e # NoEnv
  <2>1. /\ OnScreen(e)' = OnScreen(e) /\ InCharge(e)' = InCharge(e)
        /\ Textured(e)' = Textured(e) /\ Shows(e)' = Shows(e)
        /\ FedRight(e)' = FedRight(e) /\ HasNothing(e)' = HasNothing(e)
        /\ sdk'[e].hooks = sdk[e].hooks
    BY DEF vars, glVars, OnScreen, InCharge, CurrentOf, Textured, Shows, FedRight, HasNothing
  <2>2. Works(e)' /\ Given(e)'
    BY <1>2, <2>1 DEF Watched, Works, Given
  <2>. QED
    BY <1>2, <2>1, <2>2 DEF Watched
<1>. QED
  BY <1>1, <1>2

(* HomeActivity's handlers make only calls that the view can stand.        *)
LEMMA HomeSetsUp ==
    ASSUME NEW s, s = InitSDK(Home) \/ s = FreeSDK(Home), NEW i \in 1 .. Len(s)
    PROVE  s[i].who = Home /\ ~Draws(s[i])
<1>1. CASE s = InitSDK(Home)
  <2>1. i \in 1 .. 7
    BY <1>1, SetUpLists
  <2>2. PICK api \in {"lookup", "newBlankSdkEnv", "check", "setPlatformData", "initSdkEnv",
                      "init", "return"} : s[i] = OnLocal(api, Home)
    BY <1>1, <2>1, SetUpLists
  <2>. QED
    BY <2>2, LocalFields DEF Draws
<1>2. CASE s = FreeSDK(Home)
  <2>1. s[i] = OnKept("freeSdkEnv", Home, NoArg)
    BY <1>2, SetUpLists
  <2>. QED
    BY <2>1, KeptFields DEF Draws
<1>. QED
  BY <1>1, <1>2

LEMMA HomeClicks ==
    ASSUME NEW path, NEW output, NEW cmd, NEW s, s = ClickCalls(Home, path, output, cmd),
           NEW i \in 1 .. Len(s)
    PROVE  s[i].who = Home /\ ~Moves(s[i])
<1>1. i \in 1 .. 6
  <2>1. Len(ClickCalls(Home, path, output, cmd)) = 6
    BY ClickList
  <2>. QED
    BY <2>1
<1>2. \E api \in {"setInputImagePath", "setOutputImagePath", "setEffectCmd",
                  "swapEglBuffers", "onSdkDraw", "onSuccess"},
         arg \in {path, output, cmd, NoArg} : s[i] = OnKept(api, Home, arg)
  BY <1>1, ClickList
<1>. QED
  BY <1>2, KeptFields DEF Moves, Allocates

LEMMA StillHarmless ==
    ASSUME NEW s, todo' = s,
           \A i \in 1 .. Len(s) :
              /\ s[i].who = Home
              /\ Moves(s[i]) => disturbed'
              /\ Draws(s[i]) => render'.state \in {"absent", "leaving"}
    PROVE  \A i \in Positions' : Harmless(todo[i])'
  BY DEF Positions, Harmless, Moves, Draws, Allocates

(* A click on the view starts.                                             *)
LEMMA ClickStarts ==
    ASSUME HostInv, todo = << >>, Screen, Watched(ptr[View]), RenderClick,
           UNCHANGED vars
    PROVE  todo' # << >> /\ Clicking'
<1>1. PICK output \in Outputs :
        todo' = (IF render.given THEN << >>
                 ELSE SetInputPath(View, render.path) \o SetOutputPath(View, output))
                  \o SetCmd(View, NormalCmd) \o ExecuteCmd(View)
  BY DEF RenderClick, Start
<1>2. /\ render.state = "front" /\ render \in RenderRecord
      /\ render' = [render EXCEPT !.given = TRUE]
      /\ fed' = IF render.given THEN fed ELSE ptr[View]
      /\ UNCHANGED <<home, disturbed, ptr, answered>>
  BY DEF RenderClick, HostInv, PointersTyped
<1>3. render'.state = "front" /\ render'.path = render.path
  BY <1>2 DEF RenderRecord
<1>4. PICK e : e = ptr[View] /\ Watched(e)
  OBVIOUS
<1> DEFINE t == ClickCalls(View, render.path, output, NormalCmd)
<1>5. CASE render.given
  <2>1. todo' = AgainCalls(View, NormalCmd)
    BY <1>1, <1>5 DEF AgainCalls
  <2>2. Rest(AgainCalls(View, NormalCmd), t) /\ Len(AgainCalls(View, NormalCmd)) = 4
    <3>1. PICK u, s : /\ u = AgainCalls(View, NormalCmd) /\ s = t
                      /\ Len(u) = 4 /\ Len(s) = 6
                      /\ u[1] = s[3] /\ u[2] = s[4] /\ u[3] = s[5] /\ u[4] = s[6]
      BY ClickList
    <3>2. \A i \in 1 .. 4 : u[i] = s[i + (6 - 4)]
      BY <3>1
    <3>. QED
      BY <3>1, <3>2 DEF Rest
  <2> HIDE DEF t
  <2>3. Watched(e)'
    BY <1>2, <1>3, <1>4, <1>5, WatchedOn
  <2>4. ClickAt(4, e)'
    BY <2>3 DEF ClickAt, Watched
  <2>. QED
    BY <1>2, <1>3, <1>4, <2>1, <2>2, <2>4, EmptySeq DEF Clicking, t
<1>6. CASE ~render.given
  <2>1. todo' = t
    BY <1>1, <1>6 DEF ClickCalls
  <2>2. Len(t) = 6 /\ Rest(t, t)
    BY ClickList DEF Rest
  <2> HIDE DEF t
  <2>3. fed = NoEnv /\ fed' = e
    BY <1>2, <1>4, <1>6 DEF Screen
  <2>4. ClickAt(6, e)'
    <3>1. CASE e = NoEnv
      BY <1>2, <1>4, <3>1 DEF Watched, ClickAt
    <3>2. CASE e # NoEnv
      <4>1. Works(e) /\ HasNothing(e)
        BY <1>4, <2>3, <3>2 DEF Watched, Given
      <4>2. Works(e)' /\ HasNothing(e)'
        BY <1>2, <1>3, <4>1 DEF Works, HasNothing, OnScreen, InCharge, CurrentOf, Textured,
           vars, glVars
      <4>. QED
        BY <2>3, <3>2, <4>2 DEF ClickAt
    <3>. QED
      BY <3>1, <3>2
  <2>5. Len(todo') = 6 /\ Rest(todo', t)
    BY <2>1, <2>2
  <2>6. todo' # << >>
    BY <2>5, EmptySeq
  <2>. QED
    BY <1>2, <1>3, <1>4, <2>4, <2>5, <2>6 DEF Clicking, t
<1>. QED
  BY <1>5, <1>6

LEMMA ViewEvents ==
    ASSUME HostInv, ViewInv, AppStep
    PROVE  ViewInv'
<1>1. /\ host = "app" /\ todo = << >> /\ proc = "running" /\ AppEvent
      /\ UNCHANGED <<vars, local>> /\ local = NoEnv
  BY BetweenHandlers DEF AppStep, Idle
<1>2. /\ Screen /\ Unmade /\ render \in RenderRecord
      /\ fed # NoEnv => sdk[fed].life # "none"
      /\ render.surface => Watching
      /\ render.surface => render.state # "absent"
  BY <1>1 DEF ViewInv, HostInv, PointersTyped
<1>3. Unmade' /\ UNCHANGED <<proc, sdk>>
  BY <1>1, <1>2 DEF Unmade, vars, glVars
<1>4. PICK e : e = ptr[View] /\ (render.surface => Watched(e))
  BY <1>2 DEF Watching
<1>5. ptr[View] # NoEnv => sdk[ptr[View]].life # "none"
  BY DEF HostInv, OneHolder
(* What remains to be shown of each event.                                 *)
<1>6. ASSUME Screen', fed' \in {fed, NoEnv, ptr[View]},
             render'.surface =>
                Watching' \/ (todo' # << >> /\ SettingUp') \/ (todo' # << >> /\ Clicking')
      PROVE  ViewInv'
  <2>1. fed' # NoEnv => sdk'[fed'].life # "none"
    BY <1>2, <1>3, <1>5, <1>6
  <2>. QED
    BY <1>3, <1>6, <2>1 DEF ViewInv
<1>7. ASSUME \A i \in 1 .. Len(todo') :
                /\ todo'[i].who = Home
                /\ Moves(todo'[i]) => disturbed'
                /\ Draws(todo'[i]) => render'.state \in {"absent", "leaving"},
             render'.surface => /\ UNCHANGED <<fed>> /\ render.surface
                                /\ ptr'[View] = ptr[View]
                                /\ (View \in answered' <=> View \in answered)
                                /\ (disturbed => disturbed') /\ render'.path = render.path
                                /\ render'.state \in {"front", "stopped"} =>
                                     render.state \in {"front", "stopped"},
             Screen', fed' \in {fed, NoEnv}
      PROVE  ViewInv'
  <2>1. PICK s : s = todo'
    OBVIOUS
  <2>2. \A i \in Positions' : Harmless(todo[i])'
    BY <1>7, <2>1, StillHarmless
  <2>3. render'.surface => Watched(e)'
    BY <1>1, <1>4, <1>7, WatchedOn
  <2>. QED
    BY <1>4, <1>6, <1>7, <2>2, <2>3 DEF Watching
<1>8. ASSUME UNCHANGED <<todo, ptr, answered, disturbed>>, Screen', fed' \in {fed, NoEnv},
             render'.surface => /\ fed' = fed /\ render.surface /\ render'.path = render.path
                                /\ render'.state \in {"front", "stopped"} =>
                                     render.state \in {"front", "stopped"}
      PROVE  ViewInv'
  <2>1. \A i \in 1 .. Len(todo') : FALSE
    BY <1>1, <1>8, EmptySeq
  <2>. QED
    BY <1>7, <1>8, <2>1
<1>9. CASE HomeCreate
  <2>1. /\ render.state \in {"absent", "leaving"}
        /\ home' = [state |-> "front", path |-> NoPath]
        /\ ptr' = [ptr EXCEPT ![Home] = NoEnv] /\ answered' = answered \ {Home}
        /\ todo' = InitSDK(Home) /\ disturbed' = render.surface /\ UNCHANGED <<render, fed>>
    BY <1>9 DEF HomeCreate, Start
  <2>2. \A i \in 1 .. Len(todo') : todo'[i].who = Home /\ ~Draws(todo'[i])
    BY <2>1, HomeSetsUp
  <2>3. Screen' /\ ptr'[View] = ptr[View] /\ (View \in answered' <=> View \in answered)
    BY <1>2, <2>1 DEF Screen, HostInv, PointersTyped
  <2>4. ASSUME render.surface PROVE ViewInv'
    BY <1>7, <2>1, <2>2, <2>3, <2>4
  <2>5. ASSUME ~render.surface PROVE ViewInv'
    BY <1>6, <2>1, <2>3, <2>5
  <2>. QED
    BY <2>4, <2>5
<1>10. CASE HomeDestroy
  <2>1. /\ home' = NoHome /\ todo' = FreeSDK(Home) /\ disturbed' = render.surface
        /\ UNCHANGED <<render, fed, ptr, answered>>
    BY <1>10 DEF HomeDestroy, Start
  <2>2. \A i \in 1 .. Len(todo') : todo'[i].who = Home /\ ~Draws(todo'[i])
    BY <2>1, HomeSetsUp
  <2>3. Screen'
    BY <1>2, <2>1 DEF Screen, NoHome
  <2>4. ASSUME render.surface PROVE ViewInv'
    BY <1>7, <2>1, <2>2, <2>3, <2>4
  <2>5. ASSUME ~render.surface PROVE ViewInv'
    BY <1>6, <2>1, <2>3, <2>5
  <2>. QED
    BY <2>4, <2>5
<1>11. ASSUME NEW path \in Path, HomePick(path) PROVE ViewInv'
  <2>1. /\ home' = [home EXCEPT !.path = path] /\ home \in HomeRecord
        /\ UNCHANGED <<todo, render, fed, disturbed, ptr, answered>>
    BY <1>11 DEF HomePick, HostInv, PointersTyped
  <2>2. home'.state = home.state
    BY <2>1 DEF HomeRecord
  <2>3. Screen'
    BY <1>2, <2>1, <2>2 DEF Screen
  <2>. QED
    BY <1>8, <2>1, <2>3
<1>12. CASE HomeLoad
  <2>1. /\ home.state = "front"
        /\ UNCHANGED <<home, render, fed, disturbed, ptr, answered>>
    BY <1>12 DEF HomeLoad
  <2>2. PICK output \in Outputs : todo' = ClickCalls(Home, home.path, output, RotateCmd)
    BY <1>12 DEF HomeLoad, Start, ClickCalls
  <2>3. \A i \in 1 .. Len(todo') : todo'[i].who = Home /\ ~Moves(todo'[i])
    BY <2>2, HomeClicks
  <2>4. Screen' /\ render.state \in {"absent", "leaving"}
    BY <1>2, <2>1 DEF Screen
  <2>. QED
    BY <1>7, <2>1, <2>3, <2>4
<1>13. CASE HomeGo
  <2>1. /\ home' = [home EXCEPT !.state = "behind"] /\ home \in HomeRecord
        /\ render' = [NoRender EXCEPT !.state = "front", !.path = home.path]
        /\ fed' = NoEnv
    BY <1>13 DEF HomeGo, HostInv, PointersTyped
  <2>2. home'.state = "behind" /\ ~render'.surface
    BY <2>1 DEF HomeRecord, NoRender
  <2>3. Screen'
    BY <2>1, <2>2 DEF Screen
  <2>. QED
    BY <1>6, <2>1, <2>2, <2>3
<1>14. CASE SurfaceCreated
  <2>1. /\ render' = [render EXCEPT !.surface = TRUE]
        /\ ptr' = [ptr EXCEPT ![View] = NoEnv] /\ answered' = answered \ {View}
        /\ todo' = InitRenderSDK(View) /\ disturbed' = FALSE /\ UNCHANGED <<home, fed>>
        /\ ptr \in [Holder -> Env \cup {NoEnv}]
    BY <1>14 DEF SurfaceCreated, Start, HostInv, PointersTyped
  <2>2. render'.state = render.state /\ render'.given = render.given
    BY <1>2, <2>1 DEF RenderRecord
  <2>3. Screen'
    BY <1>2, <2>1, <2>2 DEF Screen
  <2>4. Len(InitRenderSDK(View)) = 9
    BY SetUpLists
  <2>5. /\ Len(todo') = 9 /\ todo' # << >>
        /\ Rest(InitRenderSDK(View), InitRenderSDK(View))
    BY <2>1, <2>4, EmptySeq DEF Rest
  <2>6. local' = NoEnv /\ View \notin answered' /\ ptr'[View] = NoEnv
    BY <1>1, <2>1
  <2>7. SetUpAt(9, NoEnv)'
    BY DEF SetUpAt
  <2>8. SettingUp'
    BY <2>1, <2>5, <2>6, <2>7 DEF SettingUp
  <2>. QED
    BY <1>6, <2>1, <2>3, <2>5, <2>8
<1>15. CASE SurfaceDestroyed
  <2>1. render' = [render EXCEPT !.surface = FALSE] /\ UNCHANGED <<home, fed>>
    BY <1>15 DEF SurfaceDestroyed
  <2>2. /\ render'.state = render.state /\ render'.given = render.given
        /\ ~render'.surface
    BY <1>2, <2>1 DEF RenderRecord
  <2>3. Screen'
    BY <1>2, <2>1, <2>2 DEF Screen
  <2>. QED
    BY <1>6, <2>1, <2>2, <2>3
<1>16. CASE RenderClick
  <2>1. /\ render.surface /\ render' = [render EXCEPT !.given = TRUE]
        /\ fed' = IF render.given THEN fed ELSE ptr[View]
        /\ home' = home
    BY <1>16 DEF RenderClick
  <2>2. render'.state = render.state /\ render'.given
    BY <1>2, <2>1 DEF RenderRecord
  <2>3. Screen'
    BY <1>2, <2>1, <2>2 DEF Screen
  <2>4. todo' # << >> /\ Clicking'
    BY <1>1, <1>2, <1>4, <1>16, <2>1, ClickStarts
  <2>. QED
    BY <1>6, <2>1, <2>3, <2>4
<1>17. ASSUME NEW state \in {"stopped", "front"}, render.state \in {"stopped", "front"},
              render' = [render EXCEPT !.state = state],
              UNCHANGED <<todo, home, fed, disturbed, ptr, answered>>
       PROVE  ViewInv'
  <2>1. /\ render'.state = state /\ render'.given = render.given
        /\ render'.surface = render.surface /\ render'.path = render.path
    BY <1>2, <1>17 DEF RenderRecord
  <2>2. Screen'
    BY <1>2, <1>17, <2>1 DEF Screen
  <2>. QED
    BY <1>8, <1>17, <2>1, <2>2
<1>18. CASE RenderStop \/ RenderRestart
  BY <1>17, <1>18 DEF RenderStop, RenderRestart
<1>19. CASE RenderRotate
  <2>1. /\ render.state = "stopped"
        /\ render' = [NoRender EXCEPT !.state = "front", !.path = render.path]
        /\ fed' = NoEnv /\ UNCHANGED <<todo, home, disturbed, ptr, answered>>
    BY <1>19 DEF RenderRotate
  <2>2. render'.state = "front" /\ ~render'.surface
    BY <2>1 DEF NoRender
  <2>3. Screen'
    BY <1>2, <2>1, <2>2 DEF Screen
  <2>. QED
    BY <1>8, <2>1, <2>2, <2>3
<1>20. CASE RenderDestroyed
  <2>1. /\ render' = NoRender
        /\ fed' = NoEnv /\ UNCHANGED <<todo, home, disturbed, ptr, answered>>
    BY <1>20 DEF RenderDestroyed
  <2>2. render'.state = "absent" /\ ~render'.surface
    BY <2>1 DEF NoRender
  <2>3. Screen'
    BY <1>2, <2>1, <2>2 DEF Screen
  <2>. QED
    BY <1>8, <2>1, <2>2, <2>3
<1>21. CASE RenderBack
  <2>1. /\ render.state = "front" /\ render' = [render EXCEPT !.state = "leaving"]
        /\ UNCHANGED <<todo, fed, disturbed, ptr, answered>>
    BY <1>21 DEF RenderBack
  <2>2. /\ render'.state = "leaving" /\ render'.given = render.given
        /\ render'.surface = render.surface /\ render'.path = render.path
    BY <1>2, <2>1 DEF RenderRecord
  <2>3. Screen'
    BY <1>2, <2>1, <2>2 DEF Screen
  <2>. QED
    BY <1>8, <2>1, <2>2, <2>3
<1>. QED
  BY <1>1, <1>9, <1>10, <1>11, <1>12, <1>13, <1>14, <1>15, <1>16, <1>18, <1>19,
     <1>20, <1>21 DEF AppEvent

(* The calls.                                                              *)
LEMMA ViewCalls ==
    ASSUME HostInv, host = "app" => ClientInv, OtherTyped, ViewInv, Call
    PROVE  ViewInv'
<1>1. /\ todo # << >> /\ proc = "running" /\ UNCHANGED <<home, render, fed, disturbed, host>>
      /\ fed \in Env \cup {NoEnv} /\ todo[1] \in Calls
  BY CallMoves DEF Call, appVars, OtherTyped
<1> SUFFICES ASSUME host = "app" PROVE ViewInv'
  BY <1>1 DEF ViewInv
<1>2. /\ ClientInv /\ TypeOK /\ ContextInv /\ Screen /\ Unmade
      /\ fed # NoEnv => fed \in Env /\ sdk[fed].life # "none"
      /\ render.surface =>
            Watching \/ (todo # << >> /\ SettingUp) \/ (todo # << >> /\ Clicking)
  BY <1>1 DEF ViewInv, ClientInv, InputInv
<1>3. Screen'
  BY <1>1, <1>2 DEF Screen
<1>4. Unmade' /\ (fed # NoEnv => sdk'[fed].life # "none")
  <2>1. CASE Rests
    BY <1>2, <2>1 DEF Rests, glVars, Unmade
  <2>2. CASE ~Rests
    <3>1. PICK o \in Env : Acts(todo[1], o)
      BY <1>2, <2>2, CallActs
    <3>2. Unmade'
      BY <1>2, <3>1, ActsUnmade
    <3>3. fed # NoEnv => sdk'[fed].life # "none"
      BY <1>1, <1>2, <3>1, ActsLives
    <3>. QED
      BY <3>2, <3>3
  <2>. QED
    BY <2>1, <2>2
<1>5. ASSUME render.surface
      PROVE  Watching' \/ (todo' # << >> /\ SettingUp') \/ (todo' # << >> /\ Clicking')
  <2>1. CASE Watching
    BY <1>2, <2>1, HomeCalls
  <2>2. CASE SettingUp
    BY <1>2, <2>2, SetUpStep
  <2>3. CASE Clicking
    BY <1>2, <2>3, ClickStep
  <2>. QED
    BY <1>2, <1>5, <2>1, <2>2, <2>3
<1>. QED
  BY <1>1, <1>3, <1>4, <1>5 DEF ViewInv

LEMMA ViewInit == HostInit => ViewInv
<1> SUFFICES ASSUME HostInit PROVE ViewInv
  OBVIOUS
<1>1. /\ home = NoHome /\ render = NoRender /\ fed = NoEnv
      /\ bound = {} /\ shown = [ctx \in Ctx |-> NoImage]
  BY DEF HostInit, AppInit, Init
<1>2. home.state = "absent" /\ ~render.surface
  BY <1>1 DEF NoHome, NoRender
<1>3. Screen /\ Unmade
  BY <1>1, <1>2 DEF Screen, Unmade
<1>. QED
  BY <1>1, <1>2, <1>3 DEF ViewInv

LEMMA ViewStep ==
    ProgramInv /\ ViewInv /\ [HostNext]_hostVars => ViewInv'
<1> SUFFICES ASSUME ProgramInv, ViewInv, [HostNext]_hostVars PROVE ViewInv'
  OBVIOUS
<1>1. HostInv /\ OtherTyped /\ (host = "app" => ClientInv)
  BY DEF ProgramInv
<1>2. CASE UNCHANGED hostVars
  <2>1. /\ Screen' = Screen /\ Unmade' = Unmade
        /\ UNCHANGED <<host, proc, fed, sdk, render, todo>>
    BY <1>2 DEF hostVars, vars, glVars, appVars, callVars, Screen, Unmade
  <2>2. ASSUME Watching PROVE Watching'
    <3>1. PICK e : e = ptr[View] /\ Watched(e)
      BY <2>2 DEF Watching
    <3>2. Watched(e)'
      BY <1>2, <3>1, WatchedOn DEF hostVars, appVars, callVars
    <3>. QED
      BY <1>2, <2>2, <3>1, <3>2 DEF hostVars, appVars, callVars, Watching, Positions,
         Harmless, Moves, Draws, Allocates
  <2>3. SettingUp => SettingUp'
    BY <1>2 DEF hostVars, vars, glVars, appVars, callVars, SettingUp, Rest, SetUpAt,
       Fresh, Begun, OnScreen, InCharge, CurrentOf, HasNothing, Textured
  <2>4. Clicking => Clicking'
    BY <1>2 DEF hostVars, vars, glVars, appVars, callVars, Clicking, Rest, ClickAt,
       Works, Given, FedRight, Shows, OnScreen, InCharge, CurrentOf, HasNothing, Textured
  <2>. QED
    BY <2>1, <2>2, <2>3, <2>4 DEF ViewInv
<1>3. CASE Call
  BY <1>1, <1>3, ViewCalls
<1>4. CASE AppStep
  BY <1>1, <1>4, ViewEvents
<1>5. CASE GlueStep \/ ConsoleStep
  BY <1>5 DEF GlueStep, ConsoleStep, ViewInv
<1>. QED
  BY <1>2, <1>3, <1>4, <1>5 DEF HostNext

(* Between two events, the view's instance is the one Watched describes.   *)
LEMMA BetweenEvents ==
    ASSUME ProgramInv, ViewInv, host = "app", Idle, render.surface
    PROVE  /\ Watched(ptr[View]) /\ ptr[View] \in Env \cup {NoEnv}
           /\ ptr[View] # NoEnv => Ready(ptr[View])
<1>1. todo = << >> /\ proc = "running" /\ Watched(ptr[View])
  BY DEF Idle, ViewInv, Watching
<1>2. ptr[View] \in Env \cup {NoEnv}
  BY DEF ProgramInv, HostInv, PointersTyped
<1>. QED
  BY <1>1, <1>2 DEF Watched, Works, OnScreen, Ready, Live

(* RenderActivity's instance works on its surface, and its context is      *)
(* current, until HomeActivity makes or leaves a context of its own on the *)
(* same thread (imgsdk.c:689): through every failed allocation, lookup and *)
(* initialisation, and whatever the platform does to the two activities.   *)
THEOREM ContextTakenByHomeOnly == HostSpec => []OnlyHomeTakesContext
<1>1. ProgramInv /\ ViewInv => OnlyHomeTakesContext
  <2> SUFFICES ASSUME ProgramInv, ViewInv, host = "app", Idle, render.surface,
                      ~disturbed, ptr[View] # NoEnv
               PROVE  /\ Ready(ptr[View])
                      /\ CurrentOf(ptr[View]) = egl[ptr[View]].context
    BY DEF OnlyHomeTakesContext
  <2>. QED
    BY BetweenEvents DEF Watched, Works, InCharge
<1>. QED
  BY <1>1, ProgramInit, ProgramStep, ViewInit, ViewStep, PTL DEF HostSpec

(* After a click was answered, the window shows the image of the activity  *)
(* if the paths were given on this surface, nothing if the image could not *)
(* be loaded, and nothing on a later surface (NativeImageSdk.c:274,        *)
(* RenderActivity.java:59): never an older picture, HomeActivity's, or     *)
(* what the buffers held before the swap.                                  *)
THEOREM ClicksAreShown == HostSpec => []AnsweredClickShows
<1>1. ProgramInv /\ ViewInv => AnsweredClickShows
  <2> SUFFICES ASSUME ProgramInv, ViewInv, ViewWorks, View \in answered,
                      NEW e, e = ptr[View]
               PROVE  IF fed = e /\ sdk[e].linked
                      THEN /\ target[egl[e].context] = user[e].param
                           /\ target[egl[e].context] # NoImage =>
                                target[egl[e].context].src = render.path
                      ELSE target[egl[e].context] = NoImage
    BY DEF AnsweredClickShows
  <2>1. /\ host = "app" /\ Idle /\ render.surface /\ e # NoEnv
        /\ CurrentOf(e) = egl[e].context
    BY DEF ViewWorks
  <2>2. Given(e) /\ Shows(e)
    BY <2>1, BetweenEvents DEF Watched, InCharge
  <2>. QED
    BY <2>2 DEF Given, Shows, FedRight, HasNothing
<1>. QED
  BY <1>1, ProgramInit, ProgramStep, ViewInit, ViewStep, PTL DEF HostSpec
=============================================================================
