---------------------------- MODULE MCSdkHosts ----------------------------
(***************************************************************************)
(* Small instances of SdkHosts: HomeActivity may be created twice, the     *)
(* view may get two surfaces, android_main may run twice, main once.       *)
(***************************************************************************)
EXTENDS SdkHosts

CONSTANTS h1, h2, v1, v2, a1, a2, m1, app1, app2, ui, loop1, loop2,
          jpg, png

Threads ==
    [e \in Env |-> CASE e = a1 -> loop1
                     [] e = a2 -> loop2
                     [] OTHER -> ui]

InstancesOf ==
    [h \in Holder |-> CASE h = Home -> {h1, h2}
                        [] h = View -> {v1, v2}
                        [] h = app1 -> {a1}
                        [] h = app2 -> {a2}
                        [] OTHER -> {m1}]

Postfix ==
    [p \in Path |-> IF p = jpg THEN "jpg" ELSE "png"]

Rotate == [name |-> "Rotate", args |-> <<90>>]
Normal == [name |-> "Normal", args |-> << >>]
BothCommands == {Rotate, Normal}

(* Memory before anything else, a context that is not made current, the    *)
(* shaders after everything else.                                          *)
SomeStops == {NewBuffer, MakeCurrent, AttachShader}

(* What a destroyed context held is never seen again: states that differ   *)
(* in nothing else are the same.                                           *)
InUse == {egl[e].context : e \in Env}
Held(content) == [c \in Ctx |-> IF c \in InUse THEN content[c] ELSE NoImage]
LiveView ==
    <<proc, sdk, egl, user, effect, current, refs, made, Held(shown),
      bound \cap InUse, Held(target), callVars, appVars, glueVars, host>>
=============================================================================
