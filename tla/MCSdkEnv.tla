----------------------------- MODULE MCSdkEnv -----------------------------
(***************************************************************************)
(* Small instances of SdkEnv.  jpg, png and gif are paths with a postfix   *)
(* the SDK reads, reads, and does not read; short is a path of fewer than  *)
(* five characters.  The forms are none (a PNG with grey and alpha), grey  *)
(* and RGB: a picture tells only whether it is the one that was selected.  *)
(***************************************************************************)
EXTENDS SdkEnvSession

CONSTANTS e1, e2, t1, t2, jpg, png, gif, short

Postfix ==
    [p \in Path |-> CASE p = jpg -> "jpg"
                      [] p = png -> "png"
                      [] p = short -> "none"
                      [] OTHER -> "other"]

Command(name, args) == [name |-> name, args |-> args]

(* An effect that is read, one that is not, and one that takes the array.  *)
AllCommands ==
    {Command("Rotate", <<90>>), Command("Skin", << >>), Command("Normal", << >>)}
TwoCommands == {Command("Rotate", <<90>>), Command("Normal", << >>)}
Rotate == {Command("Rotate", <<90>>)}
Skin == {Command("Skin", << >>)}

OwnThreads == [e \in Env |-> IF e = e1 THEN t1 ELSE t2]
SharedThread == [e \in Env |-> t1]

AllStops == NewBuffer .. AttachShader

(* eglInitialize does not fail.                                            *)
SureDisplay == AllStops \ {Initialize}

(* One stop before anything is current, one after.                         *)
FewStops == {CreateSurface, AttachShader}
=============================================================================
