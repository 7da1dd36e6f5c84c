--------------------------- MODULE EffectParser ---------------------------
(***************************************************************************)
(* The effect-command parser of jni/src/eftcmd.c as operators on eftcmd_t. *)
(*                                                                         *)
(* A user command is a record [name, args]: `name` is the value of its     *)
(* "effect" key, or Unreadable for text in which cJSON finds no such       *)
(* string (malformed text, no "effect" key, a value that is no string);    *)
(* `args` are the values found under the keys the effect reads, in the     *)
(* order the code reads them ("degree"; "percent"; "x","y","w","h").       *)
(* A value is an integer, NotANumber (its valueint is 0, as cJSON leaves   *)
(* it for strings, objects and false) or Absent (NULL).                    *)
(* A Clip without "param" has no args at all.                              *)
(*                                                                         *)
(* eftcmd_t.params is the tuple of the ints written so far, or Null; its   *)
(* capacity, 8 in initEffectCmd, bounds the tuple's indices.               *)
(***************************************************************************)
EXTENDS Integers, Sequences

CONSTANTS
    Absent,         \* cJSON_GetObjectItem returned NULL
    NotANumber,     \* an item whose type is not cJSON_Number
    Unreadable,     \* no effect name can be read from the command
    Null            \* eftcmd_t.params = NULL

MaxEffectParamCount == 8

(* eftcmd_t as calloc leaves it (newDefaultSdkEnv never calls               *)
(* initEffectCmd), and as initEffectCmd fills it.                           *)
BlankEffect ==
    [cmd |-> "Normal", valid |-> FALSE, count |-> 0, params |-> Null]

ZeroParams == [i \in 1 .. MaxEffectParamCount |-> 0]

InitEffectCmd ==
    [cmd |-> "Normal", valid |-> TRUE, count |-> 0, params |-> ZeroParams]

(* What a parser gives back: its return code, the struct, and whether it   *)
(* followed a NULL pointer on the way.                                     *)
Parsed(ret, eft) == [ret |-> ret, eft |-> eft, crash |-> FALSE]
NullAccess(eft)  == [ret |-> -1, eft |-> eft, crash |-> TRUE]

(* Mutant: cJSON's double is stored unconverted for what is no number.     *)
ValueUnconverted(arg) == arg

ValueInt(arg) == IF arg \in {Absent, NotANumber} THEN 0 ELSE arg

(* Store the ints of `args` at the front of params and declare the command *)
(* valid.  cmd and count are already written when params is dereferenced.  *)
StoreParams(name, args, eft, ret) ==
    LET named == [eft EXCEPT !.cmd = name, !.count = Len(args)]
    IN  IF eft.params = Null
        THEN NullAccess(named)
        ELSE Parsed(ret,
               [named EXCEPT
                  !.valid  = TRUE,
                  !.params = [i \in DOMAIN eft.params |->
                                IF i <= Len(args) THEN ValueInt(args[i])
                                                  ELSE eft.params[i]]])

-----------------------------------------------------------------------------
(* parseNormalEffect takes the parameter array away and leaves the command *)
(* not valid, with 0.                                                      *)
ParseNormalEffect(eft) ==
    Parsed(0, [cmd |-> "Normal", valid |-> FALSE, count |-> 0, params |-> Null])

(* Mutant: the parameter is stored before its type is looked at.           *)
ParseRotateStoresFirst(args, eft) ==
    IF eft.params = Null \/ args[1] \notin {Absent, NotANumber}
    THEN StoreParams("Rotate", args, eft, 0)
    ELSE Parsed(-1, [eft EXCEPT !.params[1] = ValueInt(args[1])])

(* parseRotateEffect and parseScaleEffect read one number each.            *)
ParseRotateEffect(args, eft) ==
    IF args[1] \in {Absent, NotANumber}
    THEN Parsed(-1, eft)
    ELSE StoreParams("Rotate", args, eft, 0)

ParseScaleEffect(args, eft) ==
    IF args[1] \in {Absent, NotANumber}
    THEN Parsed(-1, eft)
    ELSE StoreParams("Scale", args, eft, 0)

(* parseClipEffect looks at "x", "y", "w" in turn and returns at the first *)
(* that is no number; a missing key is dereferenced.  For "h" the type of  *)
(* "y" is looked at again.  It returns -1 also when it has stored all.     *)
ClipStopsAt(args) ==
    LET bad == {i \in 1 .. 3 : args[i] \in {Absent, NotANumber}}
    IN  IF bad = {} THEN 0 ELSE CHOOSE i \in bad : \A j \in bad : i <= j

ParseClipEffect(args, eft) ==
    LET stop == ClipStopsAt(args)
    IN  CASE args = << >> -> Parsed(-1, eft)
          [] args # << >> /\ stop # 0 ->
               IF args[stop] = Absent THEN NullAccess(eft) ELSE Parsed(-1, eft)
          [] args # << >> /\ stop = 0 /\ args[4] = Absent -> NullAccess(eft)
          [] OTHER -> StoreParams("Clip", args, eft, -1)

(* parseEffectCmd dispatches on the name.  Skin and Eye are "Not           *)
(* implemented yet"; they, unknown names and unreadable text change        *)
(* nothing and give -1.                                                    *)
ParseEffectCmd(cmd, eft) ==
    CASE cmd.name = "Normal" -> ParseNormalEffect(eft)
      [] cmd.name = "Rotate" -> ParseRotateEffect(cmd.args, eft)
      [] cmd.name = "Scale"  -> ParseScaleEffect(cmd.args, eft)
      [] cmd.name = "Clip"   -> ParseClipEffect(cmd.args, eft)
      [] OTHER               -> Parsed(-1, eft)

(* Mutant: `valid` is not reset before the command is parsed.              *)
ReparseStillValid(cmd, eft) == ParseEffectCmd(cmd, eft)

(* The first lines of setEffectCmd: whatever was valid is no longer, then  *)
(* the command is parsed into the same struct.                             *)
Reparse(cmd, eft) == ParseEffectCmd(cmd, [eft EXCEPT !.valid = FALSE])
=============================================================================
