----------------------------- MODULE EffectCmd -----------------------------
(***************************************************************************)
(* The life of one SdkEnv.effectCmd: filled by initEffectCmd (initSdkEnv)  *)
(* or left as calloc gave it (newDefaultSdkEnv), rewritten by the parser   *)
(* at the head of every setEffectCmd, released by freeEffectCmd.           *)
(***************************************************************************)
EXTENDS EffectParser

CONSTANTS
    Commands,       \* the user commands that may be set
    Beginnings,     \* BlankEffect (console), InitEffectCmd (Android), or both
    NoCommand       \* nothing has been set yet

(* The keys an effect reads, each with a value; what they are called is    *)
(* fixed by the order of the code.  Other names read no key.               *)
KeysRead(name) ==
    IF name \in {"Rotate", "Scale"} THEN {1}
    ELSE IF name = "Clip" THEN {0, 4} ELSE {0}

ASSUME CommandsAssumption ==
    \A cmd \in Commands :
        /\ cmd.args \in Seq(Int \cup {Absent, NotANumber})
        /\ Len(cmd.args) \in KeysRead(cmd.name)
ASSUME BeginningsAssumption == Beginnings \subseteq {BlankEffect, InitEffectCmd}
ASSUME NullAssumption == Null \notin [1 .. MaxEffectParamCount -> Int]

VARIABLES
    effect,         \* SdkEnv.effectCmd
    last,           \* the last command that was set
    ret,            \* what parseEffectCmd returned for it
    proc            \* "running", "crashed" on a NULL access, "freed"

vars == <<effect, last, ret, proc>>

Init ==
    /\ effect \in Beginnings
    /\ last = NoCommand
    /\ ret = 0
    /\ proc = "running"

SetEffectCmd(cmd) ==
    /\ proc = "running"
    /\ LET result == Reparse(cmd, effect)
       IN  /\ effect' = result.eft
           /\ last' = cmd
           /\ ret' = result.ret
           /\ proc' = IF result.crash THEN "crashed" ELSE "running"

FreeEffectCmd ==
    /\ proc = "running"
    /\ effect' = BlankEffect
    /\ proc' = "freed"
    /\ UNCHANGED <<last, ret>>

Next ==
    \/ \E cmd \in Commands : SetEffectCmd(cmd)
    \/ FreeEffectCmd

Spec == Init /\ [][Next]_vars

-----------------------------------------------------------------------------
Names == {"Normal", "Rotate", "Scale", "Clip"}

Params == {Null} \cup [1 .. MaxEffectParamCount -> Int]

Effects ==
    [cmd : Names, valid : BOOLEAN, count : 0 .. MaxEffectParamCount, params : Params]

(* eftcmd_t keeps the shape of its declaration in eftcmd.h.                *)
TypeOK ==
    /\ effect \in Effects
    /\ last \in Commands \cup {NoCommand}
    /\ ret \in {-1, 0}
    /\ proc \in {"running", "crashed", "freed"}

IsNumber(arg) == arg \notin {Absent, NotANumber}

(* A command that is marked valid is the last one that was set, with as    *)
(* many parameters as eftcmd.h documents for it and each number where the  *)
(* effect will look for it: no refused command leaves an older one valid,  *)
(* none mixes its numbers with those of an earlier one.                    *)
ValidDecodesLast ==
    effect.valid /\ last # NoCommand =>
        /\ effect.cmd = last.name
        /\ effect.params # Null
        /\ effect.count = Len(last.args)
        /\ \A i \in 1 .. effect.count :
              IsNumber(last.args[i]) => effect.params[i] = last.args[i]

(* A command that is refused half-way (a clip whose "w" is no number)      *)
(* leaves every stored parameter as it was: the parsers look at all keys   *)
(* before they write the first.                                            *)
RefusedLeavesParams ==
    [][ proc' = "running" /\ ret' = -1 /\ ~effect'.valid
           => effect'.params = effect.params ]_vars

-----------------------------------------------------------------------------
(* What the headers, checks and assertions of the code say, and the code   *)
(* does not do.                                                            *)

(* imgsdk.c:1055, assert(NULL != cmd->params): once initEffectCmd has run  *)
(* the parameter array exists, and the parsers store through it without    *)
(* looking.  So no command whose keys are all there meets a NULL pointer.  *)
ParamsStayAllocated == proc # "crashed"
=============================================================================
