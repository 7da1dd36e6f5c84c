-------------------------- MODULE EffectCmdProofs --------------------------
(***************************************************************************)
(* Proofs about EffectCmd, for every set of commands over all integers.    *)
(* Parsing is taken apart once, in ParserCases; the theorems only look at  *)
(* the four things it says a parser may do.                                *)
(***************************************************************************)
EXTENDS EffectCmd, SequenceTheorems, TLAPS

(* The parameters after `args` were stored over `params`.                  *)
Stored(args, params) ==
    [i \in 1 .. MaxEffectParamCount |->
        IF i <= Len(args) THEN ValueInt(args[i]) ELSE params[i]]

(* What a parser may do to a struct that is not valid: nothing; take the   *)
(* parameters away; meet NULL; or store all arguments and be valid.        *)
LeftAlone(r, eft) ==
    r.ret = -1 /\ ~r.crash /\ r.eft = eft

TookAway(r) ==
    /\ r.ret = 0 /\ ~r.crash
    /\ r.eft = [cmd |-> "Normal", valid |-> FALSE, count |-> 0, params |-> Null]

MetNull(r) ==
    /\ r.ret = -1 /\ r.crash
    /\ r.eft \in Effects /\ ~r.eft.valid

StoredAll(r, cmd, eft) ==
    /\ r.ret \in {-1, 0} /\ ~r.crash
    /\ eft.params \in [1 .. MaxEffectParamCount -> Int]
    /\ Len(cmd.args) \in 0 .. MaxEffectParamCount
    /\ r.eft \in Effects /\ r.eft.valid
    /\ r.eft.cmd = cmd.name
    /\ r.eft.count = Len(cmd.args)
    /\ r.eft.params = Stored(cmd.args, eft.params)

(* ValueInt makes an int of every value, and keeps a number.               *)
LEMMA ValueIntIsInt ==
    ASSUME NEW cmd \in Commands, NEW i \in 1 .. Len(cmd.args)
    PROVE  /\ ValueInt(cmd.args[i]) \in Int
           /\ IsNumber(cmd.args[i]) => ValueInt(cmd.args[i]) = cmd.args[i]
<1>1. cmd.args[i] \in Int \cup {Absent, NotANumber}
  BY CommandsAssumption, ElementOfSeq
<1>. QED
  BY <1>1 DEF ValueInt, IsNumber

LEMMA StoredIsParams ==
    ASSUME NEW cmd \in Commands,
           NEW params \in [1 .. MaxEffectParamCount -> Int]
    PROVE  Stored(cmd.args, params) \in [1 .. MaxEffectParamCount -> Int]
<1>1. ASSUME NEW i \in 1 .. MaxEffectParamCount
      PROVE  (IF i <= Len(cmd.args) THEN ValueInt(cmd.args[i]) ELSE params[i]) \in Int
  <2>1. CASE i <= Len(cmd.args)
    BY <2>1, ValueIntIsInt, LenProperties, CommandsAssumption
  <2>2. CASE ~(i <= Len(cmd.args))
    BY <2>2
  <2>. QED
    BY <2>1, <2>2
<1>. QED
  BY <1>1 DEF Stored

(* The arguments of a command that is stored.                              *)
LEMMA ArgsFit ==
    ASSUME NEW cmd \in Commands
    PROVE  Len(cmd.args) \in 0 .. MaxEffectParamCount
<1>1. Len(cmd.args) \in {0, 1, 4}
  BY CommandsAssumption DEF KeysRead
<1>. QED
  BY <1>1 DEF MaxEffectParamCount

LEMMA IndexFits ==
    ASSUME NEW n \in 0 .. MaxEffectParamCount, NEW i \in 1 .. n
    PROVE  i \in 1 .. MaxEffectParamCount /\ i <= n
BY DEF MaxEffectParamCount

(* StoreParams meets NULL or stores everything.                            *)
LEMMA StoreCases ==
    ASSUME NEW cmd \in Commands, NEW eft \in Effects, ~eft.valid,
           cmd.name \in Names, NEW code \in {-1, 0}
    PROVE  LET r == StoreParams(cmd.name, cmd.args, eft, code)
           IN  MetNull(r) \/ StoredAll(r, cmd, eft)
<1> DEFINE r == StoreParams(cmd.name, cmd.args, eft, code)
           named == [eft EXCEPT !.cmd = cmd.name, !.count = Len(cmd.args)]
<1>1. Len(cmd.args) \in 0 .. MaxEffectParamCount
  BY ArgsFit
<1>2. named \in Effects /\ ~named.valid
  BY <1>1 DEF Effects
<1>3. named.cmd = cmd.name /\ named.count = Len(cmd.args)
  BY DEF Effects
<1> HIDE DEF named
<1>4. CASE eft.params = Null
  <2>1. r = NullAccess(named)
    BY <1>4 DEF StoreParams, named
  <2>2. r.ret = -1 /\ r.crash /\ r.eft = named
    BY <2>1 DEF NullAccess
  <2>. QED
    BY <2>2, <1>2 DEF MetNull
<1>5. CASE eft.params # Null
  <2>1. eft.params \in [1 .. MaxEffectParamCount -> Int]
    BY <1>5 DEF Effects, Params
  <2>2. DOMAIN eft.params = 1 .. MaxEffectParamCount
    BY <2>1
  <2> DEFINE stored == Stored(cmd.args, eft.params)
             full == [named EXCEPT !.valid = TRUE, !.params = stored]
  <2>3. r = Parsed(code, full)
    BY <1>5, <2>2 DEF StoreParams, Stored, named
  <2>4. stored \in Params
    BY <2>1, StoredIsParams DEF Params
  <2> HIDE DEF stored
  <2>5. /\ full \in Effects /\ full.valid /\ full.params = stored
        /\ full.cmd = named.cmd /\ full.count = named.count
    BY <1>2, <2>4 DEF Effects
  <2> HIDE DEF full
  <2>6. r.ret = code /\ ~r.crash /\ r.eft = full
    BY <2>3 DEF Parsed
  <2>. QED
    BY <1>1, <1>3, <2>1, <2>5, <2>6 DEF StoredAll, stored
<1>. QED
  BY <1>4, <1>5

(* Every parser, from a struct that is not valid.                          *)
LEMMA ParserCases ==
    ASSUME NEW cmd \in Commands, NEW eft \in Effects, ~eft.valid
    PROVE  LET r == ParseEffectCmd(cmd, eft)
           IN  \/ LeftAlone(r, eft)
               \/ TookAway(r)
               \/ MetNull(r)
               \/ StoredAll(r, cmd, eft)
<1> DEFINE r == ParseEffectCmd(cmd, eft)
<1>1. LeftAlone(Parsed(-1, eft), eft)
  BY DEF LeftAlone, Parsed
<1>2. MetNull(NullAccess(eft))
  BY DEF MetNull, NullAccess
<1>3. ASSUME NEW code \in {-1, 0}, cmd.name \in Names,
             r = StoreParams(cmd.name, cmd.args, eft, code)
      PROVE  MetNull(r) \/ StoredAll(r, cmd, eft)
  BY <1>3, StoreCases
<1>4. CASE cmd.name = "Normal"
  BY <1>4 DEF ParseEffectCmd, ParseNormalEffect, Parsed, TookAway
<1>5. CASE cmd.name = "Rotate"
  <2>1. \/ r = Parsed(-1, eft)
        \/ r = StoreParams(cmd.name, cmd.args, eft, 0)
    BY <1>5 DEF ParseEffectCmd, ParseRotateEffect
  <2>2. cmd.name \in Names
    BY <1>5 DEF Names
  <2>. QED
    BY <1>1, <1>3, <2>1, <2>2
<1>6. CASE cmd.name = "Scale"
  <2>1. \/ r = Parsed(-1, eft)
        \/ r = StoreParams(cmd.name, cmd.args, eft, 0)
    BY <1>6 DEF ParseEffectCmd, ParseScaleEffect
  <2>2. cmd.name \in Names
    BY <1>6 DEF Names
  <2>. QED
    BY <1>1, <1>3, <2>1, <2>2
<1>7. CASE cmd.name = "Clip"
  <2>1. r = ParseClipEffect(cmd.args, eft)
    BY <1>7 DEF ParseEffectCmd
  <2>2. \/ r = Parsed(-1, eft)
        \/ r = NullAccess(eft)
        \/ r = StoreParams(cmd.name, cmd.args, eft, -1)
    BY <1>7, <2>1 DEF ParseClipEffect
  <2>3. cmd.name \in Names
    BY <1>7 DEF Names
  <2>. QED
    BY <1>1, <1>2, <1>3, <2>2, <2>3
<1>8. CASE cmd.name \notin {"Normal", "Rotate", "Scale", "Clip"}
  BY <1>1, <1>8 DEF ParseEffectCmd
<1>. QED
  BY <1>4, <1>5, <1>6, <1>7, <1>8

-----------------------------------------------------------------------------
(* setEffectCmd, from any struct: `valid` is reset, then the command is    *)
(* parsed.                                                                 *)
LEMMA ReparseCases ==
    ASSUME NEW cmd \in Commands, NEW eft \in Effects
    PROVE  LET r    == Reparse(cmd, eft)
               then == [eft EXCEPT !.valid = FALSE]
           IN  /\ then \in Effects /\ ~then.valid /\ then.params = eft.params
               /\ \/ LeftAlone(r, then)
                  \/ TookAway(r)
                  \/ MetNull(r)
                  \/ StoredAll(r, cmd, then)
<1> DEFINE then == [eft EXCEPT !.valid = FALSE]
<1>1. then \in Effects /\ ~then.valid /\ then.params = eft.params
  BY DEF Effects
<1> HIDE DEF then
<1>2. Reparse(cmd, eft) = ParseEffectCmd(cmd, then)
  BY DEF Reparse, then
<1>3. \/ LeftAlone(ParseEffectCmd(cmd, then), then)
      \/ TookAway(ParseEffectCmd(cmd, then))
      \/ MetNull(ParseEffectCmd(cmd, then))
      \/ StoredAll(ParseEffectCmd(cmd, then), cmd, then)
  BY <1>1, ParserCases
<1>. QED
  BY <1>1, <1>2, <1>3 DEF then

LEMMA BeginningsAreEffects ==
    /\ BlankEffect \in Effects /\ InitEffectCmd \in Effects
    /\ Null \in Params /\ ZeroParams \in Params
<1>1. Null \in Params /\ ZeroParams \in Params
  BY DEF Params, ZeroParams
<1>2. "Normal" \in Names /\ 0 \in 0 .. MaxEffectParamCount
  BY DEF Names, MaxEffectParamCount
<1>. QED
  BY <1>1, <1>2 DEF BlankEffect, InitEffectCmd, Effects

(* TypeOK: whatever commands are set, eftcmd_t keeps the shape of its      *)
(* declaration, with eight ints or NULL, and parseEffectCmd returns 0 or   *)
(* -1.                                                                     *)
THEOREM TypeCorrect == Spec => []TypeOK
<1>1. Init => TypeOK
  <2> SUFFICES ASSUME Init PROVE TypeOK
    OBVIOUS
  <2>1. effect \in Effects
    BY BeginningsAssumption, BeginningsAreEffects DEF Init
  <2>. QED
    BY <2>1 DEF Init, TypeOK
<1>2. TypeOK /\ [Next]_vars => TypeOK'
  <2> SUFFICES ASSUME TypeOK, [Next]_vars PROVE TypeOK'
    OBVIOUS
  <2>1. ASSUME NEW cmd \in Commands, SetEffectCmd(cmd) PROVE TypeOK'
    <3> DEFINE r == Reparse(cmd, effect)
    <3>1. effect \in Effects
      BY DEF TypeOK
    <3>2. r.eft \in Effects /\ r.ret \in {-1, 0}
      <4> DEFINE then == [effect EXCEPT !.valid = FALSE]
      <4>1. then \in Effects
        BY <3>1, ReparseCases
      <4>2. CASE LeftAlone(r, then)
        BY <4>1, <4>2 DEF LeftAlone
      <4>3. CASE TookAway(r)
        BY <4>3, BeginningsAreEffects DEF TookAway, BlankEffect
      <4>4. CASE MetNull(r)
        BY <4>4 DEF MetNull
      <4>5. CASE StoredAll(r, cmd, then)
        BY <4>5 DEF StoredAll
      <4>. QED
        BY <3>1, <4>2, <4>3, <4>4, <4>5, ReparseCases
    <3>3. effect' = r.eft /\ ret' = r.ret /\ last' = cmd
          /\ proc' \in {"running", "crashed"}
      BY <2>1 DEF SetEffectCmd
    <3>. QED
      BY <3>2, <3>3 DEF TypeOK
  <2>2. CASE FreeEffectCmd
    BY <2>2, BeginningsAreEffects DEF FreeEffectCmd, TypeOK
  <2>3. CASE UNCHANGED vars
    BY <2>3 DEF vars, TypeOK
  <2>. QED
    BY <2>1, <2>2, <2>3 DEF Next
<1>. QED
  BY <1>1, <1>2, PTL DEF Spec

(* ValidDecodesLast: a struct that is valid holds the last command, all of *)
(* it and nothing of another, after any sequence of commands; the clip     *)
(* whose "h" is no number is the exception ValidDecodesLast makes.         *)
THEOREM ValidIsAlwaysLast == Spec => []ValidDecodesLast
<1>1. Init => ValidDecodesLast
  BY DEF Init, ValidDecodesLast
<1>2. TypeOK /\ ValidDecodesLast /\ [Next]_vars => ValidDecodesLast'
  <2> SUFFICES ASSUME TypeOK, ValidDecodesLast, [Next]_vars
               PROVE  ValidDecodesLast'
    OBVIOUS
  <2>1. ASSUME NEW cmd \in Commands, SetEffectCmd(cmd) PROVE ValidDecodesLast'
    <3> DEFINE r == Reparse(cmd, effect)
               then == [effect EXCEPT !.valid = FALSE]
    <3>1. effect \in Effects
      BY DEF TypeOK
    <3>2. effect' = r.eft /\ last' = cmd
      BY <2>1 DEF SetEffectCmd
    <3>3. ~then.valid /\ then.params = effect.params
      BY <3>1, ReparseCases
    <3>4. CASE LeftAlone(r, then)
      <4>1. ~effect'.valid
        BY <3>2, <3>3, <3>4 DEF LeftAlone
      <4>. QED
        BY <4>1 DEF ValidDecodesLast
    <3>5. CASE TookAway(r)
      <4>1. ~effect'.valid
        BY <3>2, <3>5 DEF TookAway
      <4>. QED
        BY <4>1 DEF ValidDecodesLast
    <3>6. CASE MetNull(r)
      <4>1. ~effect'.valid
        BY <3>2, <3>6 DEF MetNull
      <4>. QED
        BY <4>1 DEF ValidDecodesLast
    <3>7. CASE StoredAll(r, cmd, then)
      <4>1. /\ effect'.cmd = cmd.name /\ effect'.count = Len(cmd.args)
            /\ effect'.params = Stored(cmd.args, effect.params)
            /\ effect.params \in [1 .. MaxEffectParamCount -> Int]
            /\ Len(cmd.args) \in 0 .. MaxEffectParamCount
        BY <3>2, <3>3, <3>7 DEF StoredAll
      <4>2. effect'.params # Null
        BY <4>1, StoredIsParams, NullAssumption
      <4>3. ASSUME NEW i \in 1 .. Len(cmd.args), IsNumber(cmd.args[i])
            PROVE  effect'.params[i] = cmd.args[i]
        <5>1. i \in 1 .. MaxEffectParamCount /\ i <= Len(cmd.args)
          BY ArgsFit, IndexFits
        <5>2. effect'.params[i] = ValueInt(cmd.args[i])
          BY <4>1, <5>1 DEF Stored
        <5>. QED
          BY <5>2, <4>3, ValueIntIsInt
      <4>. QED
        BY <3>2, <4>1, <4>2, <4>3 DEF ValidDecodesLast
    <3>. QED
      BY <3>1, <3>4, <3>5, <3>6, <3>7, ReparseCases
  <2>2. CASE FreeEffectCmd
    BY <2>2 DEF FreeEffectCmd, BlankEffect, ValidDecodesLast
  <2>3. CASE UNCHANGED vars
    BY <2>3 DEF vars, ValidDecodesLast, IsNumber
  <2>. QED
    BY <2>1, <2>2, <2>3 DEF Next
<1>. QED
  BY <1>1, <1>2, TypeCorrect, PTL DEF Spec

(* RefusedLeavesParams: a command that is refused, at whichever of its     *)
(* keys, has changed none of the stored parameters.                        *)
THEOREM RefusedKeepsParams == Spec => RefusedLeavesParams
<1> DEFINE Keeps == proc' = "running" /\ ret' = -1 /\ ~effect'.valid
                      => effect'.params = effect.params
<1>1. TypeOK /\ [Next]_vars => [Keeps]_vars
  <2> SUFFICES ASSUME TypeOK, [Next]_vars PROVE [Keeps]_vars
    OBVIOUS
  <2>1. ASSUME NEW cmd \in Commands, SetEffectCmd(cmd) PROVE Keeps
    <3> DEFINE r == Reparse(cmd, effect)
               then == [effect EXCEPT !.valid = FALSE]
    <3>1. effect \in Effects
      BY DEF TypeOK
    <3>2. effect' = r.eft /\ ret' = r.ret
          /\ proc' = IF r.crash THEN "crashed" ELSE "running"
      BY <2>1 DEF SetEffectCmd
    <3>3. then.params = effect.params
      BY <3>1, ReparseCases
    <3>4. CASE LeftAlone(r, then)
      BY <3>2, <3>3, <3>4 DEF LeftAlone
    <3>5. CASE TookAway(r)
      BY <3>2, <3>5 DEF TookAway
    <3>6. CASE MetNull(r)
      BY <3>2, <3>6 DEF MetNull
    <3>7. CASE StoredAll(r, cmd, then)
      BY <3>2, <3>7 DEF StoredAll
    <3>. QED
      BY <3>1, <3>4, <3>5, <3>6, <3>7, ReparseCases
  <2>2. CASE FreeEffectCmd
    BY <2>2 DEF FreeEffectCmd
  <2>. QED
    BY <2>1, <2>2 DEF Next
<1>2. Spec => [][Keeps]_vars
  BY <1>1, TypeCorrect, PTL DEF Spec
<1>. QED
  BY <1>2 DEF RefusedLeavesParams
=============================================================================
