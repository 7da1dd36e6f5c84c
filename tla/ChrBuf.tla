------------------------------ MODULE ChrBuf ------------------------------
(***************************************************************************)
(* The character buffer of jni/src/chrbuf.c: a heap block `base`, a field  *)
(* `capability` that is set once by newChrbuf, and a fill mark `used`.     *)
(* Strings are abstracted to their lengths.  The real size of the block    *)
(* (`block`), the place of the first NUL in it (`nul`) and the number of   *)
(* bytes the last strcpy wrote past its end (`overrun`) are not fields of  *)
(* the struct: they are what the C heap knows of it.                       *)
(***************************************************************************)
EXTENDS Integers

CONSTANTS
    Capacities,     \* arguments of newChrbuf (USER_CMD_CAPABILITY in imgsdk.c)
    Lengths,        \* strlen of the strings that are appended
    Reserves,       \* arguments of direct calls of ensureChrbufCap
    MaxUsed         \* bound: appends stop when the text would pass it

ASSUME CapacitiesAssumption == Capacities \subseteq Nat
ASSUME LengthsAssumption == Lengths \subseteq Nat
ASSUME ReservesAssumption == Reserves \subseteq Int
ASSUME MaxUsedAssumption == MaxUsed \in Nat

VARIABLES
    status,         \* "null", "ready", "freed", or "aborted" by assert
    capability,
    used,
    block,
    nul,
    overrun

vars == <<status, capability, used, block, nul, overrun>>

Init ==
    /\ status = "null"
    /\ capability = 0
    /\ used = 0
    /\ block = 0
    /\ nul = 0
    /\ overrun = 0

-----------------------------------------------------------------------------
(* newChrbuf: both callocs may fail, and NULL is returned for cap <= 0.    *)
NewChrbuf(cap) ==
    /\ status \in {"null", "freed"}
    /\ \/ /\ cap > 0
          /\ status' = "ready"
          /\ capability' = cap
          /\ used' = 0
          /\ block' = cap
          /\ nul' = 0
          /\ overrun' = 0
       \/ /\ status' = "null"
          /\ UNCHANGED <<capability, used, block, nul, overrun>>

FreeChrbuf ==
    /\ status = "ready"
    /\ status' = "freed"
    /\ UNCHANGED <<capability, used, block, nul, overrun>>

(* Mutant: realloc (buf->base, cap) forgets what is already used.          *)
EnsuredBlockForgetsUsed(cap) ==
    IF cap > 0 /\ capability - used < cap THEN cap ELSE block

(* What ensureChrbufCap makes of the block when it is asked for `cap` more *)
(* bytes: realloc to used + cap when `capability` leaves less than that.   *)
EnsuredBlock(cap) ==
    IF cap > 0 /\ capability - used < cap THEN used + cap ELSE block

(* realloc fails: assert (NULL != buf->base) stops the process.            *)
ReallocFails(cap) ==
    /\ cap > 0 /\ capability - used < cap
    /\ status' = "aborted"
    /\ UNCHANGED <<capability, used, block, nul, overrun>>

EnsureChrbufCap(cap) ==
    /\ status = "ready"
    /\ \/ /\ block' = EnsuredBlock(cap)
          /\ UNCHANGED <<status, capability, used, nul, overrun>>
       \/ ReallocFails(cap)

(* Mutant: only the part of the string that does not fit is asked for.     *)
AppendDemandMissingPart(len) == len - (capability - used)

(* The room appendChrbuf asks ensureChrbufCap for: capability + len - free *)
(* with free = capability - used.  It is 0, and refused, for an empty      *)
(* string appended to an empty buffer; the return value is not looked at.  *)
AppendDemand(len) == capability + len - (capability - used)

AppendChrbuf(len) ==
    /\ status = "ready"
    /\ used + len <= MaxUsed
    /\ \/ LET room == EnsuredBlock(AppendDemand(len))
              end  == used + len          \* where strcpy puts the NUL
          IN  /\ block' = room
              /\ used' = end
              /\ nul' = end
              /\ overrun' = IF end + 1 > room THEN end + 1 - room ELSE 0
              /\ UNCHANGED <<status, capability>>
       \/ ReallocFails(AppendDemand(len))

(* Mutant: the empty buffer is marked with -1.                             *)
ClearChrbufMinusOne ==
    /\ status = "ready"
    /\ used' = -1
    /\ UNCHANGED <<status, capability, block, nul, overrun>>

(* clearChrbuf moves the fill mark only: the old text stays in the block.  *)
ClearChrbuf ==
    /\ status = "ready"
    /\ used' = 0
    /\ UNCHANGED <<status, capability, block, nul, overrun>>

Next ==
    \/ \E cap \in Capacities : NewChrbuf(cap)
    \/ \E cap \in Reserves : EnsureChrbufCap(cap)
    \/ \E len \in Lengths : AppendChrbuf(len)
    \/ ClearChrbuf
    \/ FreeChrbuf

Spec == Init /\ [][Next]_vars

-----------------------------------------------------------------------------
(* The variables have the types of the C declarations: int fields that     *)
(* never go negative, a block of at least one byte once it exists.         *)
TypeOK ==
    /\ status \in {"null", "ready", "freed", "aborted"}
    /\ capability \in Nat
    /\ used \in Nat
    /\ block \in Nat
    /\ nul \in Nat
    /\ overrun \in Nat

(* `capability` is never updated when the block is reallocated, and a      *)
(* later, smaller demand reallocates the block to a smaller size: through  *)
(* any sequence of calls the block still holds the `capability` bytes that *)
(* the test `capability - used < cap` of ensureChrbufCap believes in.      *)
CapabilityBacked == status = "ready" => block >= capability

(* The room that appendChrbuf computes is for the characters, not for the  *)
(* NUL.  However the calls are mixed, strcpy passes the end of the block   *)
(* by that one byte at most, and only for a string that started at the     *)
(* base and is at least as long as `capability`.                           *)
OverrunIsTheTerminator ==
    overrun > 0 => overrun = 1 /\ nul >= capability /\ used \in {0, nul}

(* ensureChrbufCap keeps its word: when it returns 0 for a demand of cap   *)
(* bytes (chrbuf.c:63-76), that many bytes of the block are free.          *)
EnsureGivesRoom ==
    [][\A cap \in Reserves :
          EnsureChrbufCap(cap) /\ status' = "ready" /\ cap > 0
             => block' - used' >= cap]_vars

(* What chrbuf.h:42 says of appendChrbuf, "Append chars to the char buff": *)
(* the string, with its NUL, is in the buffer.  setEffectCmd compares the  *)
(* result with strcmp, so the NUL has to be inside the block.              *)
TextInBlock == status = "ready" => nul < block /\ overrun = 0
=============================================================================
