--------------------------- MODULE ChrBufProofs ---------------------------
(***************************************************************************)
(* Proofs about ChrBuf, for every set of capabilities, lengths and direct  *)
(* reservations.                                                           *)
(***************************************************************************)
EXTENDS ChrBuf, TLAPS

(* TypeOK: the int fields of chrbuf_t and the block stay natural numbers   *)
(* through every call of chrbuf.c.                                         *)
THEOREM TypeCorrect == Spec => []TypeOK
<1>1. Init => TypeOK
  BY DEF Init, TypeOK
<1>2. TypeOK /\ [Next]_vars => TypeOK'
  <2> SUFFICES ASSUME TypeOK, [Next]_vars PROVE TypeOK'
    OBVIOUS
  <2> USE CapacitiesAssumption, LengthsAssumption, ReservesAssumption DEF TypeOK
  <2>1. ASSUME NEW cap \in Capacities, NewChrbuf(cap) PROVE TypeOK'
    BY <2>1 DEF NewChrbuf
  <2>2. ASSUME NEW cap \in Reserves, EnsureChrbufCap(cap) PROVE TypeOK'
    BY <2>2 DEF EnsureChrbufCap, EnsuredBlock, ReallocFails
  <2>3. ASSUME NEW len \in Lengths, AppendChrbuf(len) PROVE TypeOK'
    BY <2>3 DEF AppendChrbuf, AppendDemand, EnsuredBlock, ReallocFails
  <2>4. CASE ClearChrbuf
    BY <2>4 DEF ClearChrbuf
  <2>5. CASE FreeChrbuf
    BY <2>5 DEF FreeChrbuf
  <2>6. CASE UNCHANGED vars
    BY <2>6 DEF vars
  <2>. QED
    BY <2>1, <2>2, <2>3, <2>4, <2>5, <2>6 DEF Next
<1>. QED
  BY <1>1, <1>2, PTL DEF Spec

-----------------------------------------------------------------------------
(* A positive reallocation is never smaller than what the fields promise.  *)
LEMMA EnsuredBlockBacked ==
    ASSUME TypeOK, block >= capability, NEW cap \in Int
    PROVE  EnsuredBlock(cap) >= capability /\ EnsuredBlock(cap) \in Nat
  BY DEF TypeOK, EnsuredBlock

(* CapabilityBacked: the block holds `capability` bytes after any sequence *)
(* of calls, although realloc may make it smaller than it was.             *)
THEOREM CapabilityAlwaysBacked == Spec => []CapabilityBacked
<1>1. Init => CapabilityBacked
  BY DEF Init, CapabilityBacked
<1>2. TypeOK /\ CapabilityBacked /\ [Next]_vars => CapabilityBacked'
  <2> SUFFICES ASSUME TypeOK, CapabilityBacked, [Next]_vars
               PROVE  CapabilityBacked'
    OBVIOUS
  <2> USE CapacitiesAssumption, LengthsAssumption, ReservesAssumption
      DEF TypeOK, CapabilityBacked
  <2>1. ASSUME NEW cap \in Capacities, NewChrbuf(cap) PROVE CapabilityBacked'
    BY <2>1 DEF NewChrbuf
  <2>2. ASSUME NEW cap \in Reserves, EnsureChrbufCap(cap)
        PROVE  CapabilityBacked'
    BY <2>2, EnsuredBlockBacked DEF EnsureChrbufCap, ReallocFails
  <2>3. ASSUME NEW len \in Lengths, AppendChrbuf(len) PROVE CapabilityBacked'
    <3>1. AppendDemand(len) \in Int
      BY DEF AppendDemand
    <3>. QED
      BY <2>3, <3>1, EnsuredBlockBacked DEF AppendChrbuf, ReallocFails
  <2>4. CASE ClearChrbuf
    BY <2>4 DEF ClearChrbuf
  <2>5. CASE FreeChrbuf
    BY <2>5 DEF FreeChrbuf
  <2>6. CASE UNCHANGED vars
    BY <2>6 DEF vars
  <2>. QED
    BY <2>1, <2>2, <2>3, <2>4, <2>5, <2>6 DEF Next
<1>. QED
  BY <1>1, <1>2, TypeCorrect, PTL DEF Spec

-----------------------------------------------------------------------------
(* OverrunIsTheTerminator: whatever the calls, strcpy passes the end of    *)
(* the block by the NUL alone, and only with a string written at the base. *)
THEOREM OverrunBounded == Spec => []OverrunIsTheTerminator
<1>1. Init => OverrunIsTheTerminator
  BY DEF Init, OverrunIsTheTerminator
<1>2. TypeOK /\ CapabilityBacked /\ OverrunIsTheTerminator /\ [Next]_vars
         => OverrunIsTheTerminator'
  <2> SUFFICES ASSUME TypeOK, CapabilityBacked, OverrunIsTheTerminator,
                      [Next]_vars
               PROVE  OverrunIsTheTerminator'
    OBVIOUS
  <2> USE CapacitiesAssumption, LengthsAssumption, ReservesAssumption
      DEF TypeOK, OverrunIsTheTerminator
  <2>1. ASSUME NEW cap \in Capacities, NewChrbuf(cap)
        PROVE  OverrunIsTheTerminator'
    BY <2>1 DEF NewChrbuf
  <2>2. ASSUME NEW cap \in Reserves, EnsureChrbufCap(cap)
        PROVE  OverrunIsTheTerminator'
    BY <2>2 DEF EnsureChrbufCap, ReallocFails
  <2>3. ASSUME NEW len \in Lengths, AppendChrbuf(len)
        PROVE  OverrunIsTheTerminator'
    BY <2>3 DEF AppendChrbuf, AppendDemand, EnsuredBlock, ReallocFails,
                CapabilityBacked
  <2>4. CASE ClearChrbuf
    BY <2>4 DEF ClearChrbuf
  <2>5. CASE FreeChrbuf
    BY <2>5 DEF FreeChrbuf
  <2>6. CASE UNCHANGED vars
    BY <2>6 DEF vars
  <2>. QED
    BY <2>1, <2>2, <2>3, <2>4, <2>5, <2>6 DEF Next
<1>. QED
  BY <1>1, <1>2, TypeCorrect, CapabilityAlwaysBacked, PTL DEF Spec

-----------------------------------------------------------------------------
(* TextInBlock for the calls setEffectCmd makes: nobody reserves room      *)
(* directly and every command is shorter than the buffer's capability.     *)
(* Then the text and its NUL are in the block, however many commands are   *)
(* appended between two clears.                                            *)
ShortStrings == \A cap \in Capacities, len \in Lengths : len < cap

CapabilityChosen == status = "ready" => capability \in Capacities

THEOREM ShortCommandsFit ==
    ASSUME Reserves = {}, ShortStrings
    PROVE  Spec => []TextInBlock
<1> DEFINE IInv == CapabilityChosen /\ TextInBlock
<1>1. Init => IInv
  BY DEF Init, CapabilityChosen, TextInBlock
<1>2. TypeOK /\ CapabilityBacked /\ IInv /\ [Next]_vars => IInv'
  <2> SUFFICES ASSUME TypeOK, CapabilityBacked, IInv, [Next]_vars
               PROVE  IInv'
    OBVIOUS
  <2> USE CapacitiesAssumption, LengthsAssumption
      DEF TypeOK, CapabilityChosen, TextInBlock
  <2>1. ASSUME NEW cap \in Capacities, NewChrbuf(cap) PROVE IInv'
    BY <2>1 DEF NewChrbuf
  <2>2. ASSUME NEW len \in Lengths, AppendChrbuf(len) PROVE IInv'
    <3>1. CASE ReallocFails(AppendDemand(len))
      BY <3>1 DEF ReallocFails
    <3>2. CASE /\ status = "ready"
               /\ used' = used + len
               /\ block' = EnsuredBlock(AppendDemand(len))
               /\ nul' = used + len
               /\ overrun' = IF used + len + 1 > block'
                             THEN used + len + 1 - block' ELSE 0
               /\ UNCHANGED <<status, capability>>
      <4>1. len < capability
        BY <3>2 DEF ShortStrings
      <4>2. block' \in Nat /\ used + len < block'
        BY <3>2, <4>1 DEF EnsuredBlock, AppendDemand, CapabilityBacked
      <4>. QED
        BY <3>2, <4>2
    <3>. QED
      BY <2>2, <3>1, <3>2 DEF AppendChrbuf
  <2>3. CASE ClearChrbuf
    BY <2>3 DEF ClearChrbuf
  <2>4. CASE FreeChrbuf
    BY <2>4 DEF FreeChrbuf
  <2>5. CASE UNCHANGED vars
    BY <2>5 DEF vars
  <2>. QED
    BY <2>1, <2>2, <2>3, <2>4, <2>5 DEF Next
<1>. QED
  BY <1>1, <1>2, TypeCorrect, CapabilityAlwaysBacked, PTL DEF Spec

-----------------------------------------------------------------------------
(* EnsureGivesRoom: an ensureChrbufCap that returns 0 leaves the room it   *)
(* was asked for, whatever was reserved and appended before it.            *)
THEOREM EnsureIsKept == Spec => EnsureGivesRoom
<1> DEFINE Step == \A cap \in Reserves :
          EnsureChrbufCap(cap) /\ status' = "ready" /\ cap > 0
             => block' - used' >= cap
<1>1. TypeOK /\ CapabilityBacked /\ [Next]_vars => [Step]_vars
  BY ReservesAssumption
     DEF TypeOK, CapabilityBacked, EnsureChrbufCap, EnsuredBlock, ReallocFails
<1>. QED
  BY <1>1, TypeCorrect, CapabilityAlwaysBacked, PTL DEF Spec, EnsureGivesRoom
=============================================================================
