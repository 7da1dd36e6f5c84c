--------------------------- MODULE SdkHeapProofs ---------------------------
(***************************************************************************)
(* Proofs about SdkHeap, for every number of calls, paths and commands.    *)
(*                                                                         *)
(* The lemmas say pointer by pointer what each operator on the memory      *)
(* does; ReleaseFacts adds them up for freeSdkEnv.  HeapInv is the         *)
(* inductive invariant: beside the properties it says what a live instance *)
(* still holds, since what it holds can be lost by the next call.          *)
(***************************************************************************)
EXTENDS SdkHeap, TLAPS

PointerStates == {"null", "held", "stale"}

Holds(m, p) == IF m.at[p] = "held" THEN 1 ELSE 0

LEMMA MemoryParts ==
    ASSUME NEW m \in Memories
    PROVE  /\ m.at \in [Pointers -> PointerStates]
           /\ m.lost \in [Kinds -> Nat]
           /\ m.twice \in BOOLEAN
BY DEF Memories, PointerStates

LEMMA PointersAreKinds == \A p \in Pointers : p \in Kinds
BY DEF Kinds

LEMMA LoseIfHeldFacts ==
    ASSUME NEW m \in Memories, NEW p \in Pointers
    PROVE  LoseIfHeld(m, p) \in Nat /\ LoseIfHeld(m, p) = m.lost[p] + Holds(m, p)
BY MemoryParts, PointersAreKinds DEF LoseIfHeld, Holds

(* A pointer set to `to`, the block it held lost.                          *)
Overwritten(m, n, p, to) ==
    /\ n \in Memories
    /\ n.twice = m.twice
    /\ n.at[p] = to
    /\ \A q \in Pointers \ {p} : n.at[q] = m.at[q]
    /\ n.lost[p] = m.lost[p] + Holds(m, p)
    /\ \A k \in Kinds \ {p} : n.lost[k] = m.lost[k]

LEMMA OverwriteFacts ==
    ASSUME NEW m \in Memories, NEW p \in Pointers, NEW to \in PointerStates
    PROVE  Overwritten(m, [m EXCEPT !.lost[p] = LoseIfHeld(m, p), !.at[p] = to], p, to)
<1> DEFINE loss == LoseIfHeld(m, p)
           n == [m EXCEPT !.lost[p] = loss, !.at[p] = to]
<1>1. loss \in Nat /\ loss = m.lost[p] + Holds(m, p)
  BY LoseIfHeldFacts
<1> HIDE DEF loss
<1>2. /\ n.at = [m.at EXCEPT ![p] = to]
      /\ n.lost = [m.lost EXCEPT ![p] = loss]
      /\ n.twice = m.twice
  BY DEF Memories
<1>3. n.at \in [Pointers -> PointerStates] /\ n.lost \in [Kinds -> Nat]
  BY <1>1, <1>2, MemoryParts, PointersAreKinds
<1>4. n \in Memories
  BY <1>3, MemoryParts DEF Memories, PointerStates
<1>5. n.at[p] = to /\ \A q \in Pointers \ {p} : n.at[q] = m.at[q]
  BY <1>2, MemoryParts
<1>6. n.lost[p] = loss /\ \A k \in Kinds \ {p} : n.lost[k] = m.lost[k]
  BY <1>2, MemoryParts, PointersAreKinds
<1>. QED
  BY <1>1, <1>2, <1>4, <1>5, <1>6 DEF Overwritten, loss

LEMMA GiveFacts ==
    ASSUME NEW m \in Memories, NEW p \in Pointers
    PROVE  Overwritten(m, Give(m, p), p, "held")
BY OverwriteFacts DEF Give, PointerStates

LEMMA DropFacts ==
    ASSUME NEW m \in Memories, NEW p \in Pointers
    PROVE  Overwritten(m, Drop(m, p), p, "null")
BY OverwriteFacts DEF Drop, PointerStates

(* A pointer that is not stale freed: nothing is lost or freed twice.      *)
Freed(m, n, p, to) ==
    /\ n \in Memories
    /\ n.twice = m.twice
    /\ n.at[p] = to
    /\ \A q \in Pointers \ {p} : n.at[q] = m.at[q]
    /\ \A k \in Kinds : n.lost[k] = m.lost[k]

LEMMA FreeFacts ==
    ASSUME NEW m \in Memories, NEW p \in Pointers, m.at[p] # "stale"
    PROVE  Freed(m, Free(m, p), p, IF m.at[p] = "held" THEN "stale" ELSE "null")
<1> DEFINE n == Free(m, p)
           to == IF m.at[p] = "held" THEN "stale" ELSE m.at[p]
<1>1. to \in PointerStates /\ to = IF m.at[p] = "held" THEN "stale" ELSE "null"
  BY MemoryParts DEF PointerStates
<1>2. n.at = [m.at EXCEPT ![p] = to] /\ n.lost = m.lost /\ n.twice = m.twice
  BY MemoryParts DEF Free, Memories
<1> HIDE DEF to
<1>3. n.at \in [Pointers -> PointerStates]
  BY <1>1, <1>2, MemoryParts
<1>4. n = [m EXCEPT !.at[p] = to, !.twice = @ \/ m.at[p] = "stale"]
  BY DEF Free, to
<1>5. n \in Memories
  BY <1>1, <1>2, <1>3, <1>4, MemoryParts DEF Memories, PointerStates
<1>6. n.at[p] = to /\ \A q \in Pointers \ {p} : n.at[q] = m.at[q]
  BY <1>2, MemoryParts
<1>. QED
  BY <1>1, <1>2, <1>5, <1>6 DEF Freed

LEMMA FreeAndClearFacts ==
    ASSUME NEW m \in Memories, NEW p \in Pointers, m.at[p] # "stale"
    PROVE  Freed(m, FreeAndClear(m, p), p, "null")
<1> DEFINE f == Free(m, p)
           n == [f EXCEPT !.at[p] = "null"]
<1>1. Freed(m, f, p, IF m.at[p] = "held" THEN "stale" ELSE "null")
  BY FreeFacts
<1>2. f \in Memories
  BY <1>1 DEF Freed
<1> HIDE DEF f
<1>3. n.at = [f.at EXCEPT ![p] = "null"] /\ n.lost = f.lost /\ n.twice = f.twice
  BY <1>2 DEF Memories
<1>4. n \in Memories
  BY <1>2 DEF Memories
<1>5. n.at[p] = "null" /\ \A q \in Pointers \ {p} : n.at[q] = f.at[q]
  BY <1>2, <1>3, MemoryParts
<1>6. FreeAndClear(m, p) = n
  BY DEF FreeAndClear, f
<1>. QED
  BY <1>1, <1>3, <1>4, <1>5, <1>6 DEF Freed

LEMMA LoseFileFacts ==
    ASSUME NEW m \in Memories, NEW k \in Kinds
    PROVE  LET n == LoseOne(m, k)
           IN  /\ n \in Memories
               /\ n.twice = m.twice /\ n.at = m.at
               /\ \A j \in Kinds \ {k} : n.lost[j] = m.lost[j]
<1> DEFINE n == LoseOne(m, k)
<1>1. n.at = m.at /\ n.twice = m.twice /\ n.lost = [m.lost EXCEPT ![k] = @ + 1]
  BY DEF LoseOne, Memories
<1>2. n \in Memories
  BY MemoryParts DEF LoseOne, Memories
<1>. QED
  BY <1>1, <1>2, MemoryParts

-----------------------------------------------------------------------------
(* freeSdkEnv.  The shader sources it is given may be stale, when          *)
(* newDefaultSdkEnv has freed them; it never looks at them.                *)
Sources == {"vert", "frag"}

Sound(m) ==
    /\ m \in Memories /\ ~m.twice
    /\ \A p \in Pointers \ Sources : m.at[p] # "stale"
    /\ m.at["bitmap"] = "held" <=> m.at["pixels"] = "held"

Active == {"none", "path", "param"}

(* What the active source costs: its Bitmap_t.                             *)
LEMMA FreeSourceFacts ==
    ASSUME NEW m, Sound(m), env.active \in Active
    PROVE  LET n == FreeSource(m)
           IN  /\ Sound(n)
               /\ \A p \in Pointers \ {"input", "bitmap", "pixels"} : n.at[p] = m.at[p]
               /\ \A k \in Kinds \ {"bitmap"} : n.lost[k] = m.lost[k]
               /\ n.lost["bitmap"] + Holds(n, "bitmap") = m.lost["bitmap"] + Holds(m, "bitmap")
               /\ Holds(n, "pixels") = IF env.active = "param" THEN 0 ELSE Holds(m, "pixels")
<1> DEFINE n == FreeSource(m)
<1> USE DEF Sound
<1>0. /\ m \in Memories
      /\ {"input", "bitmap", "pixels"} \subseteq Pointers \ Sources
      /\ {"bitmap", "pixels"} \subseteq Kinds
  BY DEF Pointers, Sources, Kinds
<1>1. CASE env.active = "path"
  <2>1. n = FreeAndClear(m, "input")
    BY <1>1 DEF FreeSource
  <2>2. Freed(m, n, "input", "null")
    BY <1>0, <2>1, FreeAndClearFacts
  <2>. QED
    BY <1>0, <1>1, <2>2 DEF Freed, Holds
<1>2. CASE env.active = "param" /\ m.at["bitmap"] = "null"
  <2>1. n = m
    BY <1>2 DEF FreeSource, FreeBitmap
  <2>. QED
    BY <1>0, <1>2, <2>1 DEF Holds
<1>3. CASE env.active = "param" /\ m.at["bitmap"] # "null"
  <2> DEFINE a == FreeAndClear(m, "pixels")
  <2>1. n = Drop(a, "bitmap")
    BY <1>3 DEF FreeSource, FreeBitmap
  <2>2. Freed(m, a, "pixels", "null")
    BY <1>0, FreeAndClearFacts
  <2> HIDE DEF a
  <2>3. Overwritten(a, n, "bitmap", "null")
    BY <1>0, <2>1, <2>2, DropFacts DEF Freed
  <2>4. a.lost["bitmap"] = m.lost["bitmap"] /\ a.at["bitmap"] = m.at["bitmap"]
    BY <1>0, <2>2 DEF Freed
  <2>5. /\ n \in Memories /\ ~n.twice
        /\ n.at["pixels"] = "null" /\ n.at["bitmap"] = "null"
        /\ \A p \in Pointers \ {"bitmap", "pixels"} : n.at[p] = m.at[p]
        /\ \A k \in Kinds \ {"bitmap"} : n.lost[k] = m.lost[k]
        /\ n.lost["bitmap"] = m.lost["bitmap"] + Holds(m, "bitmap")
    BY <1>0, <2>2, <2>3, <2>4 DEF Freed, Overwritten, Holds
  <2>6. n.lost["bitmap"] \in Nat /\ m.lost["bitmap"] \in Nat
    BY <1>0, <2>5, MemoryParts
  <2>7. Holds(n, "bitmap") = 0 /\ Holds(n, "pixels") = 0 /\ Holds(m, "bitmap") \in Nat
    BY <2>5 DEF Holds
  <2>8. Sound(n)
    BY <2>5
  <2>. QED
    BY <1>3, <2>5, <2>6, <2>7, <2>8
<1>4. CASE env.active = "none"
  <2>1. n = m
    BY <1>4 DEF FreeSource
  <2>. QED
    BY <1>0, <1>4, <2>1
<1>. QED
  BY <1>1, <1>2, <1>3, <1>4 DEF Active

Rest == {"buffer", "input", "output", "params"}

LEMMA FreeRestFacts ==
    ASSUME NEW m, Sound(m)
    PROVE  LET n == FreeRest(m)
           IN  /\ n \in Memories /\ ~n.twice
               /\ \A p \in Rest : n.at[p] = "null"
               /\ \A p \in Pointers \ Rest : n.at[p] = m.at[p]
               /\ \A k \in Kinds : n.lost[k] = m.lost[k]
<1> DEFINE a == FreeAndClear(m, "buffer")
           b == FreeAndClear(a, "input")
           c == FreeAndClear(b, "output")
           n == FreeAndClear(c, "params")
<1>0. m \in Memories /\ ~m.twice /\ Rest \subseteq Pointers
      /\ \A p \in Rest : m.at[p] # "stale"
  BY DEF Sound, Rest, Pointers, Sources
<1>1. Freed(m, a, "buffer", "null")
  BY <1>0, FreeAndClearFacts DEF Rest
<1> HIDE DEF a
<1>2. a \in Memories /\ a.at["input"] # "stale"
  BY <1>0, <1>1 DEF Freed, Rest
<1>3. Freed(a, b, "input", "null")
  BY <1>0, <1>2, FreeAndClearFacts DEF Rest
<1> HIDE DEF b
<1>4. b \in Memories /\ b.at["output"] # "stale"
  BY <1>0, <1>1, <1>3 DEF Freed, Rest
<1>5. Freed(b, c, "output", "null")
  BY <1>0, <1>4, FreeAndClearFacts DEF Rest
<1> HIDE DEF c
<1>6. c \in Memories /\ c.at["params"] # "stale"
  BY <1>0, <1>1, <1>3, <1>5 DEF Freed, Rest
<1>7. Freed(c, n, "params", "null")
  BY <1>0, <1>6, FreeAndClearFacts DEF Rest
<1>8. FreeRest(m) = n
  BY DEF FreeRest, a, b, c
<1> HIDE DEF n
<1>9. n \in Memories /\ ~n.twice
  BY <1>0, <1>1, <1>3, <1>5, <1>7 DEF Freed
<1>10. \A p \in Rest : n.at[p] = "null"
  BY <1>0, <1>1, <1>3, <1>5, <1>7 DEF Freed, Rest
<1>11. \A p \in Pointers \ Rest : n.at[p] = m.at[p]
  BY <1>0, <1>1, <1>3, <1>5, <1>7 DEF Freed, Rest
<1>12. \A k \in Kinds : n.lost[k] = m.lost[k]
  BY <1>1, <1>3, <1>5, <1>7 DEF Freed
<1>. QED
  BY <1>8, <1>9, <1>10, <1>11, <1>12

LEMMA FreeInstanceFacts ==
    ASSUME NEW m \in Memories
    PROVE  LET n == FreeInstance(m)
           IN  /\ n \in Memories /\ n.twice = m.twice
               /\ \A p \in Pointers : n.at[p] = "null"
               /\ \A p \in Pointers : n.lost[p] = m.lost[p] + Holds(m, p)
<1> DEFINE left == [k \in Kinds |-> IF k \in Pointers THEN LoseIfHeld(m, k) ELSE m.lost[k]]
           gone == [p \in Pointers |-> "null"]
           n == FreeInstance(m)
<1>1. left \in [Kinds -> Nat]
  BY LoseIfHeldFacts, MemoryParts
<1>2. \A p \in Pointers : left[p] = m.lost[p] + Holds(m, p)
  BY LoseIfHeldFacts, PointersAreKinds
<1>3. n = [m EXCEPT !.lost = left, !.at = gone]
  BY DEF FreeInstance
<1>4. gone \in [Pointers -> {"null", "held", "stale"}] /\ \A p \in Pointers : gone[p] = "null"
  OBVIOUS
<1> HIDE DEF left, gone, n
<1>5. n.lost = left /\ n.at = gone /\ n.twice = m.twice
  BY <1>3 DEF Memories
<1>6. n \in Memories
  BY <1>1, <1>3, <1>4 DEF Memories
<1>. QED
  BY <1>2, <1>4, <1>5, <1>6 DEF n

(* What freeSdkEnv loses: the shader sources, the Bitmap_t, and the pixels *)
(* unless they are the active source.                                      *)
LEMMA ReleaseFacts ==
    ASSUME NEW m, Sound(m), env.active \in Active
    PROVE  LET n == Release(m)
           IN  /\ n \in Memories /\ ~n.twice
               /\ \A p \in Pointers : n.at[p] = "null"
               /\ \A p \in Rest : n.lost[p] = m.lost[p]
               /\ \A p \in Sources \cup {"bitmap"} : n.lost[p] = m.lost[p] + Holds(m, p)
               /\ n.lost["pixels"] = m.lost["pixels"]
                     + IF env.active = "param" THEN 0 ELSE Holds(m, "pixels")
<1> DEFINE a == FreeSource(m)
           b == FreeRest(a)
           n == FreeInstance(b)
<1>0. /\ Rest \subseteq Pointers /\ Sources \subseteq Pointers
      /\ {"bitmap", "pixels"} \subseteq Pointers
      /\ Rest \cap (Sources \cup {"bitmap", "pixels"}) = {}
      /\ Sources \cap {"input", "bitmap", "pixels"} = {}
      /\ Pointers \subseteq Kinds /\ m \in Memories
  BY DEF Rest, Sources, Pointers, Kinds, Sound
<1>1. /\ Sound(a)
      /\ \A p \in Pointers \ {"input", "bitmap", "pixels"} : a.at[p] = m.at[p]
      /\ \A k \in Kinds \ {"bitmap"} : a.lost[k] = m.lost[k]
      /\ a.lost["bitmap"] + Holds(a, "bitmap") = m.lost["bitmap"] + Holds(m, "bitmap")
      /\ Holds(a, "pixels") = IF env.active = "param" THEN 0 ELSE Holds(m, "pixels")
  BY FreeSourceFacts
<1> HIDE DEF a
<1>2. /\ b \in Memories /\ ~b.twice
      /\ \A p \in Rest : b.at[p] = "null"
      /\ \A p \in Pointers \ Rest : b.at[p] = a.at[p]
      /\ \A k \in Kinds : b.lost[k] = a.lost[k]
  BY <1>1, FreeRestFacts
<1> HIDE DEF b
<1>3. /\ n \in Memories /\ n.twice = b.twice
      /\ \A p \in Pointers : n.at[p] = "null"
      /\ \A p \in Pointers : n.lost[p] = b.lost[p] + Holds(b, p)
  BY <1>2, FreeInstanceFacts
<1>4. Release(m) = n
  BY DEF Release, a, b
<1> HIDE DEF n
<1>5. \A p \in Rest : n.lost[p] = m.lost[p]
  <2> SUFFICES ASSUME NEW p \in Rest PROVE n.lost[p] = m.lost[p]
    OBVIOUS
  <2>1. b.lost[p] = m.lost[p] /\ m.lost[p] \in Nat /\ Holds(b, p) = 0
    BY <1>0, <1>1, <1>2, MemoryParts DEF Holds
  <2>. QED
    BY <1>0, <1>3, <2>1
<1>6. \A p \in Sources : n.lost[p] = m.lost[p] + Holds(m, p)
  BY <1>0, <1>1, <1>2, <1>3 DEF Holds
<1>7. n.lost["bitmap"] = m.lost["bitmap"] + Holds(m, "bitmap")
  BY <1>0, <1>1, <1>2, <1>3 DEF Holds
<1>8. n.lost["pixels"] = m.lost["pixels"]
        + IF env.active = "param" THEN 0 ELSE Holds(m, "pixels")
  <2>1. b.at["pixels"] = a.at["pixels"] /\ b.lost["pixels"] = m.lost["pixels"]
    BY <1>0, <1>1, <1>2
  <2>2. Holds(b, "pixels") = Holds(a, "pixels")
    BY <2>1 DEF Holds
  <2>. QED
    BY <1>0, <1>1, <1>3, <2>1, <2>2
<1>. QED
  BY <1>2, <1>3, <1>4, <1>5, <1>6, <1>7, <1>8

-----------------------------------------------------------------------------
(* The inductive invariant.  What is lost is bounded together with what is *)
(* still held: the next path or initialisation may lose the latter.        *)
Cost(p) == mem.lost[p] + Holds(mem, p)

Allowed == IF env.type = "on" THEN calls.init ELSE Constructions

PixelsBounded ==
    /\ env.active = "none" => Cost("pixels") = 0
    /\ env.active = "path" => Cost("pixels") < calls.path
    /\ env.active = "param" => mem.lost["pixels"] < calls.path

RestBounded ==
    /\ mem.lost["input"] = 0 /\ mem.lost["output"] = 0
    /\ mem.lost["buffer"] < Constructions
    /\ \A p \in {"buffer", "params", "vert", "frag"} : Cost(p) <= Allowed

LiveInv == Live => Sound(mem) /\ PixelsBounded /\ RestBounded

StartInv ==
    env.life = "none" =>
        /\ env.active = "none" /\ env.type = "on" /\ calls = NoCall
        /\ mem = [at |-> [p \in Pointers |-> "null"],
                  lost |-> [k \in Kinds |-> 0], twice |-> FALSE]

HeapInv ==
    /\ HeapTypeOK /\ FreedOnce /\ SurvivorsKnown /\ PixelsLostPerPath
    /\ StartInv /\ LiveInv

LEMMA CallsAreNat ==
    ASSUME HeapTypeOK
    PROVE  /\ calls.init \in Nat /\ calls.path \in Nat
           /\ calls.output \in Nat /\ calls.effect \in Nat
           /\ Constructions \in Nat /\ Constructions >= 1 /\ calls.init <= Constructions
BY BoundsAssumption DEF HeapTypeOK, Constructions

LEMMA TypeParts ==
    ASSUME HeapTypeOK
    PROVE  /\ mem \in Memories /\ env.active \in Active /\ env.type \in {"on", "off"}
           /\ \A k \in Kinds : mem.lost[k] \in Nat
           /\ \A p \in Pointers : Holds(mem, p) \in Nat /\ Cost(p) \in Nat
BY MemoryParts, PointersAreKinds DEF HeapTypeOK, Instances, Active, Holds, Cost

LEMMA Initially == Init => HeapInv
<1> SUFFICES ASSUME Init PROVE HeapInv
  OBVIOUS
<1>1. env \in Instances
  BY DEF Init, Instances
<1>2. mem \in Memories
  BY DEF Init, Memories
<1>3. HeapTypeOK
  BY <1>1, <1>2, BoundsAssumption DEF Init, HeapTypeOK, NoCall
<1>4. FreedOnce /\ SurvivorsKnown /\ LiveInv
  BY DEF Init, FreedOnce, SurvivorsKnown, Gone, LiveInv, Live
<1>5. PixelsLostPerPath
  BY DEF Init, NoCall, PixelsLostPerPath, Kinds, Pointers
<1>6. StartInv
  BY DEF Init, StartInv
<1>. QED
  BY <1>3, <1>4, <1>5, <1>6 DEF HeapInv

(* While the instance is live, LiveInv is all there is to show.            *)
LEMMA LiveIsEnough ==
    ASSUME HeapTypeOK', env'.life = "live",
           Sound(mem)', PixelsBounded', RestBounded'
    PROVE  HeapInv'
<1>1. FreedOnce' /\ SurvivorsKnown' /\ StartInv' /\ LiveInv'
  BY DEF FreedOnce, SurvivorsKnown, Gone, StartInv, LiveInv, Live, Sound
<1>2. PixelsLostPerPath'
  <2>1. mem'.lost["pixels"] \in Nat /\ Holds(mem, "pixels")' \in Nat
    BY MemoryParts, PointersAreKinds DEF HeapTypeOK, Holds, Pointers, Kinds, Memories
  <2>2. env'.active \in {"none", "path", "param"}
    BY DEF HeapTypeOK, Instances
  <2>3. calls'.path \in Nat
    BY BoundsAssumption DEF HeapTypeOK
  <2>4. CASE env'.active = "none"
    BY <2>1, <2>3, <2>4 DEF PixelsBounded, Cost, PixelsLostPerPath
  <2>5. CASE env'.active = "path"
    BY <2>1, <2>3, <2>5 DEF PixelsBounded, Cost, PixelsLostPerPath
  <2>6. CASE env'.active = "param"
    BY <2>1, <2>3, <2>6 DEF PixelsBounded, Cost, PixelsLostPerPath
  <2>. QED
    BY <2>2, <2>4, <2>5, <2>6
<1>. QED
  BY <1>1, <1>2 DEF HeapInv

(* A live instance that is gone: what Release lost was bounded before.     *)
LEMMA GoneIsBounded ==
    ASSUME HeapInv, Live, HeapTypeOK', env'.life \in {"freed", "dangling"},
           mem' = Release(mem), calls'.path = calls.path,
           calls'.init \in {calls.init, calls.init + 1}
    PROVE  HeapInv'
<1>1. Sound(mem) /\ PixelsBounded /\ RestBounded
  BY DEF HeapInv, LiveInv
<1>2. HeapTypeOK /\ env.active \in Active
  BY TypeParts DEF HeapInv
<1>3. /\ ~mem'.twice
      /\ \A p \in Rest : mem'.lost[p] = mem.lost[p]
      /\ \A p \in Sources : mem'.lost[p] = mem.lost[p] + Holds(mem, p)
      /\ mem'.lost["pixels"] = mem.lost["pixels"]
            + IF env.active = "param" THEN 0 ELSE Holds(mem, "pixels")
  BY <1>1, <1>2, ReleaseFacts
<1>4. Constructions' >= Constructions /\ Constructions' \in Nat /\ Constructions \in Nat
      /\ Allowed <= Constructions /\ Allowed \in Nat
  BY <1>2, CallsAreNat, TypeParts DEF Constructions, Allowed
<1>5. FreedOnce' /\ StartInv' /\ LiveInv'
  BY <1>3 DEF FreedOnce, StartInv, LiveInv, Live
<1>6. mem.lost["pixels"] \in Nat /\ Holds(mem, "pixels") \in Nat /\ calls.path \in Nat
  BY <1>2, TypeParts, CallsAreNat DEF Pointers, Kinds
<1>7. PixelsLostPerPath'
  BY <1>1, <1>2, <1>3, <1>6 DEF PixelsBounded, Cost, PixelsLostPerPath, Active
<1>8. SurvivorsKnown'
  <2>1. mem'.lost["input"] = 0 /\ mem'.lost["output"] = 0
    BY <1>1, <1>3 DEF RestBounded, Rest
  <2>2. mem'.lost["buffer"] < Constructions'
    <3>1. mem'.lost["buffer"] = mem.lost["buffer"] /\ mem.lost["buffer"] \in Nat
      BY <1>2, <1>3, TypeParts DEF Rest, Kinds, Pointers
    <3>. QED
      BY <1>1, <1>4, <3>1 DEF RestBounded
  <2>3. mem'.lost["params"] <= Constructions'
    <3>1. mem'.lost["params"] = mem.lost["params"] /\ mem.lost["params"] \in Nat
          /\ Holds(mem, "params") \in Nat
      BY <1>2, <1>3, TypeParts DEF Rest, Kinds, Pointers
    <3>. QED
      BY <1>1, <1>4, <3>1 DEF RestBounded, Cost
  <2>4. ASSUME NEW p \in Sources PROVE mem'.lost[p] <= Constructions'
    <3>1. mem'.lost[p] = Cost(p) /\ Cost(p) \in Nat /\ Cost(p) <= Allowed
      BY <1>1, <1>2, <1>3, TypeParts DEF RestBounded, Sources, Cost, Pointers
    <3>. QED
      BY <1>4, <3>1
  <2>. QED
    BY <2>1, <2>2, <2>3, <2>4 DEF SurvivorsKnown, Sources
<1>. QED
  BY <1>5, <1>7, <1>8 DEF HeapInv

-----------------------------------------------------------------------------
(* One lemma for each action.                                              *)
LEMMA NewBlankStep ==
    ASSUME HeapInv, NewBlankSdkEnv PROVE HeapInv'
<1>1. /\ mem' = mem /\ calls' = calls /\ env'.life = "live"
      /\ env'.active = env.active /\ env'.type = env.type
      /\ env' \in Instances
  BY DEF HeapInv, HeapTypeOK, NewBlankSdkEnv, Instances
<1>2. /\ env.active = "none" /\ env.type = "on" /\ calls = NoCall
      /\ ~mem.twice
      /\ \A p \in Pointers : mem.at[p] = "null"
      /\ \A p \in Pointers : mem.lost[p] = 0
  BY PointersAreKinds DEF HeapInv, StartInv, NewBlankSdkEnv
<1>3. HeapTypeOK'
  BY <1>1 DEF HeapInv, HeapTypeOK
<1>4. mem' \in Memories
  BY <1>3 DEF HeapTypeOK
<1>5. \A p \in Pointers : mem'.at[p] = "null" /\ mem'.lost[p] = 0
  BY <1>1, <1>2
<1>6. Sound(mem)'
  BY <1>1, <1>2, <1>4, <1>5 DEF Sound, Pointers
<1>7. \A p \in Pointers : Cost(p)' = 0
  BY <1>5 DEF Cost, Holds
<1>8. PixelsBounded'
  BY <1>1, <1>2, <1>7 DEF PixelsBounded, Pointers
<1>9. calls'.init = 0 /\ Constructions' = 1 /\ Allowed' = 0
  BY <1>1, <1>2 DEF NoCall, Constructions, Allowed
<1>10. RestBounded'
  BY <1>5, <1>7, <1>9 DEF RestBounded, Pointers
<1>. QED
  BY <1>1, <1>3, <1>6, <1>8, <1>10, LiveIsEnough

(* The memory of a construction under way: nothing is lost, and only the   *)
(* text and the shader sources are allocated.                              *)
Fresh(m) ==
    /\ m \in Memories /\ ~m.twice
    /\ \A p \in Pointers : m.lost[p] = 0
    /\ \A p \in Pointers \ {"buffer", "vert", "frag"} : m.at[p] = "null"
    /\ m.at["buffer"] # "stale"

LEMMA FreshGive ==
    ASSUME NEW m, Fresh(m), NEW p \in {"buffer", "vert", "frag"}, m.at[p] = "null"
    PROVE  LET n == Give(m, p)
           IN  /\ Fresh(n) /\ n.at[p] = "held"
               /\ \A q \in Pointers \ {p} : n.at[q] = m.at[q]
<1> DEFINE n == Give(m, p)
<1>1. p \in Pointers /\ m \in Memories
  BY DEF Pointers, Fresh
<1>2. Overwritten(m, n, p, "held")
  BY <1>1, GiveFacts
<1>3. Holds(m, p) = 0
  BY DEF Holds
<1> HIDE DEF n
<1>4. \A q \in Pointers : n.lost[q] = 0
  <2>1. n.lost[p] = 0
    BY <1>1, <1>2, <1>3 DEF Overwritten, Fresh
  <2>2. \A q \in Pointers \ {p} : n.lost[q] = 0
    BY <1>2, PointersAreKinds DEF Overwritten, Fresh
  <2>. QED
    BY <2>1, <2>2
<1>5. \A q \in Pointers \ {p} : n.at[q] = m.at[q]
  BY <1>2 DEF Overwritten
<1>6. n.at[p] = "held" /\ n \in Memories /\ ~n.twice
  BY <1>2 DEF Overwritten, Fresh
<1>7. \A q \in Pointers \ {"buffer", "vert", "frag"} : n.at[q] = "null"
  BY <1>5 DEF Fresh
<1>8. n.at["buffer"] # "stale"
  BY <1>5, <1>6 DEF Fresh, Pointers
<1>. QED
  BY <1>4, <1>5, <1>6, <1>7, <1>8 DEF Fresh, n

LEMMA FreshFile ==
    ASSUME NEW m, Fresh(m)
    PROVE  Fresh(LoseOne(m, "file")) /\ LoseOne(m, "file").at = m.at
<1> DEFINE n == LoseOne(m, "file")
<1>1. /\ n \in Memories /\ n.twice = m.twice /\ n.at = m.at
      /\ \A j \in Kinds \ {"file"} : n.lost[j] = m.lost[j]
  BY LoseFileFacts DEF Fresh, Kinds
<1>2. Pointers \subseteq Kinds \ {"file"}
  BY DEF Pointers, Kinds
<1> HIDE DEF n
<1>. QED
  BY <1>1, <1>2 DEF Fresh, n

LEMMA FreshFree ==
    ASSUME NEW m, Fresh(m), NEW p \in Sources, m.at[p] = "held"
    PROVE  LET n == Free(m, p)
           IN  /\ Fresh(n) /\ n.at[p] = "stale"
               /\ \A q \in Pointers \ {p} : n.at[q] = m.at[q]
<1> DEFINE n == Free(m, p)
<1>1. p \in Pointers /\ p # "buffer" /\ p \in {"buffer", "vert", "frag"} /\ m \in Memories
  BY DEF Pointers, Sources, Fresh
<1>2. Freed(m, n, p, "stale")
  BY <1>1, FreeFacts
<1> HIDE DEF n
<1>3. n.at["buffer"] # "stale"
  BY <1>1, <1>2 DEF Freed, Fresh, Pointers
<1>4. \A q \in Pointers : n.lost[q] = 0
  BY <1>2, PointersAreKinds DEF Freed, Fresh
<1>5. \A q \in Pointers \ {"buffer", "vert", "frag"} : n.at[q] = "null"
  BY <1>1, <1>2 DEF Freed, Fresh
<1>. QED
  BY <1>2, <1>3, <1>4, <1>5 DEF Freed, Fresh, n

(* A construction that has freed its sources loses nothing in freeSdkEnv.  *)
LEMMA FreshRelease ==
    ASSUME NEW m, Fresh(m), m.at["vert"] # "held", m.at["frag"] # "held",
           env.active \in Active
    PROVE  LET n == Release(m)
           IN  n \in Memories /\ ~n.twice /\ \A p \in Pointers : n.lost[p] = 0
<1> DEFINE n == Release(m)
<1>1. Sound(m)
  BY DEF Sound, Fresh, Pointers, Sources
<1>2. /\ n \in Memories /\ ~n.twice
      /\ \A p \in Rest : n.lost[p] = m.lost[p]
      /\ \A p \in Sources \cup {"bitmap"} : n.lost[p] = m.lost[p] + Holds(m, p)
      /\ n.lost["pixels"] = m.lost["pixels"]
            + IF env.active = "param" THEN 0 ELSE Holds(m, "pixels")
  BY <1>1, ReleaseFacts
<1> HIDE DEF n
<1>3. /\ \A p \in Sources \cup {"bitmap", "pixels"} : Holds(m, p) = 0
      /\ \A p \in Pointers : m.lost[p] = 0
  BY DEF Fresh, Holds, Sources, Pointers
<1>4. Pointers = Rest \cup Sources \cup {"bitmap", "pixels"}
  BY DEF Pointers, Rest, Sources
<1>5. \A p \in Rest : n.lost[p] = 0
  BY <1>2, <1>3, <1>4
<1>6. \A p \in Sources \cup {"bitmap"} : n.lost[p] = 0
  BY <1>2, <1>3, <1>4
<1>7. n.lost["pixels"] = 0
  BY <1>2, <1>3, <1>4
<1>. QED
  BY <1>2, <1>4, <1>5, <1>6, <1>7 DEF n

LEMMA NewDefaultStep ==
    ASSUME HeapInv, NewDefaultSdkEnv PROVE HeapInv'
<1> DEFINE b  == Give(mem, "buffer")
           b2 == LoseOne(b, "file")
           v  == Give(b2, "vert")
           v2 == LoseOne(v, "file")
           f  == Give(v2, "frag")
           x1 == Free(v, "vert")
           x2 == Free(v2, "vert")
           y  == Free(f, "vert")
           x3 == Free(y, "frag")
<1>1. /\ env.active = "none" /\ env.type = "on" /\ calls = NoCall
      /\ mem \in Memories /\ ~mem.twice
      /\ \A p \in Pointers : mem.at[p] = "null" /\ mem.lost[p] = 0
  BY PointersAreKinds DEF HeapInv, HeapTypeOK, StartInv, NewDefaultSdkEnv
<1>2. Fresh(mem)
  BY <1>1 DEF Fresh, Pointers
<1>3. mem.at["buffer"] = "null" /\ mem.at["vert"] = "null" /\ mem.at["frag"] = "null"
  BY <1>1 DEF Pointers
<1>4. Fresh(b) /\ b.at["buffer"] = "held" /\ b.at["vert"] = "null" /\ b.at["frag"] = "null"
  BY <1>2, <1>3, FreshGive DEF Pointers
<1> HIDE DEF b
<1>5. Fresh(b2) /\ b2.at = b.at
  BY <1>4, FreshFile
<1> HIDE DEF b2
<1>6. Fresh(v) /\ v.at["vert"] = "held" /\ v.at["frag"] = "null" /\ v.at["buffer"] = "held"
  BY <1>4, <1>5, FreshGive DEF Pointers
<1> HIDE DEF v
<1>7. Fresh(v2) /\ v2.at = v.at
  BY <1>6, FreshFile
<1> HIDE DEF v2
<1>8. Fresh(f) /\ f.at["frag"] = "held" /\ f.at["vert"] = "held" /\ f.at["buffer"] = "held"
  BY <1>6, <1>7, FreshGive DEF Pointers
<1> HIDE DEF f
<1>9. Fresh(x1) /\ x1.at["vert"] # "held" /\ x1.at["frag"] # "held"
  BY <1>6, FreshFree DEF Pointers, Sources
<1>10. Fresh(x2) /\ x2.at["vert"] # "held" /\ x2.at["frag"] # "held"
  BY <1>6, <1>7, FreshFree DEF Pointers, Sources
<1>11. Fresh(y) /\ y.at["vert"] = "stale" /\ y.at["frag"] = "held"
  BY <1>8, FreshFree DEF Pointers, Sources
<1> HIDE DEF y
<1>12. Fresh(x3) /\ x3.at["vert"] # "held" /\ x3.at["frag"] # "held"
  BY <1>11, FreshFree DEF Pointers, Sources
<1> HIDE DEF x1, x2, x3
<1>13. CASE mem' = f /\ env' = [env EXCEPT !.life = "live", !.client = "native",
                                          !.type = "off", !.ret = "ok"]
            /\ calls' = calls
  <2>1. env' \in Instances
    BY <1>13 DEF HeapInv, HeapTypeOK, Instances
  <2>2. env'.life = "live" /\ env'.active = "none" /\ env'.type = "off"
    BY <1>1, <1>13 DEF HeapInv, HeapTypeOK, Instances
  <2>3. HeapTypeOK'
    BY <1>8, <1>13, <2>1 DEF HeapInv, HeapTypeOK, Fresh
  <2>4. Sound(mem)'
    BY <1>8, <1>13 DEF Sound, Fresh, Pointers, Sources
  <2>5. \A p \in Pointers : mem'.lost[p] = 0 /\ Cost(p)' <= 1
    BY <1>8, <1>13 DEF Fresh, Cost, Holds
  <2>6. Cost("pixels")' = 0
    BY <1>8, <1>13 DEF Fresh, Cost, Holds, Pointers
  <2>7. Constructions' = 1 /\ Allowed' = 1
    BY <1>1, <1>13, <2>2 DEF Constructions, Allowed, NoCall
  <2>8. PixelsBounded' /\ RestBounded'
    BY <2>2, <2>5, <2>6, <2>7 DEF PixelsBounded, RestBounded, Pointers
  <2>. QED
    BY <2>2, <2>3, <2>4, <2>8, LiveIsEnough
<1>14. ASSUME NEW m \in {mem, b, b2, x1, x2, x3}, mem' = Release(m),
              env' = [env EXCEPT !.life = "refused"], calls' = calls
       PROVE  HeapInv'
  <2>1. Fresh(m) /\ m.at["vert"] # "held" /\ m.at["frag"] # "held"
    BY <1>2, <1>3, <1>4, <1>5, <1>9, <1>10, <1>12
  <2>2. mem' \in Memories /\ ~mem'.twice /\ \A p \in Pointers : mem'.lost[p] = 0
    BY <1>1, <1>14, <2>1, FreshRelease DEF Active
  <2>3. env' \in Instances /\ env'.life = "refused"
    BY <1>14 DEF HeapInv, HeapTypeOK, Instances
  <2>4. HeapTypeOK'
    BY <1>14, <2>2, <2>3 DEF HeapInv, HeapTypeOK
  <2>5. Constructions' = 1 /\ calls'.path = 0
    BY <1>1, <1>14 DEF Constructions, NoCall
  <2>6. SurvivorsKnown' /\ PixelsLostPerPath'
    BY <2>2, <2>5 DEF SurvivorsKnown, PixelsLostPerPath, Pointers
  <2>7. FreedOnce' /\ StartInv' /\ LiveInv'
    BY <2>2, <2>3 DEF FreedOnce, StartInv, LiveInv, Live
  <2>. QED
    BY <2>4, <2>6, <2>7 DEF HeapInv
<1>15. \/ /\ mem' = f /\ calls' = calls
          /\ env' = [env EXCEPT !.life = "live", !.client = "native",
                                !.type = "off", !.ret = "ok"]
       \/ /\ \E m \in {mem, b, b2, x1, x2, x3} : mem' = Release(m)
          /\ env' = [env EXCEPT !.life = "refused"] /\ calls' = calls
  BY DEF NewDefaultSdkEnv, ReadFile, b, b2, v, v2, f, x1, x2, x3, y
<1>. QED
  BY <1>13, <1>14, <1>15

(* initEffectCmd after newChrbuf: the old text and parameters are lost.     *)
LEMMA WithEffectFacts ==
    ASSUME NEW m, Sound(m)
    PROVE  LET n == WithEffect(m)
           IN  /\ Sound(n)
               /\ \A p \in Pointers \ {"buffer", "params"} : n.at[p] = m.at[p]
               /\ \A k \in Kinds \ {"buffer", "params"} : n.lost[k] = m.lost[k]
               /\ n.lost["buffer"] = m.lost["buffer"] + Holds(m, "buffer")
               /\ n.lost["params"] = m.lost["params"] + Holds(m, "params")
               /\ n.at["buffer"] = "held" /\ n.at["params"] = "held"
<1> DEFINE b == Give(m, "buffer")
           n == Give(b, "params")
<1>0. /\ m \in Memories /\ ~m.twice /\ {"buffer", "params"} \subseteq Pointers
      /\ {"buffer", "params"} \subseteq Kinds
  BY DEF Sound, Pointers, Kinds
<1>1. Overwritten(m, b, "buffer", "held")
  BY <1>0, GiveFacts
<1> HIDE DEF b
<1>2. Overwritten(b, n, "params", "held")
  BY <1>0, <1>1, GiveFacts DEF Overwritten
<1>3. WithEffect(m) = n
  BY DEF WithEffect, b
<1> HIDE DEF n
<1>4. Holds(b, "params") = Holds(m, "params") /\ b.lost["params"] = m.lost["params"]
  BY <1>0, <1>1 DEF Overwritten, Holds
<1>5. /\ \A p \in Pointers \ {"buffer", "params"} : n.at[p] = m.at[p]
      /\ n.at["buffer"] = "held" /\ n.at["params"] = "held"
  BY <1>0, <1>1, <1>2 DEF Overwritten
<1>6. /\ \A k \in Kinds \ {"buffer", "params"} : n.lost[k] = m.lost[k]
      /\ n.lost["buffer"] = m.lost["buffer"] + Holds(m, "buffer")
      /\ n.lost["params"] = m.lost["params"] + Holds(m, "params")
  BY <1>0, <1>1, <1>2, <1>4 DEF Overwritten
<1>7. n \in Memories /\ ~n.twice
  BY <1>0, <1>1, <1>2 DEF Overwritten
<1>8. Sound(n)
  BY <1>5, <1>7 DEF Sound, Pointers, Sources
<1>. QED
  BY <1>3, <1>5, <1>6, <1>8

(* The two shader texts, each read or NULL, in the place of the old ones.  *)
SourceRead(m, p, ok) == IF ok THEN Give(m, p) ELSE Drop(m, p)

LEMMA SourceReadFacts ==
    ASSUME NEW m, Sound(m), NEW p \in Sources, NEW ok \in BOOLEAN
    PROVE  LET n == SourceRead(m, p, ok)
           IN  /\ Sound(n)
               /\ \A q \in Pointers \ {p} : n.at[q] = m.at[q]
               /\ \A k \in Kinds \ {p} : n.lost[k] = m.lost[k]
               /\ n.lost[p] = m.lost[p] + Holds(m, p)
<1> DEFINE n == SourceRead(m, p, ok)
<1>1. p \in Pointers /\ m \in Memories /\ p \notin {"bitmap", "pixels"}
  BY DEF Sources, Pointers, Sound
<1>2. \/ Overwritten(m, n, p, "held")
      \/ Overwritten(m, n, p, "null")
  BY <1>1, GiveFacts, DropFacts DEF SourceRead
<1> HIDE DEF n
<1>3. /\ n \in Memories /\ n.twice = m.twice
      /\ \A q \in Pointers \ {p} : n.at[q] = m.at[q]
      /\ \A k \in Kinds \ {p} : n.lost[k] = m.lost[k]
      /\ n.lost[p] = m.lost[p] + Holds(m, p)
  BY <1>2 DEF Overwritten
<1>4. Sound(n)
  BY <1>1, <1>3 DEF Sound, Pointers
<1>. QED
  BY <1>3, <1>4 DEF n

LEMMA HoldsAtMostOne == \A m, p : Holds(m, p) \in {0, 1}
BY DEF Holds

(* An initialisation that takes the text and the parameters, and perhaps   *)
(* the sources, costs at most one block of each kind more.                 *)
LEMMA InitIsBounded ==
    ASSUME HeapInv, Live, env.type = "on", HeapTypeOK',
           env'.life = "live", env'.active = env.active,
           calls' = [calls EXCEPT !.init = @ + 1],
           Sound(mem)',
           \A p \in {"input", "output", "pixels"} :
              mem'.lost[p] = mem.lost[p] /\ mem'.at[p] = mem.at[p],
           mem'.lost["buffer"] = Cost("buffer"),
           \A p \in {"params", "vert", "frag"} :
              mem'.lost[p] = Cost(p) \/ (mem'.lost[p] = mem.lost[p] /\ mem'.at[p] = mem.at[p])
    PROVE  HeapInv'
<1>1. PixelsBounded /\ RestBounded /\ HeapTypeOK
  BY DEF HeapInv, LiveInv
<1>2. calls.init \in Nat /\ calls'.init = calls.init + 1 /\ calls'.path = calls.path
  BY <1>1, CallsAreNat DEF HeapTypeOK
<1>3. Allowed = calls.init /\ Constructions' = calls.init + 1 /\ Allowed' = calls.init + 1
  BY <1>2 DEF Allowed, Constructions
<1>4. Cost("pixels")' = Cost("pixels")
  BY DEF Cost, Holds
<1>5. PixelsBounded'
  BY <1>1, <1>2, <1>4 DEF PixelsBounded
<1>6. mem'.lost["input"] = 0 /\ mem'.lost["output"] = 0
  BY <1>1 DEF RestBounded
<1>7. mem'.lost["buffer"] < Constructions' /\ Cost("buffer")' <= Allowed'
  <2>1. Cost("buffer") \in Nat /\ Cost("buffer") <= calls.init
    BY <1>1, <1>3, TypeParts DEF RestBounded, Pointers
  <2>2. Holds(mem, "buffer")' \in {0, 1}
    BY HoldsAtMostOne
  <2>. QED
    BY <1>2, <1>3, <2>1, <2>2 DEF Cost
<1>8. ASSUME NEW p \in {"params", "vert", "frag"} PROVE Cost(p)' <= Allowed'
  <2>1. Cost(p) \in Nat /\ Cost(p) <= calls.init
    BY <1>1, <1>3, TypeParts DEF RestBounded, Pointers
  <2>2. Holds(mem, p)' \in {0, 1}
    BY HoldsAtMostOne
  <2>3. CASE mem'.lost[p] = Cost(p)
    BY <1>2, <1>3, <2>1, <2>2, <2>3 DEF Cost
  <2>4. CASE mem'.lost[p] = mem.lost[p] /\ mem'.at[p] = mem.at[p]
    <3>1. Cost(p)' = Cost(p)
      BY <2>4 DEF Cost, Holds
    <3>. QED
      BY <1>2, <1>3, <2>1, <3>1
  <2>. QED
    BY <2>3, <2>4
<1>9. RestBounded'
  BY <1>6, <1>7, <1>8 DEF RestBounded
<1>. QED
  BY <1>5, <1>9, LiveIsEnough

LEMMA InitStep ==
    ASSUME HeapInv, InitSdkEnv PROVE HeapInv'
<1>1. /\ Live /\ HeapTypeOK /\ Sound(mem) /\ PixelsBounded /\ RestBounded
      /\ calls' = [calls EXCEPT !.init = @ + 1]
      /\ calls.init < MaxInits
  BY DEF HeapInv, LiveInv, InitSdkEnv
<1>2. calls' \in [init : 0 .. MaxInits, path : 0 .. MaxPaths,
                  output : 0 .. MaxOutputs, effect : 0 .. MaxEffects]
  BY <1>1, BoundsAssumption DEF HeapTypeOK
<1>3. /\ calls'.path = calls.path /\ calls'.init = calls.init + 1 /\ calls.init \in Nat
  BY <1>1, CallsAreNat DEF HeapTypeOK
<1> DEFINE w == WithEffect(mem)
<1>4. /\ Sound(w)
      /\ \A p \in Pointers \ {"buffer", "params"} : w.at[p] = mem.at[p]
      /\ \A k \in Kinds \ {"buffer", "params"} : w.lost[k] = mem.lost[k]
      /\ w.lost["buffer"] = Cost("buffer") /\ w.lost["params"] = Cost("params")
  BY <1>1, WithEffectFacts DEF Cost
<1>5. CASE InitRefused
  <2>1. HeapTypeOK' /\ env'.life = "live" /\ Sound(mem)'
    BY <1>1, <1>2, <1>5 DEF InitRefused, HeapTypeOK, Sound, Live
  <2>2. \A p \in Pointers : Cost(p)' = Cost(p)
    BY <1>5 DEF InitRefused, Cost, Holds
  <2>3. PixelsBounded'
    BY <1>1, <1>3, <1>5, <2>2 DEF InitRefused, PixelsBounded, Pointers
  <2>4. /\ Constructions' >= Constructions /\ Constructions \in Nat /\ Constructions' \in Nat
        /\ Allowed' = Constructions' /\ Allowed = Constructions
    BY <1>1, <1>3, <1>5 DEF InitRefused, Constructions, Allowed
  <2>5. mem' = mem /\ mem.lost["buffer"] \in Nat
    BY <1>1, <1>5, TypeParts DEF InitRefused, Pointers, Kinds
  <2>6. ASSUME NEW p \in {"buffer", "params", "vert", "frag"} PROVE Cost(p)' <= Allowed'
    <3>1. Cost(p) \in Nat /\ Cost(p)' = Cost(p) /\ Cost(p) <= Allowed
      BY <1>1, <2>2, TypeParts DEF RestBounded, Pointers
    <3>. QED
      BY <2>4, <3>1
  <2>7. RestBounded'
    BY <1>1, <2>4, <2>5, <2>6 DEF RestBounded
  <2>. QED
    BY <2>1, <2>3, <2>7, LiveIsEnough
<1>6. CASE InitWithoutBuffer
  <2>1. mem' = Release(mem) /\ env'.life = "dangling" /\ env' \in Instances
    BY <1>1, <1>6 DEF InitWithoutBuffer, HeapTypeOK, Instances
  <2>2. mem' \in Memories
    BY <1>1, <2>1, TypeParts, ReleaseFacts
  <2>. QED
    BY <1>1, <1>2, <1>3, <2>1, <2>2, GoneIsBounded DEF HeapTypeOK
<1>7. CASE InitWithoutParams
  <2>1. mem' = Give(mem, "buffer") /\ env'.life = "crashed" /\ env' \in Instances
    BY <1>1, <1>7 DEF InitWithoutParams, Crash, HeapTypeOK, Instances
  <2>2. Overwritten(mem, mem', "buffer", "held")
    BY <1>1, <2>1, GiveFacts DEF Sound, Pointers
  <2>3. ~mem'.twice /\ mem' \in Memories /\ mem'.lost["pixels"] = mem.lost["pixels"]
    BY <1>1, <2>2 DEF Overwritten, Sound, Kinds, Pointers
  <2>4. PixelsLostPerPath'
    BY <1>3, <2>3 DEF HeapInv, PixelsLostPerPath
  <2>5. HeapTypeOK'
    BY <1>2, <2>1, <2>3 DEF HeapTypeOK
  <2>. QED
    BY <2>1, <2>3, <2>4, <2>5
       DEF HeapInv, FreedOnce, SurvivorsKnown, Gone, StartInv, LiveInv, Live
<1>8. CASE InitWithoutEgl
  <2>1. /\ mem' = w /\ env.type = "on" /\ env'.life = "live"
        /\ env'.active = env.active /\ env' \in Instances
    BY <1>1, <1>8 DEF InitWithoutEgl, HeapTypeOK, Instances, Live
  <2> HIDE DEF w
  <2>2. HeapTypeOK' /\ Sound(mem)'
    BY <1>2, <1>4, <2>1 DEF HeapTypeOK, Sound
  <2>3. \A p \in {"input", "output", "pixels", "vert", "frag"} :
           mem'.lost[p] = mem.lost[p] /\ mem'.at[p] = mem.at[p]
    BY <1>4, <2>1 DEF Pointers, Kinds
  <2>. QED
    BY <1>1, <1>4, <2>1, <2>2, <2>3, InitIsBounded
<1>9. CASE InitWithEgl
  <2>1. /\ env.type = "on" /\ env'.life = "live"
        /\ env'.active = env.active /\ env' \in Instances
    BY <1>1, <1>9 DEF InitWithEgl, HeapTypeOK, Instances, Live
  <2>2. PICK vert \in BOOLEAN, frag \in BOOLEAN :
           mem' = SourceRead(SourceRead(w, "vert", vert), "frag", frag)
    BY <1>9 DEF InitWithEgl, SourceRead
  <2> DEFINE v == SourceRead(w, "vert", vert)
  <2> HIDE DEF w
  <2>3. /\ Sound(v)
        /\ \A q \in Pointers \ {"vert"} : v.at[q] = w.at[q]
        /\ \A k \in Kinds \ {"vert"} : v.lost[k] = w.lost[k]
        /\ v.lost["vert"] = w.lost["vert"] + Holds(w, "vert")
    <3>1. "vert" \in Sources /\ vert \in BOOLEAN
      BY DEF Sources
    <3>. QED
      BY <1>4, <3>1, SourceReadFacts
  <2> HIDE DEF v
  <2>4. /\ Sound(mem')
        /\ \A q \in Pointers \ {"frag"} : mem'.at[q] = v.at[q]
        /\ \A k \in Kinds \ {"frag"} : mem'.lost[k] = v.lost[k]
        /\ mem'.lost["frag"] = v.lost["frag"] + Holds(v, "frag")
    <3>1. "frag" \in Sources /\ frag \in BOOLEAN
      BY DEF Sources
    <3>2. mem' = SourceRead(v, "frag", frag)
      BY <2>2 DEF v
    <3>. QED
      BY <2>3, <3>1, <3>2, SourceReadFacts
  <2>5. \A p \in {"input", "output", "pixels"} :
           mem'.lost[p] = mem.lost[p] /\ mem'.at[p] = mem.at[p]
    BY <1>4, <2>3, <2>4 DEF Pointers, Kinds
  <2>6. mem'.lost["buffer"] = Cost("buffer") /\ mem'.lost["params"] = Cost("params")
    BY <1>4, <2>3, <2>4 DEF Kinds, Pointers
  <2>7. mem'.lost["vert"] = Cost("vert") /\ mem'.lost["frag"] = Cost("frag")
    BY <1>4, <2>3, <2>4 DEF Kinds, Pointers, Cost, Holds
  <2>8. HeapTypeOK' /\ Sound(mem)'
    BY <1>2, <2>1, <2>4 DEF HeapTypeOK, Sound
  <2>. QED
    BY <1>1, <2>1, <2>5, <2>6, <2>7, <2>8, InitIsBounded
<1>. QED
  BY <1>5, <1>6, <1>7, <1>8, <1>9 DEF InitSdkEnv

LEMMA FreeStep ==
    ASSUME HeapInv, FreeSdkEnv PROVE HeapInv'
<1>1. HeapTypeOK
  BY DEF HeapInv
<1>2. CASE Live /\ mem' = Release(mem) /\ calls' = calls
           /\ env' = [env EXCEPT !.life = "freed"]
  <2>1. env'.life = "freed" /\ env' \in Instances
    BY <1>1, <1>2 DEF HeapTypeOK, Instances
  <2>2. Sound(mem)
    BY <1>2 DEF HeapInv, LiveInv
  <2>3. mem' \in Memories
    BY <1>1, <1>2, <2>2, TypeParts, ReleaseFacts
  <2>4. HeapTypeOK'
    BY <1>1, <1>2, <2>1, <2>3 DEF HeapTypeOK
  <2>. QED
    BY <1>2, <2>1, <2>4, GoneIsBounded
<1>3. CASE env.life = "dangling" /\ mem' = [mem EXCEPT !.twice = TRUE]
           /\ env' = env /\ calls' = calls
  <2>1. mem' \in Memories /\ mem'.lost = mem.lost
    BY <1>1, <1>3 DEF HeapTypeOK, Memories
  <2>2. HeapTypeOK'
    BY <1>1, <1>3, <2>1 DEF HeapTypeOK
  <2>3. Constructions' = Constructions
    BY <1>3 DEF Constructions
  <2>4. SurvivorsKnown' /\ PixelsLostPerPath'
    BY <1>3, <2>1, <2>3 DEF HeapInv, SurvivorsKnown, Gone, PixelsLostPerPath
  <2>. QED
    BY <1>3, <2>2, <2>4 DEF HeapInv, FreedOnce, StartInv, LiveInv, Live
<1>. QED
  BY <1>2, <1>3 DEF FreeSdkEnv

(* free and strdup of a path: no block is lost.                            *)
LEMMA CopiedFacts ==
    ASSUME NEW m, Sound(m), NEW p \in {"input", "output"}, NEW n \in Copied(m, p)
    PROVE  /\ Sound(n)
           /\ \A q \in Pointers \ {p} : n.at[q] = m.at[q]
           /\ \A k \in Kinds : n.lost[k] = m.lost[k]
<1> DEFINE f == Free(m, p)
<1>1. /\ p \in Pointers /\ p \in Kinds /\ m \in Memories /\ m.at[p] # "stale"
      /\ p \notin {"bitmap", "pixels"}
  BY DEF Sound, Pointers, Kinds, Sources
<1>2. Freed(m, f, p, IF m.at[p] = "held" THEN "stale" ELSE "null")
  BY <1>1, FreeFacts
<1>3. CASE n = Give(f, p)
  <2> HIDE DEF f
  <2>1. Overwritten(f, n, p, "held")
    BY <1>1, <1>2, <1>3, GiveFacts DEF Freed
  <2>2. Holds(f, p) = 0
    BY <1>2 DEF Freed, Holds
  <2>3. f.lost[p] \in Nat
    BY <1>1, <1>2, MemoryParts DEF Freed
  <2>4. n.lost[p] = m.lost[p]
    BY <1>1, <1>2, <2>1, <2>2, <2>3 DEF Overwritten, Freed
  <2>5. /\ n \in Memories /\ n.twice = m.twice /\ n.at[p] = "held"
        /\ \A q \in Pointers \ {p} : n.at[q] = m.at[q]
        /\ \A k \in Kinds \ {p} : n.lost[k] = m.lost[k]
    BY <1>2, <2>1 DEF Overwritten, Freed
  <2>6. Sound(n)
    BY <1>1, <2>5 DEF Sound, Pointers
  <2>. QED
    BY <2>4, <2>5, <2>6
<1>4. CASE n = FreeAndClear(m, p)
  <2>1. Freed(m, n, p, "null")
    BY <1>1, <1>4, FreeAndClearFacts
  <2>2. Sound(n)
    BY <1>1, <2>1 DEF Freed, Sound, Pointers
  <2>. QED
    BY <2>1, <2>2 DEF Freed
<1>. QED
  BY <1>3, <1>4 DEF Copied

(* What a call that keeps the texts, parameters and sources leaves bounded.*)
LEMMA RestStays ==
    ASSUME RestBounded, env'.type = env.type, calls'.init = calls.init,
           \A p \in {"input", "output", "buffer"} : mem'.lost[p] = mem.lost[p],
           \A p \in {"buffer", "params", "vert", "frag"} : Cost(p)' = Cost(p)
    PROVE  RestBounded'
BY DEF RestBounded, Allowed, Constructions

LEMMA SetOutputStep ==
    ASSUME HeapInv, SetOutputImagePath PROVE HeapInv'
<1>1. /\ Live /\ HeapTypeOK /\ Sound(mem) /\ PixelsBounded /\ RestBounded
      /\ env' = env /\ calls' = [calls EXCEPT !.output = @ + 1]
      /\ calls.output < MaxOutputs /\ mem' \in Copied(mem, "output")
  BY DEF HeapInv, LiveInv, SetOutputImagePath, Ready
<1>2. /\ Sound(mem')
      /\ \A q \in Pointers \ {"output"} : mem'.at[q] = mem.at[q]
      /\ \A k \in Kinds : mem'.lost[k] = mem.lost[k]
  BY <1>1, CopiedFacts
<1>3. calls' \in [init : 0 .. MaxInits, path : 0 .. MaxPaths,
                  output : 0 .. MaxOutputs, effect : 0 .. MaxEffects]
  BY <1>1, BoundsAssumption DEF HeapTypeOK
<1>4. HeapTypeOK' /\ Sound(mem)'
  BY <1>1, <1>2, <1>3 DEF HeapTypeOK, Sound
<1>5. calls'.init = calls.init /\ calls'.path = calls.path
  BY <1>1 DEF HeapTypeOK
<1>6. \A p \in Pointers \ {"output"} : Cost(p)' = Cost(p)
  BY <1>2, PointersAreKinds DEF Cost, Holds
<1>7. PixelsBounded'
  BY <1>1, <1>2, <1>5, <1>6 DEF PixelsBounded, Pointers, Kinds
<1>8. RestBounded'
  BY <1>1, <1>2, <1>5, <1>6, RestStays DEF Pointers, Kinds
<1>. QED
  BY <1>1, <1>4, <1>7, <1>8, LiveIsEnough DEF Live

LEMMA SetInputStep ==
    ASSUME HeapInv, NEW path \in Path, SetInputImagePath(path) PROVE HeapInv'
<1>1. /\ Live /\ HeapTypeOK /\ Sound(mem) /\ PixelsBounded /\ RestBounded
      /\ calls' = [calls EXCEPT !.path = @ + 1]
      /\ calls.path < MaxPaths /\ mem' \in Copied(mem, "input")
  BY DEF HeapInv, LiveInv, SetInputImagePath, Ready
<1>2. /\ Sound(mem')
      /\ \A q \in Pointers \ {"input"} : mem'.at[q] = mem.at[q]
      /\ \A k \in Kinds : mem'.lost[k] = mem.lost[k]
  BY <1>1, CopiedFacts
<1>3. calls' \in [init : 0 .. MaxInits, path : 0 .. MaxPaths,
                  output : 0 .. MaxOutputs, effect : 0 .. MaxEffects]
  BY <1>1, BoundsAssumption DEF HeapTypeOK
<1>4. /\ env' \in Instances /\ env'.life = "live" /\ env'.active = "path"
      /\ env'.type = env.type
  <2>1. PICK source \in Path \cup {NoPath} :
           env' = [env EXCEPT !.active = "path", !.input = source]
    BY DEF SetInputImagePath
  <2>. QED
    BY <1>1, <2>1 DEF HeapTypeOK, Instances, Live
<1>5. HeapTypeOK' /\ Sound(mem)'
  BY <1>2, <1>3, <1>4 DEF HeapTypeOK, Sound
<1>6. /\ calls'.init = calls.init /\ calls'.path = calls.path + 1
      /\ calls.path \in Nat
  BY <1>1, CallsAreNat DEF HeapTypeOK
<1>7. \A p \in Pointers \ {"input"} : Cost(p)' = Cost(p)
  BY <1>2, PointersAreKinds DEF Cost, Holds
<1>8. PixelsBounded'
  <2>1. /\ mem.lost["pixels"] \in Nat /\ Holds(mem, "pixels") \in {0, 1}
        /\ env.active \in Active
    BY <1>1, TypeParts, HoldsAtMostOne DEF Kinds, Pointers
  <2>2. Cost("pixels") <= calls.path
    BY <1>1, <1>6, <2>1 DEF PixelsBounded, Cost, Active
  <2>3. Cost("pixels")' < calls'.path
    BY <1>6, <1>7, <2>1, <2>2 DEF Pointers, Cost
  <2>. QED
    BY <1>4, <2>3 DEF PixelsBounded
<1>9. RestBounded'
  BY <1>1, <1>2, <1>4, <1>6, <1>7, RestStays DEF Pointers, Kinds
<1>. QED
  BY <1>4, <1>5, <1>8, <1>9, LiveIsEnough

(* The parser at most loses the parameters.                                *)
LEMMA AfterParseFacts ==
    ASSUME Sound(mem), NEW cmd
    PROVE  LET n == AfterParse(cmd)
           IN  /\ Sound(n)
               /\ \A q \in Pointers \ {"params"} : n.at[q] = mem.at[q]
               /\ \A k \in Kinds \ {"params"} : n.lost[k] = mem.lost[k]
               /\ n.lost["params"] + Holds(n, "params") = Cost("params")
<1> DEFINE n == AfterParse(cmd)
<1>0. mem \in Memories /\ "params" \in Pointers /\ "params" \in Kinds
  BY DEF Sound, Pointers, Kinds
<1>1. CASE n = mem
  BY <1>1 DEF Cost
<1>2. CASE n = Drop(mem, "params")
  <2>1. Overwritten(mem, n, "params", "null")
    BY <1>0, <1>2, DropFacts
  <2> HIDE DEF n
  <2>2. Sound(n)
    BY <1>0, <2>1 DEF Overwritten, Sound, Pointers
  <2>3. Holds(n, "params") = 0 /\ n.lost["params"] \in Nat
    BY <1>0, <2>1, <2>2, MemoryParts DEF Overwritten, Holds, Sound
  <2>4. n.lost["params"] + Holds(n, "params") = Cost("params")
    BY <2>1, <2>3 DEF Overwritten, Cost
  <2>. QED
    BY <2>1, <2>2, <2>4 DEF Overwritten, n
<1>. QED
  BY <1>1, <1>2 DEF AfterParse

(* A loaded image takes the place of the last one.                         *)
LEMMA LoadedFacts ==
    ASSUME NEW m, Sound(m)
    PROVE  LET n == Give(Give(m, "bitmap"), "pixels")
           IN  /\ Sound(n)
               /\ \A q \in Pointers \ {"bitmap", "pixels"} : n.at[q] = m.at[q]
               /\ \A k \in Kinds \ {"bitmap", "pixels"} : n.lost[k] = m.lost[k]
               /\ n.lost["pixels"] = m.lost["pixels"] + Holds(m, "pixels")
<1> DEFINE b == Give(m, "bitmap")
           n == Give(b, "pixels")
<1>0. m \in Memories /\ {"bitmap", "pixels"} \subseteq Pointers
      /\ {"bitmap", "pixels"} \subseteq Kinds
  BY DEF Sound, Pointers, Kinds
<1>1. Overwritten(m, b, "bitmap", "held")
  BY <1>0, GiveFacts
<1> HIDE DEF b
<1>2. Overwritten(b, n, "pixels", "held")
  BY <1>0, <1>1, GiveFacts DEF Overwritten
<1> HIDE DEF n
<1>3. n \in Memories /\ ~n.twice /\ n.at["bitmap"] = "held" /\ n.at["pixels"] = "held"
  BY <1>0, <1>1, <1>2 DEF Overwritten, Sound
<1>4. \A q \in Pointers \ {"bitmap", "pixels"} : n.at[q] = m.at[q]
  BY <1>1, <1>2 DEF Overwritten
<1>5. \A k \in Kinds \ {"bitmap", "pixels"} : n.lost[k] = m.lost[k]
  BY <1>1, <1>2 DEF Overwritten
<1>6. n.lost["pixels"] = m.lost["pixels"] + Holds(m, "pixels")
  BY <1>0, <1>1, <1>2 DEF Overwritten, Holds
<1>7. Sound(n)
  BY <1>3, <1>4 DEF Sound
<1>. QED
  BY <1>4, <1>5, <1>6, <1>7 DEF n, b

LEMMA SetEffectStep ==
    ASSUME HeapInv, NEW cmd \in Commands, SetEffectCmd(cmd) PROVE HeapInv'
<1>1. /\ Live /\ HeapTypeOK /\ Sound(mem) /\ PixelsBounded /\ RestBounded
      /\ PixelsLostPerPath
      /\ calls' = [calls EXCEPT !.effect = @ + 1] /\ calls.effect < MaxEffects
  BY DEF HeapInv, LiveInv, SetEffectCmd, Ready
<1>2. calls' \in [init : 0 .. MaxInits, path : 0 .. MaxPaths,
                  output : 0 .. MaxOutputs, effect : 0 .. MaxEffects]
  BY <1>1, BoundsAssumption DEF HeapTypeOK
<1>3. calls'.init = calls.init /\ calls'.path = calls.path
  BY <1>1 DEF HeapTypeOK
<1> DEFINE m == AfterParse(cmd)
           l == LoseOne(m, "bitmap")
           n == Give(Give(m, "bitmap"), "pixels")
<1>4. /\ Sound(m)
      /\ \A q \in Pointers \ {"params"} : m.at[q] = mem.at[q]
      /\ \A k \in Kinds \ {"params"} : m.lost[k] = mem.lost[k]
      /\ m.lost["params"] + Holds(m, "params") = Cost("params")
  BY <1>1, AfterParseFacts
<1>5. /\ Sound(n)
      /\ \A q \in Pointers \ {"bitmap", "pixels"} : n.at[q] = m.at[q]
      /\ \A k \in Kinds \ {"bitmap", "pixels"} : n.lost[k] = m.lost[k]
      /\ n.lost["pixels"] = m.lost["pixels"] + Holds(m, "pixels")
  BY <1>4, LoadedFacts
<1>6. /\ l.at = m.at /\ Sound(l)
      /\ \A k \in Kinds \ {"bitmap"} : l.lost[k] = m.lost[k]
  BY <1>4, LoseFileFacts DEF Sound, Kinds, Pointers
<1>7. \/ mem' = mem /\ Crash
      \/ mem' \in {m, l} /\ env' = env
      \/ mem' = l /\ Crash
      \/ env.active = "path" /\ mem' = n /\ env' = [env EXCEPT !.active = "param"]
  BY DEF SetEffectCmd, Load, NeedsLoad
<1> HIDE DEF m, l, n
<1>8. CASE mem' \in {mem, l} /\ Crash
  <2>1. env'.life = "crashed" /\ env' \in Instances
    BY <1>1, <1>8 DEF Crash, HeapTypeOK, Instances
  <2>2. /\ mem' \in Memories /\ ~mem'.twice
        /\ mem'.lost["pixels"] = mem.lost["pixels"]
    BY <1>1, <1>4, <1>6, <1>8 DEF Sound, Kinds, Pointers
  <2>3. HeapTypeOK' /\ PixelsLostPerPath'
    BY <1>1, <1>2, <1>3, <2>1, <2>2 DEF HeapTypeOK, PixelsLostPerPath
  <2>. QED
    BY <2>1, <2>2, <2>3
       DEF HeapInv, FreedOnce, SurvivorsKnown, Gone, StartInv, LiveInv, Live
<1>9. CASE mem' \in {m, l} /\ env' = env
  <2>1. /\ Sound(mem') /\ mem'.at = m.at
        /\ \A k \in Kinds \ {"bitmap"} : mem'.lost[k] = m.lost[k]
    BY <1>4, <1>6, <1>9
  <2>2. HeapTypeOK' /\ Sound(mem)' /\ env'.life = "live"
    BY <1>1, <1>2, <1>9, <2>1 DEF HeapTypeOK, Sound, Live
  <2>3. \A p \in {"input", "output", "buffer", "vert", "frag", "pixels"} :
           mem'.lost[p] = mem.lost[p] /\ Cost(p)' = Cost(p)
    BY <1>4, <2>1 DEF Kinds, Pointers, Cost, Holds
  <2>4. Cost("params")' = Cost("params")
    BY <1>4, <2>1 DEF Kinds, Pointers, Cost, Holds
  <2>5. PixelsBounded'
    BY <1>1, <1>3, <1>9, <2>3 DEF PixelsBounded
  <2>6. RestBounded'
    BY <1>1, <1>3, <1>9, <2>3, <2>4, RestStays
  <2>. QED
    BY <2>2, <2>5, <2>6, LiveIsEnough
<1>10. CASE env.active = "path" /\ mem' = n /\ env' = [env EXCEPT !.active = "param"]
  <2>1. /\ env' \in Instances /\ env'.life = "live" /\ env'.active = "param"
        /\ env'.type = env.type
    BY <1>1, <1>10 DEF HeapTypeOK, Instances, Live
  <2>2. HeapTypeOK' /\ Sound(mem)'
    BY <1>1, <1>2, <1>5, <1>10, <2>1 DEF HeapTypeOK, Sound
  <2>3. \A p \in {"input", "output", "buffer", "vert", "frag"} :
           mem'.lost[p] = mem.lost[p] /\ Cost(p)' = Cost(p)
    BY <1>4, <1>5, <1>10 DEF Kinds, Pointers, Cost, Holds
  <2>4. Cost("params")' = Cost("params")
    BY <1>4, <1>5, <1>10 DEF Kinds, Pointers, Cost, Holds
  <2>5. mem'.lost["pixels"] = Cost("pixels")
    BY <1>4, <1>5, <1>10 DEF Kinds, Pointers, Cost, Holds
  <2>6. PixelsBounded'
    BY <1>1, <1>3, <1>10, <2>1, <2>5 DEF PixelsBounded
  <2>7. RestBounded'
    BY <1>1, <1>3, <2>1, <2>3, <2>4, RestStays
  <2>. QED
    BY <2>1, <2>2, <2>6, <2>7, LiveIsEnough
<1>. QED
  BY <1>7, <1>8, <1>9, <1>10

-----------------------------------------------------------------------------
THEOREM HeapInvariant == Spec => []HeapInv
<1>1. HeapInv /\ [Next]_vars => HeapInv'
  <2> SUFFICES ASSUME HeapInv, [Next]_vars PROVE HeapInv'
    OBVIOUS
  <2>1. CASE NewBlankSdkEnv
    BY <2>1, NewBlankStep
  <2>2. CASE NewDefaultSdkEnv
    BY <2>2, NewDefaultStep
  <2>3. CASE InitSdkEnv
    BY <2>3, InitStep
  <2>4. ASSUME NEW path \in Path, SetInputImagePath(path) PROVE HeapInv'
    BY <2>4, SetInputStep
  <2>5. CASE SetOutputImagePath
    BY <2>5, SetOutputStep
  <2>6. ASSUME NEW cmd \in Commands, SetEffectCmd(cmd) PROVE HeapInv'
    BY <2>6, SetEffectStep
  <2>7. CASE FreeSdkEnv
    BY <2>7, FreeStep
  <2>8. CASE UNCHANGED vars
    <3>1. mem' = mem /\ env' = env /\ calls' = calls
      BY <2>8 DEF vars
    <3>. QED
      BY <3>1 DEF HeapInv, HeapTypeOK, FreedOnce, SurvivorsKnown, Gone, Constructions,
           PixelsLostPerPath, StartInv, LiveInv, Live, Sound, PixelsBounded,
           RestBounded, Cost, Holds, Allowed
  <2>. QED
    BY <2>1, <2>2, <2>3, <2>4, <2>5, <2>6, <2>7, <2>8 DEF Next
<1>. QED
  BY Initially, <1>1, PTL DEF Spec

(* HeapTypeOK: the pointers, losses and calls keep their types.            *)
THEOREM HeapTypeCorrect == Spec => []HeapTypeOK
<1>1. HeapInv => HeapTypeOK
  BY DEF HeapInv
<1>. QED
  BY <1>1, HeapInvariant, PTL

(* FreedOnce: on no sequence of calls and failures is a block freed twice, *)
(* but for the instance that initSdkEnv freed itself.                      *)
THEOREM NeverFreedTwice == Spec => []FreedOnce
<1>1. HeapInv => FreedOnce
  BY DEF HeapInv
<1>. QED
  BY <1>1, HeapInvariant, PTL

(* SurvivorsKnown: freeSdkEnv leaves no path behind, and of the other      *)
(* blocks at most one for every initialisation.                            *)
THEOREM SurvivorsBounded == Spec => []SurvivorsKnown
<1>1. HeapInv => SurvivorsKnown
  BY DEF HeapInv
<1>. QED
  BY <1>1, HeapInvariant, PTL

(* PixelsLostPerPath: for any number of effects, images are lost only to   *)
(* changes of the path.                                                    *)
THEOREM PixelLossBounded == Spec => []PixelsLostPerPath
<1>1. HeapInv => PixelsLostPerPath
  BY DEF HeapInv
<1>. QED
  BY <1>1, HeapInvariant, PTL
=============================================================================
