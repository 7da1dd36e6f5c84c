------------------------- MODULE ImagePickerProofs -------------------------
(***************************************************************************)
(* Proofs about ImagePicker for any number of pickers and any results of   *)
(* the query.  LifeInv ties a picker's thread and its handler to its life  *)
(* cycle: a thread was started if and only if its picker was created, and  *)
(* a picker keeps its handler until it is destroyed.  From it follow the   *)
(* properties of the singleton and of a crash, and that a new thread finds *)
(* no message of its picker in the queue.                                  *)
(***************************************************************************)
EXTENDS ImagePicker, TLAPS

USE ResultsAssumption, NoPickerAssumption

-----------------------------------------------------------------------------
LEMMA TypeInit == Init => TypeOK
  BY DEF Init, TypeOK, NotStarted, Thread, CollectorRecord

(* What a thread becomes is a thread.                                      *)
LEMMA ThreadTyped ==
    ASSUME NEW pc \in {"none", "query", "rows", "done"},
           NEW context \in Picker \cup {NoPicker}
    PROVE  Thread(pc, context, << >>, 0) \in CollectorRecord
  BY DEF Thread, CollectorRecord

LEMMA QueueTyped ==
    ASSUME NEW S, NEW q \in Seq(S)
    PROVE  /\ \A m \in S : Append(q, m) \in Seq(S)
           /\ q # << >> => Tail(q) \in Seq(S) /\ Head(q) \in S
  OBVIOUS

(* A post keeps the types, if what is posted is a message.                 *)
LEMMA PostTyped ==
    ASSUME TypeOK, NEW a \in Picker, NEW what, NEW image, NEW next \in CollectorRecord,
           Post(a, what, image, next),
           [to |-> a, what |-> what, image |-> image] \in Message
    PROVE  TypeOK'
<1>1. collector' \in [Picker -> CollectorRecord]
  BY DEF Post, TypeOK
<1>2. queue' = queue \/ queue' = Append(queue, [to |-> a, what |-> what, image |-> image])
  BY DEF Post, PostTo
<1>3. queue \in Seq(Message)
  BY DEF TypeOK
<1>4. queue' \in Seq(Message)
  BY <1>2, <1>3, QueueTyped
<1>5. proc' \in {"running", "crashed"}
  BY DEF Post, TypeOK
<1>. QED
  BY <1>1, <1>4, <1>5 DEF Post, TypeOK

LEMMA TypeStep == TypeOK /\ [Next]_vars => TypeOK'
<1> SUFFICES ASSUME TypeOK, [Next]_vars PROVE TypeOK'
  OBVIOUS
<1>1. CASE UNCHANGED vars
  BY <1>1 DEF vars, TypeOK
<1>2. CASE Dispatch
  <2>1. queue # << >> /\ queue' = Tail(queue) /\ queue \in Seq(Message)
    BY <1>2 DEF Dispatch, HandleMessage, MessageForGonePicker, TypeOK
  <2>2. queue' \in Seq(Message) /\ Head(queue) \in Message
    BY <2>1, QueueTyped
  <2>3. CASE HandleMessage
    <3>1. Head(queue).to \in Picker
      BY <2>2 DEF Message
    <3>2. \A list \in Seq(Image) : Listed(list, Head(queue)) \in Seq(Image)
      BY <2>2 DEF Message, Listed
    <3>3. mDataSource' \in [Picker -> Seq(Image)]
      BY <2>3, <3>1, <3>2 DEF HandleMessage, TypeOK
    <3>. QED
      BY <2>2, <2>3, <3>3 DEF HandleMessage, TypeOK
  <2>4. CASE MessageForGonePicker
    BY <2>2, <2>4 DEF MessageForGonePicker, TypeOK
  <2>. QED
    BY <1>2, <2>3, <2>4 DEF Dispatch
<1>3. ASSUME NEW a \in Picker, OnCreate(a) PROVE TypeOK'
  <2>1. Thread("query", CollectorFor(a), << >>, 0) \in CollectorRecord
    BY ThreadTyped DEF CollectorFor, TypeOK
  <2>2. collector' \in [Picker -> CollectorRecord]
    BY <1>3, <2>1 DEF OnCreate, TypeOK
  <2>. QED
    BY <1>3, <2>2 DEF OnCreate, CollectorFor, TypeOK
<1>4. ASSUME NEW a \in Picker, NEW i \in DOMAIN mDataSource[a], OnItemClick(a, i)
      PROVE  TypeOK'
  <2>1. mDataSource[a][i] \in Image
    BY <1>4 DEF TypeOK
  <2>. QED
    BY <1>4, <2>1 DEF OnItemClick, TypeOK
<1>5. ASSUME NEW a \in Picker, Back(a) PROVE TypeOK'
  BY <1>5 DEF Back, TypeOK
<1>6. ASSUME NEW a \in Picker, OnDestroy(a) PROVE TypeOK'
  BY <1>6 DEF OnDestroy, CollectorAfterDestroy, TypeOK
<1>7. ASSUME NEW a \in Picker, NEW b \in Picker, Relaunch(a, b) PROVE TypeOK'
  <2>1. Thread("query", b, << >>, 0) \in CollectorRecord
    BY ThreadTyped
  <2>2. sInstance' = b /\ collector' \in [Picker -> CollectorRecord]
    BY <1>7, <2>1 DEF Relaunch, CollectorAfterDestroy, TypeOK
  <2>. QED
    BY <1>7, <2>2 DEF Relaunch, TypeOK
<1>8. ASSUME NEW a \in Picker, CollectorStep(a) PROVE TypeOK'
  <2>1. collector[a] \in CollectorRecord
    BY DEF TypeOK
  <2>2. [collector[a] EXCEPT !.pc = "done"] \in CollectorRecord
    BY <2>1 DEF CollectorRecord
  <2>3. CASE CollectorQuery(a)
    <3>1. PICK rows \in Results :
             collector' = [collector EXCEPT ![a] = [@ EXCEPT !.pc = "rows",
                                                             !.rows = rows, !.pos = 1]]
      BY <2>3, Zenon DEF CollectorQuery
    <3> DEFINE new == [collector[a] EXCEPT !.pc = "rows", !.rows = rows, !.pos = 1]
    <3>3. rows \in Seq(Image)
      BY ResultsAssumption
    <3>4. new \in CollectorRecord
      BY <2>1, <3>3 DEF CollectorRecord
    <3>5. collector' = [collector EXCEPT ![a] = new]
      BY <3>1, Zenon
    <3> HIDE DEF new
    <3>2. collector' \in [Picker -> CollectorRecord]
      BY <3>4, <3>5 DEF TypeOK
    <3>. QED
      BY <2>3, <3>2 DEF CollectorQuery, TypeOK
  <2>4. CASE CollectorError(a)
    BY <2>2, <2>4, PostTyped DEF CollectorError, Message
  <2>5. CASE CollectorProgress(a)
    <3> DEFINE row == collector[a].pos + 1
    <3>1. row \in Nat /\ collector[a].rows[row] \in Image
      BY <2>1, <2>5 DEF CollectorProgress, MoveToNext, CollectorRecord
    <3>2. [collector[a] EXCEPT !.pos = row] \in CollectorRecord
      BY <2>1, <3>1 DEF CollectorRecord
    <3>3. Post(a, "progress", collector[a].rows[row], [collector[a] EXCEPT !.pos = row])
      BY <2>5 DEF CollectorProgress
    <3>. QED
      BY <3>1, <3>2, <3>3, PostTyped DEF Message
  <2>6. CASE CollectorComplete(a)
    BY <2>2, <2>6, PostTyped DEF CollectorComplete, Message
  <2>. QED
    BY <1>8, <2>3, <2>4, <2>5, <2>6 DEF CollectorStep
<1>. QED
  BY <1>1, <1>2, <1>3, <1>4, <1>5, <1>6, <1>7, <1>8 DEF Next, User

(* Lists hold paths, the queue messages, whatever the threads interleave.  *)
THEOREM TypeCorrect == Spec => []TypeOK
  BY TypeInit, TypeStep, PTL DEF Spec

-----------------------------------------------------------------------------
(* The life cycle of a picker, its thread and its handler.                 *)
StartedWhenCreated ==
    \A a \in Picker : life[a] = "none" <=> collector[a].pc = "none"

HandlerHeld ==
    \A a \in Picker : life[a] \in {"open", "finishing"} => mHandler[a]

LifeInv == StartedWhenCreated /\ HandlerHeld /\ SingletonIsAlive /\ OnlyOrphansCrash

LEMMA LifeInit == Init => LifeInv
  BY DEF Init, NotStarted, Thread, LifeInv, StartedWhenCreated, HandlerHeld,
         SingletonIsAlive, OnlyOrphansCrash

(* A step of a picker's thread changes no life cycle, and loses the        *)
(* process only if the handler is gone.                                    *)
LEMMA CollectorLife ==
    ASSUME TypeOK, NEW a \in Picker, CollectorStep(a)
    PROVE  /\ Collecting(a) /\ proc = "running"
           /\ \/ /\ proc' = "running"
                 /\ collector' \in [Picker -> CollectorRecord]
                 /\ collector'[a].pc \in {"rows", "done"}
                 /\ \A b \in Picker \ {a} : collector'[b] = collector[b]
              \/ ~mHandler[a] /\ proc' = "crashed" /\ collector' = collector
           /\ UNCHANGED <<life, mHandler, sInstance>>
<1>1. TypeOK'
  BY TypeStep DEF Next
<1>2. collector[a] \in CollectorRecord
  BY DEF TypeOK
<1>3. CASE CollectorQuery(a)
  BY <1>1, <1>2, <1>3 DEF CollectorQuery, Collecting, CollectorRecord, TypeOK
<1>4. CASE CollectorError(a)
  BY <1>1, <1>2, <1>4 DEF CollectorError, Post, Collecting, CollectorRecord, TypeOK
<1>5. CASE CollectorProgress(a)
  BY <1>1, <1>2, <1>5 DEF CollectorProgress, Post, Collecting, CollectorRecord, TypeOK
<1>6. CASE CollectorComplete(a)
  BY <1>1, <1>2, <1>6 DEF CollectorComplete, Post, Collecting, CollectorRecord, TypeOK
<1>. QED
  BY <1>3, <1>4, <1>5, <1>6 DEF CollectorStep

(* A step of the user or the system on the UI thread: the process runs     *)
(* before and after.                                                       *)
LEMMA UserLife ==
    ASSUME TypeOK, LifeInv, NEW a \in Picker, User(a)
    PROVE  LifeInv'
<1>1. proc' = "running"
  BY DEF User, OnCreate, OnItemClick, Back, OnDestroy, Relaunch, TypeOK
<1>2. OnlyOrphansCrash'
  BY <1>1 DEF OnlyOrphansCrash
<1>3. CASE OnCreate(a)
  BY <1>2, <1>3 DEF OnCreate, CollectorFor, Thread, TypeOK, LifeInv, StartedWhenCreated,
                    HandlerHeld, SingletonIsAlive
<1>4. CASE Back(a) \/ \E i \in DOMAIN mDataSource[a] : OnItemClick(a, i)
  BY <1>2, <1>4 DEF Back, OnItemClick, TypeOK, LifeInv, StartedWhenCreated,
                    HandlerHeld, SingletonIsAlive
<1>5. CASE OnDestroy(a)
  BY <1>2, <1>5 DEF OnDestroy, CollectorAfterDestroy, TypeOK, LifeInv,
                    StartedWhenCreated, HandlerHeld, SingletonIsAlive
<1>6. ASSUME NEW b \in Picker, Relaunch(a, b) PROVE LifeInv'
  BY <1>2, <1>6 DEF Relaunch, CollectorAfterDestroy, Thread, TypeOK, LifeInv,
                    StartedWhenCreated, HandlerHeld, SingletonIsAlive
<1>. QED
  BY <1>3, <1>4, <1>5, <1>6 DEF User

LEMMA LifeStep == TypeOK /\ LifeInv /\ [Next]_vars => LifeInv'
<1> SUFFICES ASSUME TypeOK, LifeInv, [Next]_vars PROVE LifeInv'
  OBVIOUS
<1>1. CASE Dispatch \/ UNCHANGED vars
  BY <1>1 DEF Dispatch, HandleMessage, MessageForGonePicker, vars, LifeInv,
              StartedWhenCreated, HandlerHeld, SingletonIsAlive, OnlyOrphansCrash,
              Collecting
<1>2. ASSUME NEW a \in Picker, User(a) PROVE LifeInv'
  BY <1>2, UserLife
<1>3. ASSUME NEW a \in Picker, CollectorStep(a) PROVE LifeInv'
  <2>1. Collecting(a) /\ UNCHANGED <<life, mHandler, sInstance>>
    BY <1>3, CollectorLife
  <2>2. HandlerHeld' /\ SingletonIsAlive'
    BY <2>1 DEF LifeInv, HandlerHeld, SingletonIsAlive
  <2>3. life[a] # "none"
    BY <2>1 DEF LifeInv, StartedWhenCreated, Collecting
  <2>4. StartedWhenCreated'
    BY <1>3, <2>1, <2>3, CollectorLife DEF LifeInv, StartedWhenCreated
  <2>5. ASSUME proc' = "crashed" PROVE life[a] = "destroyed" /\ collector' = collector
    <3>1. ~mHandler[a] /\ collector' = collector
      BY <1>3, <2>5, CollectorLife
    <3>2. life[a] \in {"none", "open", "finishing", "destroyed"}
      BY DEF TypeOK
    <3>. QED
      BY <2>3, <3>1, <3>2 DEF LifeInv, HandlerHeld
  <2>6. OnlyOrphansCrash'
    BY <2>1, <2>5 DEF OnlyOrphansCrash, Collecting
  <2>. QED
    BY <2>2, <2>4, <2>6 DEF LifeInv
<1>. QED
  BY <1>1, <1>2, <1>3 DEF Next

(* ImageCollector.sInstance never refers to a destroyed picker, however    *)
(* onCreate and onDestroy of two pickers overlap.                          *)
THEOREM SingletonAlwaysAlive == Spec => []SingletonIsAlive
<1>1. LifeInv => SingletonIsAlive
  BY DEF LifeInv
<1>. QED
  BY <1>1, TypeInit, TypeStep, LifeInit, LifeStep, PTL DEF Spec

(* Only the thread of a picker that is destroyed while it collects meets a *)
(* handler that is null.                                                   *)
THEOREM OrphansAloneCrash == Spec => []OnlyOrphansCrash
<1>1. LifeInv => OnlyOrphansCrash
  BY DEF LifeInv
<1>. QED
  BY <1>1, TypeInit, TypeStep, LifeInit, LifeStep, PTL DEF Spec

-----------------------------------------------------------------------------
(* The queue.  EndComesLast is inductive over LifeInv: a thread that posts *)
(* is not done, so the queue holds no end of it; a new picker's thread was *)
(* not started, so none either; and a message leaves at the head.          *)
LEMMA EndPosted ==
    ASSUME TypeOK, EndComesLast, NEW a \in Picker, NEW what, NEW image,
           NEW next \in CollectorRecord,
           Collecting(a), Post(a, what, image, next),
           what # "progress" => next.pc = "done"
    PROVE  EndComesLast'
<1> DEFINE m == [to |-> a, what |-> what, image |-> image]
<1>1. CASE queue' = queue /\ collector' = collector
  BY <1>1 DEF EndComesLast
<1>2. CASE queue' = Append(queue, m) /\ collector' = [collector EXCEPT ![a] = next]
  <2>1. queue \in Seq(Message) /\ \A i \in DOMAIN queue : queue[i].to \in Picker
    BY DEF TypeOK, Message
  <2>2. \A i \in DOMAIN queue :
           queue[i].what # "progress" => queue[i].to # a /\ collector[queue[i].to].pc = "done"
    BY DEF EndComesLast, Collecting
  <2>3. \A i \in DOMAIN queue' : i \in DOMAIN queue \/ i = Len(queue) + 1
    BY <1>2, <2>1
  <2>4. /\ \A i \in DOMAIN queue : queue'[i] = queue[i]
        /\ queue'[Len(queue) + 1] = m
    BY <1>2, <2>1
  <2>5. collector'[a] = next /\ \A b \in Picker \ {a} : collector'[b] = collector[b]
    BY <1>2 DEF TypeOK
  <2> SUFFICES ASSUME NEW i \in DOMAIN queue', NEW j \in DOMAIN queue',
                      queue'[i].to = queue'[j].to, queue'[i].what # "progress"
               PROVE  j <= i /\ collector'[queue'[i].to].pc = "done"
    BY DEF EndComesLast
  <2>6. CASE i = Len(queue) + 1
    <3>1. queue'[i].to = a /\ next.pc = "done"
      BY <2>4, <2>6
    <3>2. j <= i
      BY <2>1, <2>3, <2>6
    <3>. QED
      BY <2>5, <3>1, <3>2
  <2>7. CASE i \in DOMAIN queue
    <3>1. queue'[i] = queue[i] /\ queue[i].to # a /\ collector[queue[i].to].pc = "done"
      BY <2>2, <2>4, <2>7
    <3>2. j # Len(queue) + 1
      BY <2>4, <3>1
    <3>3. j \in DOMAIN queue /\ queue'[j] = queue[j]
      BY <2>3, <2>4, <3>2
    <3>4. j <= i
      BY <2>7, <3>1, <3>3 DEF EndComesLast
    <3>. QED
      BY <2>1, <2>5, <2>7, <3>1, <3>4
  <2>. QED
    BY <2>3, <2>6, <2>7
<1>. QED
  BY <1>1, <1>2 DEF Post, PostTo

LEMMA EndInit == Init => EndComesLast
  BY DEF Init, EndComesLast

LEMMA EndStep == TypeOK /\ LifeInv /\ EndComesLast /\ [Next]_vars => EndComesLast'
<1> SUFFICES ASSUME TypeOK, LifeInv, EndComesLast, [Next]_vars PROVE EndComesLast'
  OBVIOUS
<1>1. CASE UNCHANGED vars
  BY <1>1 DEF vars, EndComesLast
<1>2. CASE Dispatch
  <2>1. /\ queue \in Seq(Message) /\ queue # << >>
        /\ queue' = Tail(queue) /\ collector' = collector
    BY <1>2 DEF Dispatch, HandleMessage, MessageForGonePicker, TypeOK
  <2>2. \A i \in DOMAIN queue' : i \in Nat /\ i + 1 \in DOMAIN queue /\ queue'[i] = queue[i + 1]
    BY <2>1
  <2> SUFFICES ASSUME NEW i \in DOMAIN queue', NEW j \in DOMAIN queue',
                      queue'[i].to = queue'[j].to, queue'[i].what # "progress"
               PROVE  j <= i /\ collector'[queue'[i].to].pc = "done"
    BY DEF EndComesLast
  <2>3. j + 1 <= i + 1 /\ collector[queue[i + 1].to].pc = "done"
    BY <2>2 DEF EndComesLast
  <2>. QED
    BY <2>1, <2>2, <2>3
<1>3. ASSUME NEW a \in Picker, User(a) PROVE EndComesLast'
  <2>1. queue' = queue /\ \A b \in Picker :
           collector[b].pc # "none" => collector'[b] = collector[b]
    BY <1>3 DEF User, OnCreate, OnItemClick, Back, OnDestroy, Relaunch, TypeOK, LifeInv,
                StartedWhenCreated
  <2>2. \A i \in DOMAIN queue : queue[i].to \in Picker
    BY DEF TypeOK, Message
  <2>. QED
    BY <2>1, <2>2 DEF EndComesLast
<1>4. ASSUME NEW a \in Picker, CollectorStep(a) PROVE EndComesLast'
  <2>1. collector[a] \in CollectorRecord /\ Collecting(a)
    BY <1>4, CollectorLife DEF TypeOK
  <2>2. /\ [collector[a] EXCEPT !.pc = "done"] \in CollectorRecord
        /\ [collector[a] EXCEPT !.pc = "done"].pc = "done"
    BY <2>1 DEF CollectorRecord
  <2>3. CASE CollectorQuery(a)
    <3>1. queue' = queue /\ \A b \in Picker \ {a} : collector'[b] = collector[b]
      BY <2>3 DEF CollectorQuery, TypeOK
    <3>2. \A i \in DOMAIN queue : queue[i].to \in Picker
      BY DEF TypeOK, Message
    <3>. QED
      BY <2>1, <3>1, <3>2 DEF EndComesLast, Collecting
  <2>4. CASE CollectorError(a)
    BY <2>1, <2>2, <2>4, EndPosted DEF CollectorError
  <2>5. CASE CollectorProgress(a)
    <3>1. [collector[a] EXCEPT !.pos = collector[a].pos + 1] \in CollectorRecord
      BY <2>1 DEF CollectorRecord
    <3>. QED
      BY <2>1, <2>5, <3>1, EndPosted DEF CollectorProgress
  <2>6. CASE CollectorComplete(a)
    BY <2>1, <2>2, <2>6, EndPosted DEF CollectorComplete
  <2>. QED
    BY <1>4, <2>3, <2>4, <2>5, <2>6 DEF CollectorStep
<1>. QED
  BY <1>1, <1>2, <1>3, <1>4 DEF Next

(* A picker that is told that the collection has ended has been told every *)
(* path before, whatever other threads post to the same queue.             *)
THEOREM EndAlwaysLast == Spec => []EndComesLast
  BY TypeInit, TypeStep, LifeInit, LifeStep, EndInit, EndStep, PTL DEF Spec

-----------------------------------------------------------------------------
(* The rows of a picker.  A queue whose paths for a are rows from .. to:   *)
(* another's message, or the end of a collection, changes nothing at       *)
(* either end; a path posted by a is row to + 1; one taken from the head   *)
(* is row from.                                                            *)
LEMMA WaitingPost ==
    ASSUME NEW q \in Seq(Message), NEW m \in Message, NEW a, NEW rows,
           NEW from \in Nat, NEW to \in Nat, Waiting(q, a, rows, from, to)
    PROVE  /\ ~IsPath(m, a) => Waiting(Append(q, m), a, rows, from, to)
           /\ /\ from <= to + 1
              /\ m = [to |-> a, what |-> "progress", image |-> rows[to + 1]]
              => Waiting(Append(q, m), a, rows, from, to + 1)
<1> DEFINE p == Append(q, m)
           n == Len(q) + 1
<1>1. /\ DOMAIN q = 1 .. Len(q) /\ DOMAIN p = 1 .. n /\ Len(q) \in Nat
      /\ \A k \in DOMAIN q : p[k] = q[k]
      /\ p[n] = m
  OBVIOUS
<1>2. PICK place \in [from .. to -> DOMAIN q] :
         /\ \A i, j \in from .. to : i < j => place[i] < place[j]
         /\ \A i \in from .. to :
               q[place[i]] = [to |-> a, what |-> "progress", image |-> rows[i]]
         /\ \A k \in DOMAIN q :
               IsPath(q[k], a) => \E i \in from .. to : place[i] = k
  BY DEF Waiting, IsPath
<1>3. ASSUME ~IsPath(m, a) PROVE Waiting(p, a, rows, from, to)
  <2>1. place \in [from .. to -> DOMAIN p]
    BY <1>1
  <2>2. \A i \in from .. to :
           p[place[i]] = [to |-> a, what |-> "progress", image |-> rows[i]]
    BY <1>1, <1>2
  <2>3. \A k \in DOMAIN p : IsPath(p[k], a) => k \in DOMAIN q
    BY <1>1, <1>3
  <2>4. \A k \in DOMAIN p : IsPath(p[k], a) => \E i \in from .. to : place[i] = k
    BY <1>1, <1>2, <2>3
  <2>. QED
    BY <1>2, <2>1, <2>2, <2>4 DEF Waiting, IsPath
<1>4. ASSUME from <= to + 1,
             m = [to |-> a, what |-> "progress", image |-> rows[to + 1]]
      PROVE  Waiting(p, a, rows, from, to + 1)
  <2> DEFINE longer == [i \in from .. to + 1 |-> IF i = to + 1 THEN n ELSE place[i]]
  <2>1. \A i \in from .. to + 1 : i = to + 1 \/ i \in from .. to
    OBVIOUS
  <2>2. /\ to + 1 \in from .. to + 1 /\ longer[to + 1] = n
        /\ \A i \in from .. to : i \in from .. to + 1 /\ longer[i] = place[i]
    BY <1>4
  <2>3. longer \in [from .. to + 1 -> DOMAIN p]
    BY <1>1, <2>1
  <2>4. \A i, j \in from .. to + 1 : i < j => longer[i] < longer[j]
    <3> SUFFICES ASSUME NEW i \in from .. to + 1, NEW j \in from .. to + 1, i < j
                 PROVE  longer[i] < longer[j]
      OBVIOUS
    <3>1. i \in from .. to /\ longer[i] = place[i] /\ place[i] \in 1 .. Len(q)
      BY <1>1, <2>1, <2>2
    <3>2. CASE j = to + 1
      BY <1>1, <2>2, <3>1, <3>2
    <3>3. CASE j \in from .. to
      BY <1>2, <2>2, <3>1, <3>3
    <3>. QED
      BY <2>1, <3>2, <3>3
  <2>5. \A i \in from .. to + 1 :
           p[longer[i]] = [to |-> a, what |-> "progress", image |-> rows[i]]
    <3> SUFFICES ASSUME NEW i \in from .. to + 1
                 PROVE  p[longer[i]] = [to |-> a, what |-> "progress", image |-> rows[i]]
      OBVIOUS
    <3>1. CASE i = to + 1
      BY <1>1, <1>4, <2>2, <3>1
    <3>2. CASE i \in from .. to
      BY <1>1, <1>2, <2>2, <3>2
    <3>. QED
      BY <2>1, <3>1, <3>2
  <2>6. ASSUME NEW k \in DOMAIN p, IsPath(p[k], a)
        PROVE  \E i \in from .. to + 1 : longer[i] = k
    <3>1. CASE k = n
      BY <2>2, <3>1
    <3>2. CASE k \in DOMAIN q
      BY <1>1, <1>2, <2>2, <2>6, <3>2
    <3>. QED
      BY <1>1, <3>1, <3>2
  <2>. QED
    BY <2>3, <2>4, <2>5, <2>6 DEF Waiting, IsPath
<1>. QED
  BY <1>3, <1>4

LEMMA WaitingTake ==
    ASSUME NEW q \in Seq(Message), q # << >>, NEW a, NEW rows,
           NEW from \in Nat, NEW to \in Nat, Waiting(q, a, rows, from, to)
    PROVE  /\ ~IsPath(Head(q), a) => Waiting(Tail(q), a, rows, from, to)
           /\ IsPath(Head(q), a) =>
                 /\ from <= to /\ Head(q).image = rows[from]
                 /\ Waiting(Tail(q), a, rows, from + 1, to)
<1> DEFINE t == Tail(q)
<1>1. /\ DOMAIN q = 1 .. Len(q) /\ DOMAIN t = 1 .. Len(q) - 1 /\ Len(q) \in Nat \ {0}
      /\ \A k \in DOMAIN q : k # 1 => k - 1 \in DOMAIN t /\ t[k - 1] = q[k]
      /\ \A k \in DOMAIN t : k + 1 \in DOMAIN q /\ t[k] = q[k + 1]
      /\ Head(q) = q[1]
  OBVIOUS
<1>2. PICK place \in [from .. to -> DOMAIN q] :
         /\ \A i, j \in from .. to : i < j => place[i] < place[j]
         /\ \A i \in from .. to :
               q[place[i]] = [to |-> a, what |-> "progress", image |-> rows[i]]
         /\ \A k \in DOMAIN q :
               IsPath(q[k], a) => \E i \in from .. to : place[i] = k
  BY DEF Waiting, IsPath
<1>3. ASSUME NEW first \in {from, from + 1},
             \A i \in first .. to : place[i] # 1,
             \A k \in DOMAIN q :
                k # 1 /\ IsPath(q[k], a) => \E i \in first .. to : place[i] = k
      PROVE  Waiting(t, a, rows, first, to)
  <2> DEFINE moved == [i \in first .. to |-> place[i] - 1]
  <2>1. \A i \in first .. to : i \in from .. to /\ place[i] \in DOMAIN q
    BY <1>2
  <2>2. moved \in [first .. to -> DOMAIN t]
    BY <1>1, <1>3, <2>1
  <2>3. \A i, j \in first .. to : i < j => moved[i] < moved[j]
    <3> SUFFICES ASSUME NEW i \in first .. to, NEW j \in first .. to, i < j
                 PROVE  place[i] - 1 < place[j] - 1
      OBVIOUS
    <3>1. place[i] < place[j] /\ place[i] \in Nat /\ place[j] \in Nat
      BY <1>1, <1>2, <2>1
    <3>. QED
      BY <3>1
  <2>4. \A i \in first .. to :
           t[moved[i]] = [to |-> a, what |-> "progress", image |-> rows[i]]
    BY <1>1, <1>2, <1>3, <2>1
  <2>5. ASSUME NEW k \in DOMAIN t, IsPath(t[k], a)
        PROVE  \E i \in first .. to : moved[i] = k
    <3>1. k + 1 \in DOMAIN q /\ k + 1 # 1 /\ IsPath(q[k + 1], a) /\ k \in Nat
      BY <1>1, <2>5
    <3>2. PICK i \in first .. to : place[i] = k + 1
      BY <1>3, <3>1
    <3>3. moved[i] = (k + 1) - 1
      BY <3>2
    <3>. QED
      BY <3>1, <3>3
  <2>. QED
    BY <2>2, <2>3, <2>4, <2>5 DEF Waiting, IsPath
<1>4. ASSUME ~IsPath(Head(q), a) PROVE Waiting(t, a, rows, from, to)
  <2>1. ASSUME NEW i \in from .. to, place[i] = 1 PROVE FALSE
    <3>1. q[1] = [to |-> a, what |-> "progress", image |-> rows[i]]
      BY <1>2, <2>1
    <3>. QED
      BY <1>1, <1>4, <3>1 DEF IsPath
  <2>2. \A k \in DOMAIN q :
           k # 1 /\ IsPath(q[k], a) => \E i \in from .. to : place[i] = k
    BY <1>2
  <2>3. from \in {from, from + 1}
    OBVIOUS
  <2>. QED
    BY <1>3, <2>1, <2>2, <2>3
<1>5. ASSUME IsPath(Head(q), a)
      PROVE  /\ from <= to /\ Head(q).image = rows[from]
             /\ Waiting(t, a, rows, from + 1, to)
  <2>1. PICK i \in from .. to : place[i] = 1
    BY <1>1, <1>2, <1>5
  <2>2. from \in from .. to
    BY <2>1
  <2>3. i = from
    <3> SUFFICES ASSUME from < i PROVE FALSE
      BY <2>1
    <3>1. place[from] < place[i] /\ place[from] \in 1 .. Len(q)
      BY <1>1, <1>2, <2>1, <2>2
    <3>. QED
      BY <2>1, <3>1
  <2>4. Head(q).image = rows[from]
    <3>1. q[1] = [to |-> a, what |-> "progress", image |-> rows[from]]
      BY <1>2, <2>1, <2>3
    <3>. QED
      BY <1>1, <3>1
  <2>5. \A j \in from + 1 .. to : place[j] # 1
    <3> SUFFICES ASSUME NEW j \in from + 1 .. to, place[j] = 1 PROVE FALSE
      OBVIOUS
    <3>1. j \in from .. to /\ from < j
      OBVIOUS
    <3>2. place[from] < place[j]
      BY <1>2, <2>2, <3>1
    <3>. QED
      BY <2>1, <2>3, <3>2
  <2>6. \A k \in DOMAIN q :
           k # 1 /\ IsPath(q[k], a) => \E j \in from + 1 .. to : place[j] = k
    <3> SUFFICES ASSUME NEW k \in DOMAIN q, k # 1, IsPath(q[k], a)
                 PROVE  \E j \in from + 1 .. to : place[j] = k
      OBVIOUS
    <3>1. PICK j \in from .. to : place[j] = k
      BY <1>2
    <3>2. j # from
      BY <2>1, <2>3, <3>1
    <3>. QED
      BY <3>1, <3>2
  <2>7. from + 1 \in {from, from + 1} /\ from <= to
    BY <2>2
  <2>8. Waiting(t, a, rows, from + 1, to)
    BY <1>3, <2>5, <2>6, <2>7
  <2>. QED
    BY <2>4, <2>7, <2>8
<1>. QED
  BY <1>4, <1>5

(* When nothing is waiting the rows do not matter.                         *)
LEMMA WaitingNone ==
    ASSUME NEW q, NEW a, NEW rows, NEW from \in Nat, NEW to \in Nat, from > to,
           Waiting(q, a, rows, from, to),
           NEW other, NEW first \in Nat, NEW last \in Nat, first > last
    PROVE  Waiting(q, a, other, first, last)
<1>1. from .. to = {} /\ first .. last = {}
  OBVIOUS
<1>2. \A k \in DOMAIN q : ~IsPath(q[k], a)
  BY <1>1 DEF Waiting
<1>3. [i \in first .. last |-> 0] \in [first .. last -> DOMAIN q]
  BY <1>1
<1>. QED
  BY <1>1, <1>2, <1>3 DEF Waiting

-----------------------------------------------------------------------------
(* The cursor stands before the first row until the query has answered.    *)
CursorInv ==
    \A a \in Picker :
       /\ collector[a].pc \in {"none", "query"} => collector[a].pos = 0
       /\ collector[a].pc = "rows" => collector[a].pos # 0

(* What ListsOwnRows says of one picker.                                   *)
OwnRows(a) ==
    /\ \A i \in DOMAIN mDataSource[a] :
          i < collector[a].pos /\ mDataSource[a][i] = collector[a].rows[i + 1]
    /\ Waiting(queue, a, collector[a].rows, Len(mDataSource[a]) + 2, collector[a].pos)

RowsInv == CursorInv /\ ListsOwnRows

LEMMA RowsPerPicker ==
    ListsOwnRows <=> \A a \in Picker : life[a] # "destroyed" => OwnRows(a)
  BY DEF ListsOwnRows, OwnRows

LEMMA RowsInit == Init => RowsInv
<1> SUFFICES ASSUME Init PROVE RowsInv
  OBVIOUS
<1>1. CursorInv
  BY DEF Init, CursorInv, NotStarted, Thread
<1>2. ASSUME NEW a \in Picker PROVE OwnRows(a)
  <2>1. queue = << >> /\ mDataSource[a] = << >> /\ collector[a].pos = 0
    BY DEF Init, NotStarted, Thread
  <2>2. DOMAIN queue = {} /\ Len(mDataSource[a]) + 2 .. collector[a].pos = {}
    BY <2>1
  <2>3. [i \in {} |-> 0] \in [{} -> DOMAIN queue]
    OBVIOUS
  <2>4. Waiting(queue, a, collector[a].rows, Len(mDataSource[a]) + 2, collector[a].pos)
    BY <2>2, <2>3 DEF Waiting
  <2>. QED
    BY <2>1, <2>4 DEF OwnRows
<1>. QED
  BY <1>1, <1>2, RowsPerPicker DEF RowsInv

(* A picker whose list, thread and paths in the queue stay as they are     *)
(* keeps its rows; one whose thread has not read a row may start anew.     *)
LEMMA RowsKept ==
    ASSUME NEW a \in Picker, OwnRows(a),
           UNCHANGED <<queue, mDataSource[a], collector[a]>>
    PROVE  OwnRows(a)'
  BY DEF OwnRows

LEMMA RowsRestarted ==
    ASSUME TypeOK, TypeOK', NEW a \in Picker, OwnRows(a),
           collector[a].pos = 0, collector'[a].pos \in {0, 1},
           UNCHANGED <<queue, mDataSource[a]>>
    PROVE  OwnRows(a)'
<1>1. mDataSource[a] \in Seq(Image)
  BY DEF TypeOK
<1>2. DOMAIN mDataSource[a] = {} /\ Len(mDataSource[a]) = 0
  <2>1. \A i \in DOMAIN mDataSource[a] : i \in Nat \ {0} /\ ~(i < 0)
    BY <1>1
  <2>2. DOMAIN mDataSource[a] = {}
    BY <2>1 DEF OwnRows
  <2>3. DOMAIN mDataSource[a] = 1 .. Len(mDataSource[a]) /\ Len(mDataSource[a]) \in Nat
    BY <1>1
  <2>4. Len(mDataSource[a]) # 0 => 1 \in 1 .. Len(mDataSource[a])
    BY <2>3
  <2>. QED
    BY <2>2, <2>3, <2>4
<1>3. Waiting(queue, a, collector[a].rows, 2, 0)
  <2>1. Len(mDataSource[a]) + 2 = 2
    BY <1>2
  <2>. QED
    BY <2>1 DEF OwnRows
<1>4. Waiting(queue, a, collector'[a].rows, 2, collector'[a].pos)
  <2>1. CASE collector'[a].pos = 0
    BY <1>3, <2>1, WaitingNone
  <2>2. CASE collector'[a].pos = 1
    BY <1>3, <2>2, WaitingNone
  <2>. QED
    BY <2>1, <2>2
<1>. QED
  BY <1>2, <1>4 DEF OwnRows

LEMMA RowsUser ==
    ASSUME TypeOK, TypeOK', LifeInv, RowsInv, NEW a \in Picker, User(a)
    PROVE  RowsInv'
<1>1. \A b \in Picker : collector[b].pc # "none" => collector'[b] = collector[b]
  BY DEF User, OnCreate, OnItemClick, Back, OnDestroy, Relaunch, TypeOK, LifeInv,
         StartedWhenCreated
<1>2. \A b \in Picker : \/ collector'[b] = collector[b]
                        \/ collector'[b].pc = "query" /\ collector'[b].pos = 0
  BY DEF User, OnCreate, OnItemClick, Back, OnDestroy, Relaunch, Thread, TypeOK
<1>3. UNCHANGED <<queue, mDataSource>>
  BY DEF User, OnCreate, OnItemClick, Back, OnDestroy, Relaunch
<1>4. \A b \in Picker : life'[b] # "destroyed" => life[b] # "destroyed"
  BY DEF User, OnCreate, OnItemClick, Back, OnDestroy, Relaunch, TypeOK
<1>5. CursorInv'
  BY <1>2 DEF RowsInv, CursorInv
<1>6. ASSUME NEW b \in Picker, life'[b] # "destroyed" PROVE OwnRows(b)'
  <2>1. OwnRows(b)
    BY <1>4, <1>6, RowsPerPicker DEF RowsInv
  <2>2. CASE collector'[b] = collector[b]
    BY <1>3, <2>1, <2>2, RowsKept
  <2>3. CASE collector'[b] # collector[b]
    <3>1. collector[b].pos = 0 /\ collector'[b].pos = 0
      BY <1>1, <1>2, <2>3 DEF RowsInv, CursorInv
    <3>. QED
      BY <1>3, <2>1, <3>1, RowsRestarted
  <2>. QED
    BY <2>2, <2>3
<1>7. (ListsOwnRows <=> \A b \in Picker : life[b] # "destroyed" => OwnRows(b))'
  BY DEF ListsOwnRows, OwnRows
<1>. QED
  BY <1>5, <1>6, <1>7 DEF RowsInv

(* A thread's step: only a path that is posted adds a row, and only to the *)
(* picker that posts it.                                                   *)
LEMMA RowsOfOthers ==
    ASSUME TypeOK, NEW a \in Picker, NEW b \in Picker \ {a}, NEW what, NEW image,
           NEW next, [to |-> a, what |-> what, image |-> image] \in Message,
           Post(a, what, image, next), OwnRows(b)
    PROVE  OwnRows(b)'
<1> DEFINE m == [to |-> a, what |-> what, image |-> image]
<1>1. UNCHANGED <<mDataSource[b], collector[b]>>
  BY DEF Post, TypeOK
<1>2. queue' = queue \/ queue' = Append(queue, m)
  BY DEF Post, PostTo
<1>3. ~IsPath(m, b)
  BY DEF IsPath
<1>4. /\ queue \in Seq(Message) /\ collector[b].pos \in Nat
      /\ Len(mDataSource[b]) + 2 \in Nat
  BY DEF TypeOK, CollectorRecord
<1>5. Waiting(queue', b, collector[b].rows, Len(mDataSource[b]) + 2, collector[b].pos)
  BY <1>2, <1>3, <1>4, WaitingPost DEF OwnRows
<1>. QED
  BY <1>1, <1>5 DEF OwnRows

LEMMA RowsAtEnd ==
    ASSUME TypeOK, NEW a \in Picker, NEW what \in {"complete", "error"},
           Post(a, what, NoImage, [collector[a] EXCEPT !.pc = "done"]), OwnRows(a)
    PROVE  OwnRows(a)'
<1> DEFINE m == [to |-> a, what |-> what, image |-> NoImage]
<1>1. collector[a] \in CollectorRecord
  BY DEF TypeOK
<1>2. /\ collector'[a].pos = collector[a].pos
      /\ collector'[a].rows = collector[a].rows
      /\ UNCHANGED mDataSource
  BY <1>1 DEF Post, TypeOK, CollectorRecord
<1>3. queue' = queue \/ queue' = Append(queue, m)
  BY DEF Post, PostTo
<1>4. ~IsPath(m, a) /\ m \in Message
  BY DEF IsPath, Message
<1>5. /\ queue \in Seq(Message) /\ collector[a].pos \in Nat
      /\ Len(mDataSource[a]) + 2 \in Nat
  BY <1>1 DEF TypeOK, CollectorRecord
<1>6. Waiting(queue', a, collector[a].rows, Len(mDataSource[a]) + 2, collector[a].pos)
  BY <1>3, <1>4, <1>5, WaitingPost DEF OwnRows
<1>. QED
  BY <1>2, <1>6 DEF OwnRows

LEMMA RowsProgress ==
    ASSUME TypeOK, CursorInv, NEW a \in Picker, CollectorProgress(a), OwnRows(a)
    PROVE  OwnRows(a)'
<1> DEFINE pos == collector[a].pos
           rows == collector[a].rows
           list == mDataSource[a]
           m == [to |-> a, what |-> "progress", image |-> rows[pos + 1]]
<1>1. collector[a] \in CollectorRecord /\ pos \in Nat \ {0}
  BY DEF CollectorProgress, CursorInv, TypeOK, CollectorRecord
<1>2. Post(a, "progress", rows[pos + 1], [collector[a] EXCEPT !.pos = pos + 1])
  BY DEF CollectorProgress
<1>3. UNCHANGED mDataSource
  BY <1>2 DEF Post
<1>4. CASE queue' = queue /\ collector' = collector
  BY <1>3, <1>4, RowsKept
<1>5. CASE /\ queue' = Append(queue, m)
           /\ collector' = [collector EXCEPT ![a] = [collector[a] EXCEPT !.pos = pos + 1]]
  <2>1. collector'[a].pos = pos + 1 /\ collector'[a].rows = rows
    BY <1>1, <1>5 DEF TypeOK, CollectorRecord
  <2>2. list \in Seq(Image) /\ queue \in Seq(Message)
    BY DEF TypeOK
  <2>3. rows[pos + 1] \in Image
    BY <1>1 DEF CollectorProgress, MoveToNext, CollectorRecord
  <2>4. m \in Message
    BY <2>3 DEF Message
  <2>5. Len(list) + 2 <= pos + 1
    <3>1. \A i \in DOMAIN list : i < pos
      BY DEF OwnRows
    <3>2. Len(list) = 0 \/ Len(list) \in DOMAIN list
      BY <2>2
    <3>3. Len(list) \in Nat
      BY <2>2
    <3>. QED
      BY <1>1, <3>1, <3>2, <3>3
  <2>6. Waiting(Append(queue, m), a, rows, Len(list) + 2, pos + 1)
    <3>1. Waiting(queue, a, rows, Len(list) + 2, pos) /\ Len(list) + 2 \in Nat
      BY <2>2 DEF OwnRows
    <3>. QED
      BY <1>1, <2>2, <2>4, <2>5, <3>1, WaitingPost
  <2>7. \A i \in DOMAIN list : i < pos + 1 /\ list[i] = rows[i + 1]
    <3>1. \A i \in DOMAIN list : i \in Nat /\ i < pos /\ list[i] = rows[i + 1]
      BY <2>2 DEF OwnRows
    <3>. QED
      BY <1>1, <3>1
  <2>. QED
    BY <1>3, <1>5, <2>1, <2>6, <2>7 DEF OwnRows
<1>. QED
  BY <1>2, <1>4, <1>5 DEF Post, PostTo

LEMMA RowsCollector ==
    ASSUME TypeOK, TypeOK', LifeInv, RowsInv, NEW a \in Picker, CollectorStep(a)
    PROVE  RowsInv'
<1>1. collector[a] \in CollectorRecord /\ UNCHANGED life
  BY CollectorLife DEF TypeOK
<1>2. CursorInv'
  <2>1. \A b \in Picker \ {a} : collector'[b] = collector[b]
    BY CollectorLife
  <2>2. \/ collector'[a] = collector[a]
        \/ collector'[a].pc = "done"
        \/ collector'[a].pc = "rows" /\ collector'[a].pos # 0
    <3>1. CASE CollectorQuery(a)
      BY <1>1, <3>1 DEF CollectorQuery, TypeOK, CollectorRecord
    <3>2. CASE CollectorError(a) \/ CollectorComplete(a)
      BY <1>1, <3>2 DEF CollectorError, CollectorComplete, Post, TypeOK, CollectorRecord
    <3>3. CASE CollectorProgress(a)
      BY <1>1, <3>3 DEF CollectorProgress, Post, TypeOK, CollectorRecord
    <3>. QED
      BY <3>1, <3>2, <3>3 DEF CollectorStep
  <2>. QED
    BY <2>1, <2>2 DEF RowsInv, CursorInv
<1>3. ASSUME NEW b \in Picker, OwnRows(b) PROVE OwnRows(b)'
  <2>1. CASE CollectorQuery(a)
    <3>1. UNCHANGED <<queue, mDataSource>>
      BY <2>1 DEF CollectorQuery
    <3>2. CASE b # a
      <4>1. collector'[b] = collector[b]
        BY <3>2, CollectorLife
      <4>. QED
        BY <1>3, <3>1, <4>1, RowsKept
    <3>3. CASE b = a
      <4>1. collector[a].pos = 0
        BY <2>1 DEF CollectorQuery, RowsInv, CursorInv
      <4>2. collector'[a].pos = 1
        BY <1>1, <2>1 DEF CollectorQuery, TypeOK, CollectorRecord
      <4>. QED
        BY <1>3, <3>1, <3>3, <4>1, <4>2, RowsRestarted
    <3>. QED
      BY <3>2, <3>3
  <2>2. CASE CollectorError(a) \/ CollectorComplete(a)
    <3>1. PICK what \in {"complete", "error"} :
             Post(a, what, NoImage, [collector[a] EXCEPT !.pc = "done"])
      BY <2>2 DEF CollectorError, CollectorComplete
    <3>2. [to |-> a, what |-> what, image |-> NoImage] \in Message
      BY DEF Message
    <3>. QED
      BY <1>3, <3>1, <3>2, RowsAtEnd, RowsOfOthers
  <2>3. CASE CollectorProgress(a)
    <3> DEFINE row == collector[a].pos + 1
    <3>1. Post(a, "progress", collector[a].rows[row], [collector[a] EXCEPT !.pos = row])
      BY <2>3 DEF CollectorProgress
    <3>2. collector[a].rows[row] \in Image
      BY <1>1, <2>3 DEF CollectorProgress, MoveToNext, CollectorRecord
    <3>3. [to |-> a, what |-> "progress", image |-> collector[a].rows[row]] \in Message
      BY <3>2 DEF Message
    <3>4. CursorInv
      BY DEF RowsInv
    <3>. QED
      BY <1>3, <2>3, <3>1, <3>3, <3>4, RowsProgress, RowsOfOthers
  <2>. QED
    BY <2>1, <2>2, <2>3 DEF CollectorStep
<1>4. (ListsOwnRows <=> \A b \in Picker : life[b] # "destroyed" => OwnRows(b))'
  BY DEF ListsOwnRows, OwnRows
<1>5. \A b \in Picker : life[b] # "destroyed" => OwnRows(b)
  BY RowsPerPicker DEF RowsInv
<1>. QED
  BY <1>1, <1>2, <1>3, <1>4, <1>5 DEF RowsInv

(* The looper takes the head: the path of a picker that is not destroyed   *)
(* is listed; any other message leaves the list as it is.                  *)
LEMMA RowsDispatch ==
    ASSUME TypeOK, TypeOK', RowsInv, Dispatch
    PROVE  RowsInv'
<1> DEFINE m == Head(queue)
<1>1. /\ queue \in Seq(Message) /\ queue # << >> /\ queue' = Tail(queue)
      /\ m \in Message /\ UNCHANGED <<life, collector>>
  BY QueueTyped DEF Dispatch, HandleMessage, MessageForGonePicker, TypeOK
<1>2. ASSUME NEW b \in Picker, life[b] # "destroyed", OwnRows(b) PROVE OwnRows(b)'
  <2> DEFINE pos == collector[b].pos
             rows == collector[b].rows
             list == mDataSource[b]
             from == Len(list) + 2
  <2>1. list \in Seq(Image) /\ Len(list) \in Nat /\ from \in Nat /\ pos \in Nat
    BY DEF TypeOK, CollectorRecord
  <2>2. /\ ~IsPath(m, b) => Waiting(queue', b, rows, from, pos)
        /\ IsPath(m, b) =>
              from <= pos /\ m.image = rows[from] /\ Waiting(queue', b, rows, from + 1, pos)
    <3>1. Waiting(queue, b, rows, from, pos)
      BY <1>2 DEF OwnRows
    <3>. QED
      BY <1>1, <2>1, <3>1, WaitingTake
  <2>3. CASE ~IsPath(m, b)
    <3>1. UNCHANGED mDataSource[b]
      BY <1>1, <2>3 DEF Dispatch, HandleMessage, MessageForGonePicker, Listed, IsPath, TypeOK
    <3>. QED
      BY <1>1, <1>2, <2>2, <2>3, <3>1 DEF OwnRows
  <2>4. CASE IsPath(m, b)
    <3>1. mDataSource'[b] = Append(list, m.image)
      BY <1>2, <2>4 DEF Dispatch, HandleMessage, MessageForGonePicker, Referenced, Listed,
                        IsPath, TypeOK
    <3>2. m.image \in Image
      BY <1>1, <2>4 DEF IsPath, Message
    <3>3. /\ Len(mDataSource'[b]) = Len(list) + 1
          /\ DOMAIN mDataSource'[b] = 1 .. Len(list) + 1 /\ DOMAIN list = 1 .. Len(list)
          /\ \A i \in DOMAIN list : mDataSource'[b][i] = list[i]
          /\ mDataSource'[b][Len(list) + 1] = m.image
      BY <2>1, <3>1, <3>2
    <3>4. \A i \in DOMAIN mDataSource'[b] : i < pos /\ mDataSource'[b][i] = rows[i + 1]
      <4> SUFFICES ASSUME NEW i \in 1 .. Len(list) + 1
                   PROVE  i < pos /\ mDataSource'[b][i] = rows[i + 1]
        BY <3>3
      <4>1. CASE i = Len(list) + 1
        <5>1. i + 1 = from
          BY <2>1, <4>1
        <5>. QED
          BY <2>1, <2>2, <2>4, <3>3, <4>1, <5>1
      <4>2. CASE i \in DOMAIN list
        BY <1>2, <3>3, <4>2 DEF OwnRows
      <4>. QED
        BY <2>1, <3>3, <4>1, <4>2
    <3>5. Len(mDataSource'[b]) + 2 = from + 1
      BY <2>1, <3>3
    <3>. QED
      BY <1>1, <2>2, <2>4, <3>4, <3>5 DEF OwnRows
  <2>. QED
    BY <2>3, <2>4
<1>3. CursorInv'
  BY <1>1 DEF RowsInv, CursorInv
<1>4. (ListsOwnRows <=> \A b \in Picker : life[b] # "destroyed" => OwnRows(b))'
  BY DEF ListsOwnRows, OwnRows
<1>5. \A b \in Picker : life[b] # "destroyed" => OwnRows(b)
  BY RowsPerPicker DEF RowsInv
<1>. QED
  BY <1>1, <1>2, <1>3, <1>4, <1>5 DEF RowsInv

LEMMA RowsStep == TypeOK /\ LifeInv /\ RowsInv /\ [Next]_vars => RowsInv'
<1> SUFFICES ASSUME TypeOK, LifeInv, RowsInv, [Next]_vars PROVE RowsInv'
  OBVIOUS
<1>1. TypeOK'
  BY TypeStep
<1>2. CASE UNCHANGED vars
  BY <1>2 DEF vars, RowsInv, CursorInv, ListsOwnRows, Waiting
<1>. QED
  BY <1>1, <1>2, RowsDispatch, RowsUser, RowsCollector DEF Next

(* What a picker lists and what waits for it are its own rows in order, as *)
(* long as it is not destroyed, for any number of pickers whose threads    *)
(* post to the one queue.                                                  *)
THEOREM AlwaysOwnRows == Spec => []ListsOwnRows
<1>1. RowsInv => ListsOwnRows
  BY DEF RowsInv
<1>. QED
  BY <1>1, TypeInit, TypeStep, LifeInit, LifeStep, RowsInit, RowsStep, PTL DEF Spec
=============================================================================
