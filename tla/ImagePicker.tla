---------------------------- MODULE ImagePicker ----------------------------
(***************************************************************************)
(* The image picker of the sample application: ImagePickerActivity on the  *)
(* UI thread, the collector thread that every picker starts through the    *)
(* singleton ImageCollector, and the queue of the main looper, by which    *)
(* paths come back.  The collector's calls of onProgress, onComplete and   *)
(* onError run on its own thread and read the picker's field mHandler,     *)
(* which onDestroy sets to null on the UI thread, with no lock and not     *)
(* volatile: a collector may still see the old handler, or see null, which *)
(* is an exception nobody catches.                                         *)
(*                                                                         *)
(* A picker that is finished is destroyed some time later, when the next   *)
(* one may already be open; a picker that is rotated is destroyed and a    *)
(* new one created in one go.                                              *)
(*                                                                         *)
(* External: the media store, whose query finds some rows or fails; the    *)
(* looper, a FIFO queue; weak references, which are cleared when nothing   *)
(* else refers to the activity any more.                                   *)
(***************************************************************************)
EXTENDS Naturals, Sequences

CONSTANTS
    Picker,         \* the picker activities, each created at most once
    NoPicker,
    Image,          \* paths of images
    NoImage,        \* mInputPath before anything is picked
    Results         \* what a query may find, newest image first

ASSUME ResultsAssumption == Results \subseteq Seq(Image)
ASSUME NoPickerAssumption == NoPicker \notin Picker

VARIABLES
    proc,           \* "running" or "crashed"
    life,           \* none, open, finishing (finish was called), destroyed
    mHandler,       \* is the field mHandler of a picker set
    sInstance,      \* ImageCollector.sInstance: the picker it has as context
    collector,      \* the collector thread of each picker
    queue,          \* messages of the main looper
    mDataSource,    \* the list of each picker's adapter
    mInputPath      \* HomeActivity.mInputPath

vars == <<proc, life, mHandler, sInstance, collector, queue, mDataSource, mInputPath>>

(* pos is the row the cursor stands on.                                    *)
Thread(pc, context, rows, pos) ==
    [pc |-> pc, context |-> context, rows |-> rows, pos |-> pos]

NotStarted == Thread("none", NoPicker, << >>, 0)

Init ==
    /\ proc = "running"
    /\ life = [a \in Picker |-> "none"]
    /\ mHandler = [a \in Picker |-> FALSE]
    /\ sInstance = NoPicker
    /\ collector = [a \in Picker |-> NotStarted]
    /\ queue = << >>
    /\ mDataSource = [a \in Picker |-> << >>]
    /\ mInputPath = NoImage

Collecting(a) == collector[a].pc \in {"query", "rows"}

-----------------------------------------------------------------------------
(* UI thread.  ImageCollector.init keeps the collector there is, with the  *)
(* context of the picker that made it.                                     *)
CollectorFor(a) == IF sInstance = NoPicker THEN a ELSE sInstance

(* Mutant: the collector stays when its picker is destroyed.               *)
CollectorKept(a) == sInstance

(* ImageCollector.destroy.                                                 *)
CollectorAfterDestroy(a) == NoPicker

(* onCreate, when the button of HomeActivity is clicked: no picker is in   *)
(* front, an earlier one may still be waiting for its onDestroy.           *)
OnCreate(a) ==
    /\ proc = "running"
    /\ life[a] = "none"
    /\ \A b \in Picker : life[b] # "open"
    /\ life' = [life EXCEPT ![a] = "open"]
    /\ mHandler' = [mHandler EXCEPT ![a] = TRUE]
    /\ sInstance' = CollectorFor(a)
    /\ collector' = [collector EXCEPT ![a] = Thread("query", CollectorFor(a), << >>, 0)]
    /\ UNCHANGED <<proc, queue, mDataSource, mInputPath>>

(* A tap on item i: HomeActivity is given its path, the picker finishes.   *)
OnItemClick(a, i) ==
    /\ proc = "running"
    /\ life[a] = "open"
    /\ mInputPath' = mDataSource[a][i]
    /\ life' = [life EXCEPT ![a] = "finishing"]
    /\ UNCHANGED <<proc, mHandler, sInstance, collector, queue, mDataSource>>

(* Mutant: the handler is given up when the picker is finished.            *)
BackClearsHandler(a) ==
    /\ proc = "running"
    /\ life[a] = "open"
    /\ life' = [life EXCEPT ![a] = "finishing"]
    /\ mHandler' = [mHandler EXCEPT ![a] = FALSE]
    /\ UNCHANGED <<proc, sInstance, collector, queue, mDataSource, mInputPath>>

(* The back key: the picker finishes without a result.                     *)
Back(a) ==
    /\ proc = "running"
    /\ life[a] = "open"
    /\ life' = [life EXCEPT ![a] = "finishing"]
    /\ UNCHANGED <<proc, mHandler, sInstance, collector, queue, mDataSource, mInputPath>>

OnDestroy(a) ==
    /\ proc = "running"
    /\ life[a] = "finishing"
    /\ life' = [life EXCEPT ![a] = "destroyed"]
    /\ sInstance' = CollectorAfterDestroy(a)
    /\ mHandler' = [mHandler EXCEPT ![a] = FALSE]
    /\ UNCHANGED <<proc, collector, queue, mDataSource, mInputPath>>

(* A change of configuration: onDestroy of a, then onCreate of b.          *)
Relaunch(a, b) ==
    /\ proc = "running"
    /\ life[a] = "open" /\ life[b] = "none"
    /\ life' = [life EXCEPT ![a] = "destroyed", ![b] = "open"]
    /\ mHandler' = [mHandler EXCEPT ![a] = FALSE, ![b] = TRUE]
    /\ LET context == IF CollectorAfterDestroy(a) = NoPicker
                      THEN b ELSE CollectorAfterDestroy(a)
       IN  /\ sInstance' = context
           /\ collector' = [collector EXCEPT ![b] = Thread("query", context, << >>, 0)]
    /\ UNCHANGED <<proc, queue, mDataSource, mInputPath>>

-----------------------------------------------------------------------------
(* Collector thread.  Mutant: every message goes to the front picker's     *)
(* handler, as with a static mHandler.                                     *)
PostToFront(a, what, image) ==
    Append(queue,
           [to |-> IF \E b \in Picker : life[b] = "open"
                   THEN CHOOSE b \in Picker : life[b] = "open" ELSE a,
            what |-> what, image |-> image])

(* Mutant: sendMessageAtFrontOfQueue.                                      *)
PostAhead(a, what, image) ==
    <<[to |-> a, what |-> what, image |-> image]>> \o queue

PostTo(a, what, image) ==
    Append(queue, [to |-> a, what |-> what, image |-> image])

(* mHandler.sendMessage, or the exception of a field that is null.         *)
Post(a, what, image, next) ==
    /\ \/ /\ queue' = PostTo(a, what, image)
          /\ collector' = [collector EXCEPT ![a] = next]
          /\ UNCHANGED proc
       \/ /\ ~mHandler[a]
          /\ proc' = "crashed"
          /\ UNCHANGED <<queue, collector>>
    /\ UNCHANGED <<life, mHandler, sInstance, mDataSource, mInputPath>>

(* query, and moveToFirst.                                                 *)
CollectorQuery(a) ==
    /\ proc = "running"
    /\ collector[a].pc = "query"
    /\ \E rows \in Results :
          collector' = [collector EXCEPT ![a] = [@ EXCEPT !.pc = "rows",
                                                          !.rows = rows, !.pos = 1]]
    /\ UNCHANGED <<proc, life, mHandler, sInstance, queue, mDataSource, mInputPath>>

(* cursor == null.                                                         *)
CollectorError(a) ==
    /\ proc = "running"
    /\ collector[a].pc = "query"
    /\ Post(a, "error", NoImage, [collector[a] EXCEPT !.pc = "done"])

(* Mutant: the last row is left out.                                       *)
MoveToNextButLast(a) == collector[a].pos + 1 < Len(collector[a].rows)

MoveToNext(a) == collector[a].pos < Len(collector[a].rows)

(* moveToNext finds a row: onProgress.                                     *)
CollectorProgress(a) ==
    /\ proc = "running"
    /\ collector[a].pc = "rows"
    /\ MoveToNext(a)
    /\ LET row == collector[a].pos + 1
       IN  Post(a, "progress", collector[a].rows[row], [collector[a] EXCEPT !.pos = row])

(* moveToNext finds none: onComplete.                                      *)
CollectorComplete(a) ==
    /\ proc = "running"
    /\ collector[a].pc = "rows"
    /\ ~MoveToNext(a)
    /\ Post(a, "complete", NoImage, [collector[a] EXCEPT !.pc = "done"])

-----------------------------------------------------------------------------
(* UI thread: MyHandler.handleMessage.  A picker is referred to by the     *)
(* system until it is destroyed, by its own thread as listener, and by     *)
(* every thread and the singleton that have it as context.                 *)
Referenced(a) ==
    \/ life[a] # "destroyed"
    \/ Collecting(a)
    \/ sInstance = a
    \/ \E b \in Picker : Collecting(b) /\ collector[b].context = a

(* Mutant: the kind of message is not looked at.                           *)
ListedAlways(list, message) == Append(list, message.image)

Listed(list, message) ==
    IF message.what = "progress" THEN Append(list, message.image) ELSE list

HandleMessage ==
    /\ proc = "running"
    /\ queue # << >>
    /\ queue' = Tail(queue)
    /\ mDataSource' =
          [mDataSource EXCEPT ![Head(queue).to] = Listed(@, Head(queue))]
    /\ UNCHANGED <<proc, life, mHandler, sInstance, collector, mInputPath>>

(* mRef.get() returns null.                                                *)
MessageForGonePicker ==
    /\ proc = "running"
    /\ queue # << >>
    /\ ~Referenced(Head(queue).to)
    /\ queue' = Tail(queue)
    /\ UNCHANGED <<proc, life, mHandler, sInstance, collector, mDataSource, mInputPath>>

Dispatch == HandleMessage \/ MessageForGonePicker

CollectorStep(a) ==
    \/ CollectorQuery(a)
    \/ CollectorError(a)
    \/ CollectorProgress(a)
    \/ CollectorComplete(a)

User(a) ==
    \/ OnCreate(a)
    \/ \E i \in DOMAIN mDataSource[a] : OnItemClick(a, i)
    \/ Back(a)
    \/ OnDestroy(a)
    \/ \E b \in Picker : Relaunch(a, b)

Next == Dispatch \/ \E a \in Picker : User(a) \/ CollectorStep(a)

(* A thread that was started runs, and the looper dispatches.  Nothing is  *)
(* assumed of the user, nor of when the system destroys a picker.          *)
Spec ==
    /\ Init
    /\ [][Next]_vars
    /\ \A a \in Picker : WF_vars(CollectorStep(a))
    /\ WF_vars(Dispatch)

-----------------------------------------------------------------------------
CollectorRecord ==
    [pc : {"none", "query", "rows", "done"}, context : Picker \cup {NoPicker},
     rows : Seq(Image), pos : Nat]

Message ==
    [to : Picker, what : {"progress"}, image : Image]
      \cup [to : Picker, what : {"complete", "error"}, image : {NoImage}]

(* Every variable has its type; what is listed is paths, so only progress  *)
(* messages reach a list.                                                  *)
TypeOK ==
    /\ proc \in {"running", "crashed"}
    /\ life \in [Picker -> {"none", "open", "finishing", "destroyed"}]
    /\ mHandler \in [Picker -> BOOLEAN]
    /\ sInstance \in Picker \cup {NoPicker}
    /\ collector \in [Picker -> CollectorRecord]
    /\ queue \in Seq(Message)
    /\ mDataSource \in [Picker -> Seq(Image)]
    /\ mInputPath \in Image \cup {NoImage}

(* What the cursor loop lists of its rows: moveToNext comes right after    *)
(* moveToFirst (ImageCollector.java:52-53), so the first is left out.      *)
Rest(rows) == SubSeq(rows, 2, Len(rows))

IsPath(message, a) == message.to = a /\ message.what = "progress"

(* The paths of picker a in a queue q are rows from .. to, in that order.   *)
Waiting(q, a, rows, from, to) ==
    \E place \in [from .. to -> DOMAIN q] :
       /\ \A i, j \in from .. to : i < j => place[i] < place[j]
       /\ \A i \in from .. to :
             q[place[i]] = [to |-> a, what |-> "progress", image |-> rows[i]]
       /\ \A k \in DOMAIN q :
             IsPath(q[k], a) => \E i \in from .. to : place[i] = k

(* What a picker lists and what is still in the queue for it are exactly   *)
(* what its own thread has read, in that order: nothing is lost, doubled   *)
(* or mixed with the rows of a picker that was finished or rotated away,   *)
(* while both threads post to one queue.  Once a picker is destroyed its   *)
(* messages may be dropped.                                                *)
ListsOwnRows ==
    \A a \in Picker :
       life[a] # "destroyed" =>
          LET rows == collector[a].rows
              pos == collector[a].pos
              list == mDataSource[a]
          IN  /\ \A i \in DOMAIN list : i < pos /\ list[i] = rows[i + 1]
              /\ Waiting(queue, a, rows, Len(list) + 2, pos)

(* onComplete and onError come last: when one is waiting in the queue, the *)
(* thread is done and no path of that picker waits behind it.              *)
EndComesLast ==
    \A i, j \in DOMAIN queue :
       queue[i].to = queue[j].to /\ queue[i].what # "progress" =>
          j <= i /\ collector[queue[i].to].pc = "done"

(* The static sInstance never keeps a destroyed activity, also when the    *)
(* next picker took the collector over before onDestroy of the first.      *)
SingletonIsAlive ==
    sInstance # NoPicker => life[sInstance] \in {"open", "finishing"}

(* The process is lost in one way only: by the thread of a picker that was *)
(* destroyed while it was still collecting (mHandler is null).  No picker  *)
(* that is open, or waits for onDestroy, is hit by its own thread.         *)
OnlyOrphansCrash ==
    proc = "crashed" =>
        \E a \in Picker : life[a] = "destroyed" /\ Collecting(a)

(* An open picker that is left alone lists everything its thread finds,    *)
(* however many other threads are still posting.                           *)
EverythingListed ==
    \A a \in Picker :
       life[a] = "open" ~>
          \/ life[a] # "open"
          \/ proc = "crashed"
          \/ collector[a].pc = "done" /\ mDataSource[a] = Rest(collector[a].rows)
=============================================================================
