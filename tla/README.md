# imgsdk: a TLA+ model of the image SDK

imgsdk is an Android image-editing SDK: a C library (`jni/src`) that loads a
picture, uploads it as an OpenGL ES texture and draws it to a window or off
screen according to a JSON effect command, a JNI bridge, and a small sample
application in Java (`src/`). This directory holds TLA+ modules for the part of
it that keeps state, the TLC runs that check them on small instances, and the
proofs that TLAPS checks for every instance.

Paths below are those of the repository; line numbers are of the commit the
project was written against.

## 1. The system

About 3900 lines are the program's own; the rest is vendored (libpng, libjpeg,
cJSON), resources and build files. Of libpng and libjpeg the control that the
program's readers and writers depend on is modelled as well, because `read_png`
goes on after errors with whatever state libpng is in.

| Component | Source | State it keeps | Operations |
|---|---|---|---|
| char buffer | `jni/src/chrbuf.c` | base, capability, used, free | new, free, ensure capacity, append, clear |
| effect command parser | `jni/src/eftcmd.c` | `eftcmd_t`: cmd, valid, params, count | parse (Normal, Rotate, Scale, Clip), init, free |
| SDK context | `jni/src/imgsdk.c` | `SdkEnv`: EGL state, GL handles, user data (paths, active source, bitmap), user command, effect command, callbacks | new blank / default, set window, set platform data, init, `sdkMain`, set paths, `setEffectCmd`, draw, swap, free |
| image codecs | `jni/src/imgsdk.c:231-380, 1600-1759` | bitmaps | `loadImage`, `saveImage`, read and write PNG and JPEG |
| JNI bridge | `jni/src/NativeImageSdk.c`, `jniHelper.c` | none (a pointer handed to Java) | one function per native method |
| native activity glue | `jni/src/android_main.c` | `userData` of the app | APP_CMD handler, main loop |
| console program | `jni/src/imgsdk.c:166-229` | none | `main`: load, draw off screen, read back, save |
| shaders | `assets/*.shdr`, `imgsdk.c:461-549` | a program object | compile, link |
| Java facade and view | `org/imgsdk/core`, `org/imgsdk/view` | the native pointer, a surface | onCreate, onDestroy, one method per native method |
| sample activities | `com/kari/imgsdk/{Home,Render}Activity.java` | the chosen path, `hasSetInputPath` | clicks |
| image picker | `com/kari/imgsdk/ImagePickerActivity.java`, `data/ImageCollector.java`, `adapter/` | list of paths, handler, collector singleton | collect on a thread, post, show, pick |

### How the parts interact

- `HomeActivity` owns an off-screen SDK instance (`initSDK`), every surface of
  `RenderActivity` an on-screen one (`initRenderSDK`). All of their calls are
  made on Android's one UI thread, so *two instances share a thread*.
- The bridge turns each native method into a few calls of `imgsdk.h`. The `jlong`
  that Java keeps is the `SdkEnv` pointer.
- `setEffectCmd` runs the effect parser on the command, then works on the input:
  load from the path that is set, upload, remember the bitmap; or use the one
  it has. `onSdkDraw` draws texture1 of the *current* context.
- What is current belongs to the *thread*; the display, and the count of its
  initialisations, to the *process*. Neither is state of an instance, and
  both are changed by the calls made for one instance.
- `initSdkEnv` creates the user-command buffer (a `ChrBuf`) and
  `setEffectCmd` writes the command with its input into it.
- The picker's collector thread posts paths to a handler of the UI thread.

### What makes it hard

1. Shared EGL state: interleaved calls for several instances through one
   thread's current context and one reference-counted display.
2. Initialisation that can stop at ten places, each with something to undo.
3. A loaded image that is reused without comparison with the path it came
   from, across repeated paths and failed loads.
4. One effect struct and one buffer that live as long as the instance and are
   overwritten by every command, accepted or refused.
5. A framebuffer binding that is made by an off-screen draw and never undone.
6. Decoders that are started again on what a failed attempt left in them, and
   loads that do not return.
7. Ten places where a construction stops, any allocation of which may be the one
   that fails, and two functions that free.
8. Java objects that keep a native pointer, and a thread that outlives its
   activity.

`PROJECT.json` lists each of these as hazards, at the line where it bites, with
the properties that watch it.

### What correct means, per component

- *Char buffer*: the block really has `capability` bytes; text and its NUL stay
  in the block; a reservation that succeeds gives the room asked for.
- *Effect parser*: what is marked valid is the last command, with that command's
  numbers; a refused command changes no parameter; nothing is stored through
  NULL.
- *SDK context*: a draw delivers the image that was selected and applied last,
  to the instance's own target; no instance touches another's context, texture
  or display; a stale image is never reused; nothing destroyed stays current.
- *JNI bridge, Java side, native programs*: no call is made with a
  pointer after its `freeSdkEnv`; whatever fails, everything allocated can still be freed; a click that
  was answered shows the picture; the console saves the picture it was given.
- *Memory*: nothing is freed twice but the instance `initSdkEnv` frees itself, and what an instance leaves behind is bounded.
- *Picker*: a picker lists its own rows, in order, and in the end all that its
  thread finds; the singleton keeps no destroyed activity; nothing but the thread of
  a destroyed picker loses the process.
- *Codecs*: what is loaded is the whole picture, every line in its row, however
  the file is damaged; an intact file is read in one pass, and loaded; what is read back and saved is
  what was in memory.

## 2. The modules

```
ChrBuf <- MCChrBuf, ChrBufProofs

EffectParser <- EffectCmd <- MCEffectCmd, EffectCmdProofs
             <- SdkHeap   <- MCSdkHeap, SdkHeapProofs
             <- SdkEnv    <- SdkEnvSession <- MCSdkEnv
                          |    | INSTANCE
                          |    v
                          |  EditSession
                          <- SdkCalls <- NativeImageSdk <- SdkApp     <- SdkHosts <- MCSdkHosts, SdkHostsProofs
                                                        <- NativeGlue <-

ImageFile <- PngReader <- ImageCodec <- MCImageCodec, ImageCodecProofs
          <- JpegCodec <-

ImagePicker <- MCImagePicker, ImagePickerProofs

SdkEnvContextProofs <- SdkEnvSessionProofs, SdkHostsProofs
```

### ChrBuf

Fields of `chrbuf_t` plus `block`, the real size of the allocation, which the
struct does not record. One action per function. Strings are their lengths.
`overrun` is the number of bytes the last `strcpy` wrote behind the block.
`EnsuredBlock` keeps the code's habit of reallocating without writing
`capability`, so that later demands are computed from an old size and `realloc`
may *shrink* the block.

### EffectParser and EffectCmd

`EffectParser` has the pure part: one operator per parser, from a command (a name
and the value of each key: a number, something else, or absent) and the old
struct to the new struct, a return value and whether NULL was accessed. The
order of tests and stores is the code's: all keys are looked at before anything
is stored. Actual JSON text is not modelled; that cJSON's `valueint` of something
that is no number is 0 is (external). `EffectCmd` is the state machine of one
`SdkEnv.effectCmd` under any sequence of commands.

### SdkEnv

The core. One action is one call of `imgsdk.h`; an instance is used from one
thread, `ThreadOf[e]`, and the calls for different instances interleave freely.

| Variable | In the code |
|---|---|
| `sdk[e]` | the instance's life, set-up fields, `type`, `status`, last result of an initialisation, program, callbacks, `userCmd` |
| `egl[e]` | `SdkEnv.egl`; `view` says *whose* size width and height are |
| `user[e]` | `SdkEnv.userData`: paths, active source, bitmap |
| `effect[e]` | `SdkEnv.effectCmd`, rewritten through `EffectParser` |
| `current[t]` | EGL: what `eglMakeCurrent` last made current in thread t |
| `refs` | EGL: initialisations of the default display minus terminations |
| `made` | EGL: contexts created so far |
| `shown[c]`, `target[c]`, `bound` | OpenGL: texture1, what was last drawn and presented, contexts with an FBO bound |
| `proc` | running, crashed, exited (libjpeg), spinning (libpng) |

A picture is the path it was decoded from and its form, no pixels. `EglAfter` and
`SdkAfter` give the state after an initialisation that stopped at step `stop`;
all that can fail in `initSdkEnv` and `newDefaultSdkEnv` is numbered from 0 to
9. Both functions of the API that create a ready instance are modelled, the
console's `newDefaultSdkEnv` included. `setEffectCmd` is one action, the call
of the parser and both textures included, with one disjunct per way through it.

Assumed of the outside (external in the map):

- EGL as Android implements it: one default display, initialisations counted
  against terminations, no error while the count is positive; the current
  context is per thread and survives until another `eglMakeCurrent`.
- OpenGL names: the first objects of every new context have the same names. The
  code stores names per instance and uses them in whatever context is current,
  so a call meant for one context hits the object of the same name in another.
- libjpeg's `jpeg_std_error` exits the process; libpng returns to `setjmp`.

The client follows `imgsdk.h`: it does not use an instance whose
initialisation failed, and frees each once. It cannot know that `initSdkEnv`
has freed the instance (imgsdk.c:1085), so the second free is in the model
(`life = "dangling"`); its outcome is a choice, a crash or nothing.

### EditSession and SdkEnvSession

`EditSession` is the promise to a client, without threads, contexts, textures or
failures: sessions that are opened, select, apply, render, discard and close,
and never change each other. `SdkEnvSession` maps an instance to a session:
open while `Ready`, pending while the path is the active source, its image the
bitmap in memory, its screen the target of its own context. The property
`ImplementsSessions` is `EditSession`'s `Spec` under that mapping.

### SdkCalls, NativeImageSdk, SdkApp, NativeGlue and SdkHosts

These put the repository's own programs on top of `SdkEnv`, call by call. A
handler (a native method, an APP_CMD, `main`) is a sequence of calls in `todo`;
one step makes the next call, and a call of `imgsdk.h` is an action of `SdkEnv`,
or the undefined or empty behaviour the call has when an instance is freed, NULL or not
ready. `local` is the handler's local variable, `ptr[h]` the pointer that the
holder h keeps: an `ImageSdk`'s `mPointer`, an `android_app`'s `userData`, `env` of `main`.

- `NativeImageSdk` has one sequence for each native method, and the steps
  between the calls: the lookups that return 0, the free of an instance whose
  initialisation failed, the new pointer, `onSuccess`.
- `SdkApp` is the demonstration application: the two activities with their life
  cycles, buttons and `hasSetInputPath`, the surface. One UI thread runs it all;
  handlers do not overlap, but activities do: a finished one keeps its surface for a while,
  the system may destroy the one behind and create it again.
- `NativeGlue` has `android_main` with its command handler, which initialises the
  same instance for every window, and `main` from `newDefaultSdkEnv` to
  `saveImage`, which tests nothing.
- `SdkHosts` is one process that is one of the three.

### SdkHeap

The blocks behind one instance. Each pointer of `SdkEnv` is NULL, holds a block or
is stale; `lost` counts the blocks no pointer leads to, by kind. Any allocation,
file or EGL step may fail, in the order of the code; `setEffectCmd` runs
`EffectParser`, whose NULL parameters are a block that is lost. It is a module of its
own because `SdkEnv`, with all its contexts and textures, is large enough, and the
two have no question in common.

### ImageFile, PngReader, JpegCodec and ImageCodec

A picture is a sequence of lines; a line in memory knows which line of the
file it is and whether all of its data were there. A PNG file is a list of chunks, each
possibly damaged (CRC, compression method, length, zlib data, cut short); a JPEG
file a list of markers and lines.

- `PngReader` is `read_png` over libpng's sequential reader: the chunk loop of
  `png_read_info`, the handlers with the order in which they set flags and find
  errors, the row loop across IDATs, `png_read_end`. Since `setjmp`'s result is
  not tested (imgsdk.c:248), `Retry` is a step like any other: the `png_struct`
  stays as it is, the file where it is, and `png_read_png` runs from its top.
- `JpegCodec` is `read_jpeg` and `write_jpeg` over libjpeg's application
  interface: headers, `jpeg_start_decompress`, lines stored bottom up, the
  trailer, the fake EOI of `jdatasrc.c`; an error exits the process.
- `ImageCodec` joins them: `loadImage` and `saveImage` choose by the name, and
  `main` reads the drawn picture back between the two, with `glReadPixels`'
  alignment of four bytes and a format taken from the input's name.

Sizes are computed modulo `Word`, as in the program modulo 2^32; a block that came
out too small is overrun and its content lost, or the process.

### ImagePicker

Pickers (`ImagePickerActivity`), one collector thread for each, and the main
looper's one queue. `life` is the activity's life cycle; `mHandler`, `sInstance`,
`mDataSource` and `mInputPath` are the fields of these names; `collector[a]` is
the thread with its cursor; a step of it is one turn of the loop in
`collectImage`. A picker that is finished is destroyed later, so the next one may
be created first; `Relaunch` is a rotation, `onDestroy` and `onCreate` in one go.

`mHandler` is read by the collector without a lock: after `onDestroy` a post may
still find the old handler (the write is not visible yet) or find null, which ends
the process. `handleMessage` reaches its picker through a weak reference: a
message may be dropped once nothing refers to the picker (`Referenced`).

`ListsOwnRows` says what an adapter shows without filtering the queue: `Waiting` is
the set of the positions in the queue that hold a path for the picker, and the
k-th of them carries row `listed + k`.

## 3. The runs

| Run | Question | Instance |
|---|---|---|
| `chrbuf` | does the block always back what the struct says, and how far can a write pass it | capabilities, lengths and reservations from small sets that include equal, smaller and larger demands |
| `chrbuf_long` | is text always in its block | a string as long as the capability (**violated**) |
| `effect` | does a valid struct always describe the last command | every name, every kind of argument, each key of a Clip wrong in turn, both ways to start |
| `effect_params` | is the parameter array always there | the two commands the application sends (**violated**) |
| `sdk_one` | one instance against everything that can go wrong with it | 4 kinds of path, 3 commands, all 10 stops, pictures with and without a known form |
| `sdk_own_threads` | do two instances on two threads disturb each other, and does each implement its own session | 2 instances, 2 threads, 2 paths, all stops but a failing `eglInitialize` |
| `sdk_reinit` | is a second initialisation refused | `Reinit = TRUE` (**violated**) |
| `sdk_upload` | does an upload read only what the bitmap has | forms 3 and 4 (**violated**) |
| `hosts` | which pointers do the three programs use and free, what does a click show, what does the console save, when all of the application's instances share a thread | HomeActivity created twice, two surfaces, `android_main` run twice, `main` once; 3 contexts, a JPEG and a PNG path |
| `heap` | is anything freed twice, and how much is left behind | 2 initialisations, 3 paths, 2 outputs, 3 effects |
| `codec` | is what is loaded the whole picture, is an intact file read without an error and does it load, do rows keep their place until they are saved | some 11,700 PNG and 2,400 JPEG files of 2 or 3 lines |
| `picker` | what do pickers list while others are opened, rotated and destroyed, and can the process be lost otherwise than by an orphaned thread | 2 pickers, queries that find none to three rows or fail |

*Bounds.* `ChrBuf` has one, `MaxUsed`: appends stop when the text would pass it.
At 12 it lets several of the longest strings in without a clear, past every
capability used. The rest of that family is finite without a cap: in `SdkEnv` an
instance is allocated once and contexts are created once, so `Ctx` bounds the
initialisations that get that far.
Two instances are enough for every interaction of `sdk_own_threads`' properties,
which all relate one instance to the calls made for one other; the proofs then remove
the bound. Two paths give a new, a repeated and a replaced image; the
four-path run adds a path that is not read (gif) and one with no postfix. Only one
of the two instances may get a window: the runs have an on-screen beside an
off-screen instance, as the application does, and two off-screen ones; two
on-screen ones are left to the proofs.

`hosts`: a second HomeActivity and a second surface are the first that can meet
what an earlier one left (the flag `hasSetInputPath`, a freed pointer, a
context that is no longer current); three contexts let both be there beside the
other. `MCSdkHosts` gives TLC a VIEW that leaves out what contexts held that no instance uses any
more; nothing reads it, since contexts are never used again. Three of the
ten stops are tried: memory, the first one; a context that is not made current; the
shaders, the last one. `sdk_one` has them all. After a stop between the display and the
context the native activity, which initialises its instance again for every window,
counts the display up each time and uses up no context, so nothing would bound the run.

`heap`: what two initialisations lose shows the rate, two paths after the first
one give a replaced and a twice replaced image; the proofs remove these bounds. The
three commands are one that drops the parameters, one that writes them and one that
is refused.

`codec`: two lines are the fewest that can be split over two IDATs, be cut between,
and end with one too few; three lines make the bottom-up order visible in the middle.
Widths 3 and 4 are one with and one without padding; `Word = 40` makes a picture of
4 x 3 pixels with 4 bytes the one that does not fit. The PNGs are all
combinations of: header absent, whole or damaged in three ways; palette absent, whole or damaged;
three good and ten bad ways to hold the data; at most one more chunk behind them, most kinds of which are out of place; an end
absent, whole or damaged. The JPEGs are the whole ones with a piece left out, put in
or cut off at each position.

Two pickers give every overlap of two life cycles and two threads on one queue;
three rows let a thread be at its first, a middle and its last row; the number of
messages is bounded by the rows.

*Deadlock* checking is off where the system really stops: the process may be lost,
every instance may be freed, a program may be at its end.

*Fairness.* In the SDK, its hosts and its heap none is assumed and no liveness property is stated:
nothing there is scheduled by the library itself, every step is a call the client
may or may not make. `ImageCodec` assumes weak fairness of `Reading`: the thread
that called `loadImage` goes on with the call; no fairness is assumed
between the alternatives in it, so that memory may run out at any time. `LoadEnds` says what follows: an
intact file is loaded unless there is no memory, and a JPEG, however damaged, ends in a
finite number of steps. A damaged PNG may not (section 4).
`ImagePicker` assumes weak fairness of each collector thread and of the looper: a started thread
is run by the system, and the main looper dispatches while it has messages.
Nothing is assumed of the user, nor of when an activity is destroyed, so
`EverythingListed` has to allow for the picker being left and for the process being
lost by another picker's thread.

*On a shared thread*, which is how the application runs its instances, only
`CurrentIsHeld` and `DisplayCounted` of the context properties hold: the code makes a
context current once, in `initSdkEnv`, and again nothing in `freeSdkEnv`. Both are
checked with two threads and proved for any (section 5). `hosts`
checks what remains: `NoLostContextCurrent` (`CurrentIsHeld` for the application and
`main`; the native activity is excepted, section 4), `OnlyHomeTakesContext` (RenderActivity's surface loses its
context to nothing but a HomeActivity that is created or destroyed behind it) and
`AnsweredClickShows` (what the window shows after `onSuccess`, which `executeCmd`
reports in any case: the picture, if the paths were given to this very surface's
instance; never another one; and nothing on a later surface, which is not given them again).
All three are proved.

*Mutants.* For each property of a passing run there is at least one plausible
bug of the code it watches (a missing test, a swapped order, a lost reset) as an operator of the
module, never used by the model: put in the place of the definition it mutates,
the run that checks the property fails.

## 4. What was found

Each is a run that TLC finds violated, against a line of the repository:

1. `chrbuf.c:92`: the room for an appended string leaves out its NUL; a string
   as long as the capability puts it behind the block. (`chrbuf_long`)
2. `eftcmd.c:20`: Normal drops the parameter array; the next Rotate, Scale or
   Clip stores through NULL. The application sends Normal and Rotate, to two
   instances; on one instance the two suffice. (`effect_params`)
3. `imgsdk.c:1072`: "already initialized" compares `type` with `SDK_STATUS_OK`.
   The native activity does initialise one instance a second time, when it gets
   another window. (`sdk_reinit`)
4. `imgsdk.c:1324`: the bytes per pixel of an upload come from the file's name,
   those of the bitmap from its content. (`sdk_upload`)

Met while modelling, kept in the model as the code has them, and not counted as
findings because no line of the repository clearly says otherwise, or because a
run of their own would ask little:

- *Effects.* Normal returns 0 but leaves `valid` FALSE (eftcmd.c:21); a complete
  Clip is valid and returns -1 (eftcmd.c:110), and nobody looks at the return;
  the type of "h" in a Clip is never tested, that of "y" twice (eftcmd.c:97).
- *Codecs.* The untested `setjmp` (imgsdk.c:248): for a damaged PNG `read_png`
  never returns, although imgsdk.h:62-63 has an error value for it;
  `read_jpeg` ends the process instead. On success `read_png` returns the size
  of the memory, where imgsdk.h:61-62 promises 0; setEffectCmd only tests for a negative value.
  JPEGs are stored bottom up, PNGs top down, and both are drawn and saved by
  the same code: a picture loaded from a JPEG stands upright on the screen and is saved upside down,
  one loaded from a PNG the reverse. `main` reads back with a format and an
  alignment that need not be the memory's (imgsdk.c:206).
- *SDK.* A path of fewer than five characters has a NULL postfix, which goes to
  `strcasecmp` (imgsdk.c:1187); `initSdkEnv` frees an instance its caller frees
  again (imgsdk.c:1085); `attachShader` may return without a value
  (imgsdk.c:1143); setting the same path again does not reload a file whose contents changed
  (imgsdk.c:1171-1177); `freeSdkEnv` forgets the shader sources and every
  `Bitmap_t`, `readFile` its `FILE`.
- *Programs.* `executeCmd` swaps before it draws (NativeImageSdk.c:274), so the
  first click presents an empty buffer; `initSDK` never calls `sdkMain`, so HomeActivity's clicks
  draw nothing and are answered; RenderActivity gives its paths to the first
  surface only (RenderActivity.java:59); TERM_WINDOW frees nothing
  (android_main.c:36), so if the context for the next window cannot be made current,
  the one of the window before stays current although no instance holds it.
- *Picker.* The cursor loop leaves out the first image
  (ImageCollector.java:52-53); leaving the picker while it collects may end the
  process with a null `mHandler` (ImagePickerActivity.java:72).

## 5. The proofs

TLC checks two instances and two paths, or two pickers; the theorems hold for any
sets of instances, threads, contexts, paths, commands, files and pickers, any number of
calls and any failures. Every leaf is checked by tlapm with Z3, Zenon or LS4.

`ChrBufProofs`. The four properties of the run. `CapabilityBacked` is inductive
over the type invariant: `capability` stays at most the block although `realloc`
may shrink it, because the block is only ever
reallocated to `used` plus a demand that the capability does not hold.
`OverrunIsTheTerminator` rests on it. `ShortCommandsFit` says
when finding 1 does not bite: strings shorter than every capability, and no direct
reservation.

`ImagePickerProofs` (no hypotheses but those on the constants). `LifeInv` is the
strengthening: a thread was started if and only if its picker was created, and a
picker keeps its handler until it is destroyed. `SingletonIsAlive` and
`OnlyOrphansCrash` follow, and `EndComesLast` is inductive over it: a thread that
posts has posted no end yet, a new picker's thread has posted nothing.
`AlwaysOwnRows` is about the queue: `RowsInv` adds `CursorInv` (what a thread has read is
what is listed and what waits, together) to `ListsOwnRows`; `WaitingPost` and
`WaitingTake` say what happens to the positions when a message is added at the end
or taken from the front.

`EffectCmdProofs` (no hypotheses). One lemma says what a parser can do to the
struct: leave it alone, take the parameters away, meet NULL, or store all it
decoded and mark it valid. The three theorems follow from it command by command,
for any values under any keys.

`SdkHeapProofs` (no hypotheses but the constants' types). For each operator on the
memory a lemma says pointer by pointer what it holds and loses; `ReleaseFacts` adds
them up for `freeSdkEnv`. The properties speak of what was lost, but what is still *held* can
be lost by the next call, so `HeapInv` bounds the sum of the two for each kind. It
also says which pointer may be stale, which is none between two calls:
that is why nothing is freed twice but the instance that `initSdkEnv` frees itself.

`ImageCodecProofs` (no hypotheses but the shape of the files). `CodecInv` follows each reader through its
file. For libpng, `PngGood`: inside an IDAT there is an IDAT, and once the
reader is past the rows all rows are there, *whatever attempts failed before*;
so an untested `setjmp` never makes half a picture of a file. For
libjpeg, `JpegGood`: before the scan no SOS was read, and in it the reader stands
behind the data of the first d lines and has given out some more only if the data
ended there (`InScan`), and each line given out is in its row, whole exactly if the
file has its data (`Decoded`). `NextLine` is the step between the two. `Packed` is the
arithmetic of the read-back for every width, height and form. What is saved is
followed line by line in `SaveInv`.

`IntactAlwaysRead` is the other direction: what is *not* damaged never meets an error. `IntactPng`
says which chunk may stand where, and that the IDATs, cut in any way, hold the lines one after
another (`DataOfLines`: the chunks up to the i-th hold `given[i]` lines). `OnCourse`, the invariant
of an intact file, relates the `png_struct` to that: in `png_read_info` its marks are
those of the chunks behind it (`HeadRead`), in the rows `row_number` is `given` of the IDAT
before plus what was taken of this one, so the reader asks for more data only while there are more
IDATs, and finds the end of the stream in the last. `JpegOnCourse` says which marker is next in each state.
`IntactIsRead` alone is not inductive: that the next chunk is accepted rests on all that was read.

`SdkEnv*Proofs`, in three layers, each resting on the one before:

1. **SdkEnvContextProofs**, first part (no hypotheses). `InputInv` is `TypeOK`,
   `ReuseIsCurrentInput` and `ActivePathIsSet`: a source that is active has a path.
   Without the last, a load could be of no path, which neither of the other two
   excludes.
2. **SdkEnvContextProofs**, second part (`Reinit = FALSE`). `CurrentIsHeld` is not inductive:
   a step must not give an instance's context to another, nor drop one that is
   still current. `ContextInv` adds that contexts in use are created and differ,
   that an instance with a context has a display (so that freeing it clears the
   thread), that one whose initialisation was not tried is blank, and that a ready
   one has a context. `DisplayCounted` needs more than its own count: `CountInv`
   says that `refs` *is* the number of instances that hold a display, more than the
   ready ones, since a failed instance holds its count until it is freed. It needs
   `Env` finite and an `eglInitialize` that does not fail: a failed one leaves
   `display` set without a count, and freeing that instance takes another's.
3. **SdkEnvSessionProofs** (`OneThreadEach`, `Reinit = FALSE`). `OwnInv` says of a
   ready instance that its context is current in its thread, its texture holds its
   image, its viewport fits off screen and no framebuffer object is bound on
   screen; and that contexts not created yet are untouched. `SafeInv` is the three
   invariants together, and the five properties follow from it.
   Then the refinement, under the same hypotheses: the initial state maps
   to all sessions closed, and under `SafeInv` each step maps to a step of one
   session or to a stutter. That the *other* sessions stand still is where the
   distinctness of contexts and the own threads are used.

The hypotheses are theorems' assumptions, not facts about the application, which
uses one thread; only layers 1 and 2 apply to it.

They speak of `SdkEnv`'s `Spec`, whose client keeps to `imgsdk.h`.

`SdkHostsProofs` is about the programs, which do not keep to it (no hypotheses but those on
the constants). None of its properties is inductive: what a call does depends on which
calls were made before it, and a handler's calls are spread over many steps.
`HostInv` therefore describes the calls still in `todo`. `Plan` says which sequences of calls there can be
and in whose name; `CallSafe` says of *each* of them, not only of the next, that it finds its
instance in the state it needs, taking the calls before it into account;
`OneHolder` gives every allocated instance to one pointer or one handler's local variable, and
`NoneLost` says that a holder who can still free it has it. `HandlesAlwaysLive` is `CallSafe` for the
head of `todo`; `NeverOrphaned` is `NoneLost` when `todo` is empty.

`ContextNeverLost` carries layers 1 and 2 over to the programs, although they break
`SdkEnv`'s contract by calling an instance that `initSdkEnv` has freed. The application and
`main` initialise each instance once: `ClientInv` is `InputInv` and `ContextInv`
with `InitOnce` (a handler's calls hold one initialisation, of a new instance),
`FreshLocal` (that instance has not been tried before) and `CheckedFirst` (the return of
`newBlankSdkEnv` is tested before that of `initSdkEnv`). Under `HostInv` and `ClientInv` each of
their calls is a step that `ContextStepOnce` allows, which asks of a step only
that it initialises no instance twice, where `ContextStep` asks for `Reinit = FALSE`. The native activity
initialises one instance for window after window and is not covered.

What `main` saves is followed call by call. `MainInv` says that the calls in `todo` are
the last ones of `MainCalls`, and `MainAt(left, e)` what main's instance is like with
`left` calls to go: off screen and current from its creation on, with a path, then with
the picture of that path in memory and in the texture, then drawn, then saved. A load that
fails leaves no picture, and `main` goes on to crash on it, so it does not come to its end
(`ConsoleAlwaysSaves`). With `OtherTyped`, the variables the proofs did not need
until then, `HostsTypeCorrect` follows.

What the window shows needs both the pointers and the contexts. `ViewInv` knows three
situations of a surface that is there. `Watching`: no call on the view's instance is
pending. Its instance, if it has one, is on screen with its callbacks set (`Works`), its context
is current unless HomeActivity came or went, and if it is current its texture holds the
image in memory; that image is the activity's if this instance was given the paths, and
there is none otherwise (`Given`); and if a click was answered, the window shows it
(`Shows`). `SettingUp` and `Clicking` say the same of a handler's middle, with the calls
that are left: `SetUpAt(left, e)` what the new instance is like in `surfaceCreated`,
`ClickAt(left, e)` what the view's instance is like in `onClick`. HomeActivity's calls run in
between, on the same thread: `Harmless` says which they are (a
call that moves a context only when `disturbed`; a call that uploads or draws only when
RenderActivity is on its way out), and `ActsApart` that no call on one instance reaches
another's image, texture or window but by moving the current context. That
an instance which is not current is never drawn to, and *stays* not current
(`ChargeOnlyLost`: a context is made once), makes the invariant inductive where
`AnsweredClickShows` alone is not. `ContextTakenByHomeOnly` and `ClicksAreShown` are what
`ViewInv` says when `todo` is empty.

Only model-checked: the two liveness properties,
`EverythingListed` and `LoadEnds` (of which `IntactIsRead` is the part that is safety: on its way to
the end an intact file meets no error); and the violations of section 4. Out of the prover's
reach, and therefore TLC's alone: liveness under fairness, `ENABLED`, induction
over data, anything with a RECURSIVE operator (the modules have none).

## 6. Not modelled, and why

- Pixels, colour conversion, compression, shader arithmetic: no property tells two
  pictures of one path apart except by `form`, or two lines except by their
  number. libjpeg's transforms and libpng's filters are arithmetic on data without control.
- Compiling and linking: one step of the initialisation that may fail. The
  GLSL programs run on the GPU.
- In the codecs: interlaced PNGs (seven passes), JPEGs of several scans, files cut
  inside a JPEG marker, a `tRNS` chunk that makes a palette picture RGBA; and data in a damaged chunk that
  look like a chunk header, where libpng would find its way again by accident. libpng's
  *writer*, which gets whole rows and has no state of ours.
- The text of JSON: cJSON enters `EffectParser` by what it returns.
- Memory of the libraries themselves, and what `jstring2string` allocates and no native
  method frees (NativeImageSdk.c): it belongs to no instance.
- `strdup` that fails (imgsdk.c:1183 and 1213), where the code does not look.
- The callbacks `onCreate` and `onDestroy`: both bodies are empty
  (imgsdk.c:1503-1509), so `onSdkCreate` and `onSdkDestroy` change nothing. In
  particular `onSdkDestroy` does not free the instance.
- The application's picture loader, list margins, toasts and layout: no state of
  the program. libpng's and libjpeg's tools, tests and examples are not part of it.

Nearly all of the repository's lines are libpng, libjpeg and cJSON. What is
modelled of them is the control this program can reach; the rest would be a
model of those libraries, not of this SDK.

## 7. What is left

Everything that keeps state in the program's own code is modelled. What would add
to it, in this order:

1. The seven passes of interlaced PNGs in `PngReader`, where `row_number` starts
   again for every pass, so that a retry in a later pass meets another state.
2. Memory and contexts in one module: which blocks a *host* loses, when the
   native activity runs for many windows.
