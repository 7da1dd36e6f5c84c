---------------------------- MODULE EditSession ----------------------------
(***************************************************************************)
(* What imgsdk.h promises to a client with several editing sessions, with  *)
(* no word of threads, contexts, textures or memory.  A session is opened, *)
(* an image is selected, applied and rendered, and the session is closed.  *)
(* No step of a session changes another one.                               *)
(***************************************************************************)
CONSTANTS
    Session,        \* the sessions of the process
    Path,           \* the images that can be selected
    Picture,        \* decoded images
    SourceOf,       \* the path a picture was decoded from
    NoPath,
    NoImage

VARIABLES
    alive,          \* the process runs
    session         \* the open sessions, Closed for the others

(* phase: closed, open, or open with a selected image that is not applied  *)
(* yet; works: it has a program to render with; loaded: the image that was *)
(* applied last; screen: what the last rendering delivered.                *)
Record(phase, works, selected, loaded, screen) ==
    [phase |-> phase, works |-> works, selected |-> selected, loaded |-> loaded,
     screen |-> screen]

Closed == Record("closed", FALSE, NoPath, NoImage, NoImage)

IsOpen(s) == session[s].phase # "closed"

Init ==
    /\ alive = TRUE
    /\ session = [s \in Session |-> Closed]

Becomes(s, record) == session' = [session EXCEPT ![s] = record]

Open(s) ==
    /\ ~IsOpen(s)
    /\ \E works \in BOOLEAN :
          Becomes(s, Record("open", works, NoPath, NoImage, NoImage))
    /\ UNCHANGED alive

Select(s, path) ==
    /\ IsOpen(s)
    /\ LET old == session[s]
       IN  Becomes(s, Record("pending", old.works, path, old.loaded, old.screen))
    /\ UNCHANGED alive

(* The image that is applied is the selected one.  An earlier result may   *)
(* be lost with it, it is never replaced by anything else.                 *)
Apply(s) ==
    /\ session[s].phase = "pending"
    /\ LET old == session[s]
       IN  \E picture \in Picture, screen \in {old.screen, NoImage} :
              /\ SourceOf[picture] = old.selected
              /\ Becomes(s, Record("open", old.works, old.selected, picture, screen))
    /\ UNCHANGED alive

(* Rendering delivers the image that was applied last.                     *)
Rendered(s) == IF session[s].works THEN session[s].loaded ELSE NoImage

Render(s) ==
    /\ IsOpen(s)
    /\ Becomes(s, [session[s] EXCEPT !.screen = Rendered(s)])
    /\ UNCHANGED alive

Discard(s) ==
    /\ IsOpen(s)
    /\ Becomes(s, [session[s] EXCEPT !.screen = NoImage])
    /\ UNCHANGED alive

Close(s) ==
    /\ IsOpen(s)
    /\ Becomes(s, Closed)
    /\ UNCHANGED alive

(* The process is lost, and every session with it.                         *)
Lose ==
    /\ alive' = FALSE
    /\ session' = [s \in Session |-> Closed]

Next ==
    /\ alive
    /\ \/ \E s \in Session :
            \/ Open(s) \/ Apply(s) \/ Render(s) \/ Discard(s) \/ Close(s)
            \/ \E path \in Path : Select(s, path)
       \/ Lose

Spec == Init /\ [][Next]_<<alive, session>>
=============================================================================
