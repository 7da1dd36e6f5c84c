--------------------------- MODULE SdkEnvSession ---------------------------
(***************************************************************************)
(* SdkEnv implements EditSession when every instance has a thread of its   *)
(* own and is initialised once: each call of imgsdk.h is one step of the   *)
(* session it is made for, or changes nothing a client can see.            *)
(***************************************************************************)
EXTENDS SdkEnv

(* The session an instance stands for: open while the client may use it,   *)
(* pending while the path is the active source of setEffectCmd.  The image *)
(* is the parameter, the screen what its own context was drawn to.         *)
PhaseOf(e) == IF user[e].active = "path" THEN "pending" ELSE "open"

SessionOf(e) ==
    IF Ready(e)
    THEN [phase    |-> PhaseOf(e),
          works    |-> sdk[e].linked,
          selected |-> user[e].input,
          loaded   |-> user[e].param,
          screen   |-> target[egl[e].context]]
    ELSE [phase |-> "closed", works |-> FALSE, selected |-> NoPath,
          loaded |-> NoImage, screen |-> NoImage]

Sessions ==
    INSTANCE EditSession WITH
        Session <- Env,
        SourceOf <- [picture \in Picture |-> picture.src],
        alive <- proc = "running",
        session <- [e \in Env |-> SessionOf(e)]

(* imgsdk.h as a whole: whatever two clients call, on their own threads,   *)
(* each sees its own session of EditSession: what it renders is the image  *)
(* it selected and applied last, after failed loads and closed neighbours. *)
ImplementsSessions == Sessions!Spec
=============================================================================
