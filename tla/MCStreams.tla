------------------------------ MODULE MCStreams ----------------------------
(***************************************************************************)
(* What carries values from the server to the client: a streamed page, a   *)
(* streamed rpc answer, a subscription's mailbox, and the bindings that    *)
(* keep the cache in step. They share nothing: `subject` says which of     *)
(* them a behaviour is about, and the others rest in their initial state,  *)
(* where none of the fair actions is enabled.                              *)
(***************************************************************************)
EXTENDS CacheOn, Frames, Mailbox, ResolveStream

VARIABLE subject

streamVars == <<onvars, fvars, mvars, rsvars, subject>>

Init ==
    /\ OnInit /\ FramesInit /\ MailInit /\ ResolveInit
    /\ subject \in {"binding", "frames", "mailbox", "page"}
    /\ subject # "frames" => format = "sse"

Next ==
    /\ UNCHANGED subject
    /\ \/ subject = "binding" /\ OnNext /\ UNCHANGED <<fvars, mvars, rsvars>>
       \/ subject = "frames" /\ FramesNext /\ UNCHANGED <<onvars, mvars, rsvars>>
       \/ subject = "mailbox" /\ MailNext /\ UNCHANGED <<onvars, fvars, rsvars>>
       \/ subject = "page" /\ ResolveNext /\ UNCHANGED <<onvars, fvars, mvars>>

Spec ==
    /\ Init /\ [][Next]_streamVars
    /\ FramesFairness /\ MailFairness /\ ResolveFairness

TypeOK == OnTypeOK /\ FramesType /\ MailType /\ ResolveType

(* What a reader is handed is what was sent: the frames of an answer, cut  *)
(* anywhere, and the latest of a mailbox at its cap, in their order        *)
(* (streamResponse.ts, createPushIterator.ts).                             *)
DeliveryExact == FramesExact /\ LatestWins

=============================================================================
