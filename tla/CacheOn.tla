------------------------------- MODULE CacheOn -------------------------------
(***************************************************************************)
(* cache.on: bindings that keep the cached calls of one remote function in *)
(* step with a socket. A write at the server publishes one frame; a        *)
(* binding either folds it into every entry of the function (patch) or     *)
(* drops them (invalidate). The bindings run on their own: each awaits its *)
(* handler before it pulls the next frame, and a patch awaits the answer   *)
(* of an entry it finds cold.                                              *)
(*                                                                         *)
(* A value is the set of writes it reflects. Every key is on screen: what  *)
(* shows is what the last read of its key gave.                            *)
(***************************************************************************)
EXTENDS Naturals, Sequences, FiniteSets, SequencesExt

CONSTANTS
    Variants,       \* the args the function was called with
    Failing,    \* those the server may answer with an error response
    Patchers,   \* the bindings whose handler patches
    Droppers,   \* the bindings whose handler invalidates
    Writes,     \* the writes the server takes
    MaxBuffer,  \* the pending frames a subscription holds (1024)
    MaxLosses   \* bound: how often a binding loses its transport

Bindings == Patchers \cup Droppers

ASSUME CacheOnAssumption ==
    /\ Failing \subseteq Variants
    /\ Patchers \cap Droppers = {} /\ Bindings # {} /\ Writes # {}
    /\ MaxBuffer \in Nat \ {0} /\ MaxLosses \in Nat

VARIABLES
    world,      \* the writes the server has taken
    cached,     \* per key: the entry in the store
    shown,      \* per key: the writes on screen
    binding,    \* per binding: its loop
    missed,     \* history: the frames a binding lost beyond its coverage's reach
    losses      \* the transports lost

onvars == <<world, cached, shown, binding, missed, losses>>

-----------------------------------------------------------------------------
(* "loading": the call is in the air, `served` once the server answered.   *)
(* "cold": a settled response; "warm": entry.value is set. `seen` is what  *)
(* the response reflects, `value` what was folded.                         *)
OnEntry == [state : {"loading", "cold", "warm", "error"}, served : BOOLEAN,
          seen : SUBSET Writes, value : SUBSET Writes]

Called == [state |-> "loading", served |-> FALSE, seen |-> {}, value |-> {}]

(* at: the keys whose entry a patch waits for, one or none; orphan: that   *)
(* entry lost its key meanwhile.                                           *)
Binding == [pc : {"idle", "patching"}, link : {"live", "lost", "opening"},
            queue : Seq(Writes), covers : BOOLEAN, frame : Writes,
            todo : SUBSET Variants, at : SUBSET Variants, orphan : BOOLEAN, touched : SUBSET Variants]

OnInit ==
    /\ world = {}
    /\ cached = [k \in Variants |-> Called]
    /\ shown = [k \in Variants |-> {}]
    /\ binding = [b \in Bindings |->
           [pc |-> "idle", link |-> "live", queue |-> <<>>, covers |-> FALSE,
            frame |-> CHOOSE w \in Writes : TRUE,
            todo |-> {}, at |-> {}, orphan |-> FALSE, touched |-> {}]]
    /\ missed = {}
    /\ losses = 0

-----------------------------------------------------------------------------
(* The server and the screen. *)

(* deliver(): at the cap the oldest frame goes.                            *)
delivered(q, w) == IF Len(q) >= MaxBuffer THEN Append(Tail(q), w) ELSE Append(q, w)

dropped(q) == IF Len(q) >= MaxBuffer THEN {Head(q)} ELSE {}

Write(w) ==
    /\ w \notin world
    /\ world' = world \cup {w}
    /\ binding' = [b \in Bindings |->
           IF binding[b].link = "live" THEN [binding[b] EXCEPT !.queue = delivered(@, w)]
                                       ELSE binding[b]]
    /\ missed' = missed
           \cup (UNION {dropped(binding[b].queue) : b \in {c \in Bindings : binding[c].link = "live"}})
           \cup {v \in {w} : \E b \in Bindings : \/ binding[b].link = "opening"
                                                 \/ binding[b].link = "lost" /\ ~binding[b].covers}
    /\ UNCHANGED <<cached, shown, losses>>

Serve(k) ==
    /\ cached[k].state = "loading" /\ ~cached[k].served
    /\ cached' = [cached EXCEPT ![k].served = TRUE, ![k].seen = world]
    /\ UNCHANGED <<world, shown, binding, missed, losses>>

(* The response is here; an error response is kept like any other.         *)
Land(k) ==
    /\ cached[k].state = "loading" /\ cached[k].served
    /\ \E s \in {"cold"} \cup {"error" : f \in Failing \cap {k}} :
           cached' = [cached EXCEPT ![k].state = s]
    /\ shown' = [shown EXCEPT ![k] = cached[k].seen]
    /\ UNCHANGED <<world, binding, missed, losses>>

-----------------------------------------------------------------------------
(* invalidate(): every entry of the function goes, and the readers call    *)
(* again. A patch that waits for one of them is left with a dead entry.    *)
invalidated(bs) ==
    /\ cached' = [k \in Variants |-> Called]
    /\ binding' = [b \in Bindings |->
           [bs[b] EXCEPT !.orphan = @ \/ bs[b].at # {},
                         !.todo = IF bs[b].pc = "patching" THEN Variants ELSE @]]

Pulls(b) ==
    /\ binding[b].pc = "idle" /\ binding[b].queue # <<>>

(* A frame whose handler invalidates: done before the next is pulled.      *)
Drop(b) ==
    /\ b \in Droppers
    /\ Pulls(b)
    /\ invalidated([binding EXCEPT ![b].queue = Tail(@), ![b].covers = TRUE])
    /\ UNCHANGED <<world, shown, missed, losses>>

(* A frame whose handler patches: patchEntries() sets out.                 *)
Patch(b) ==
    /\ b \in Patchers
    /\ Pulls(b)
    /\ binding' = [binding EXCEPT ![b].queue = Tail(@), ![b].covers = TRUE,
                       ![b].frame = Head(binding[b].queue),
                       ![b].pc = "patching", ![b].todo = Variants, ![b].touched = {}]
    /\ UNCHANGED <<world, cached, shown, missed, losses>>

Fold(b, k, current) == [cached EXCEPT ![k].value = current \cup {binding[b].frame},
                                     ![k].state = "warm"]

(* A warm entry is folded at once, in whatever order the store holds them. *)
PatchWarm(b, k) ==
    /\ binding[b].pc = "patching" /\ binding[b].at = {} /\ k \in binding[b].todo
    /\ cached[k].state = "warm"
    /\ cached' = Fold(b, k, cached[k].value)
    /\ binding' = [binding EXCEPT ![b].todo = @ \ {k}, ![b].touched = @ \cup {k}]
    /\ UNCHANGED <<world, shown, missed, losses>>

(* A cold or loading one is awaited.                                       *)
PatchWaits(b, k) ==
    /\ binding[b].pc = "patching" /\ binding[b].at = {} /\ k \in binding[b].todo
    /\ cached[k].state # "warm"
    /\ binding' = [binding EXCEPT ![b].todo = @ \ {k}, ![b].at = {k}, ![b].orphan = FALSE]
    /\ UNCHANGED <<world, cached, shown, missed, losses>>

resumed(b, k) == binding' = [binding EXCEPT ![b].at = {}, ![b].touched = @ \cup {k}]

(* Fault: the fold takes entry.value as it stands when the await returns,  *)
(* and a first fold finds nothing there.                                   *)
PatchResumesEmpty(b, k) ==
    /\ k \in binding[b].at /\ ~binding[b].orphan
    /\ cached[k].state \in {"cold", "warm"}
    /\ cached' = Fold(b, k, cached[k].value)
    /\ resumed(b, k)
    /\ UNCHANGED <<world, shown, missed, losses>>

(* The answer is decoded and folded, whatever was folded meanwhile.        *)
PatchResumes(b, k) ==
    /\ k \in binding[b].at /\ ~binding[b].orphan
    /\ cached[k].state \in {"cold", "warm"}
    /\ cached' = Fold(b, k, cached[k].seen)
    /\ resumed(b, k)
    /\ UNCHANGED <<world, shown, missed, losses>>

(* The entry lost its key: the fold goes nowhere.                          *)
PatchOrphan(b, k) ==
    /\ k \in binding[b].at /\ binding[b].orphan
    /\ resumed(b, k)
    /\ UNCHANGED <<world, cached, shown, missed, losses>>

(* An error response throws out of patchEntries() and of the handler: it   *)
(* is logged, and the binding lives on.                                    *)
PatchThrows(b, k) ==
    /\ k \in binding[b].at
    /\ IF binding[b].orphan THEN k \in Failing ELSE cached[k].state = "error"
    /\ binding' = [binding EXCEPT ![b].pc = "idle", ![b].at = {}, ![b].todo = {}]
    /\ missed' = missed \cup {binding[b].frame}
    /\ UNCHANGED <<world, cached, shown, losses>>

(* emitInvalidation(): the readers of what was folded read it.             *)
PatchDone(b) ==
    /\ binding[b].pc = "patching" /\ binding[b].at = {} /\ binding[b].todo = {}
    /\ shown' = [k \in Variants |-> IF k \in binding[b].touched /\ cached[k].state = "warm"
                                THEN cached[k].value ELSE shown[k]]
    /\ binding' = [binding EXCEPT ![b].pc = "idle"]
    /\ UNCHANGED <<world, cached, missed, losses>>

-----------------------------------------------------------------------------
(* The transport. What was pushed before the loss is still to be drained.  *)

Lose(b) ==
    /\ binding[b].link = "live" /\ losses < MaxLosses
    /\ losses' = losses + 1
    /\ binding' = [binding EXCEPT ![b].link = "lost"]
    /\ missed' = missed
    /\ UNCHANGED <<world, cached, shown>>

AtLoss(b) ==
    /\ binding[b].pc = "idle" /\ binding[b].queue = <<>> /\ binding[b].link = "lost"

(* Fault: it just subscribes again.                                        *)
NoticeOnly(b) ==
    /\ AtLoss(b)
    /\ binding' = [binding EXCEPT ![b].link = "opening"]
    /\ UNCHANGED <<world, cached, shown, missed, losses>>

(* The typed disconnect is drained: everything covered is invalidated, and *)
(* the source is opened again.                                             *)
Notice(b) ==
    /\ AtLoss(b)
    /\ IF binding[b].covers
       THEN invalidated([binding EXCEPT ![b].link = "opening"])
       ELSE binding' = [binding EXCEPT ![b].link = "opening"] /\ cached' = cached
    /\ UNCHANGED <<world, shown, missed, losses>>

(* The channel's backoff is over and the server has the new subscription.  *)
Reopen(b) ==
    /\ binding[b].link = "opening"
    /\ binding' = [binding EXCEPT ![b].link = "live"]
    /\ UNCHANGED <<world, cached, shown, missed, losses>>

-----------------------------------------------------------------------------
OnNext ==
    \/ \E w \in Writes : Write(w)
    \/ \E k \in Variants : Serve(k) \/ Land(k)
    \/ \E b \in Bindings :
           \/ Drop(b) \/ Patch(b) \/ PatchDone(b)
           \/ Lose(b) \/ Notice(b) \/ Reopen(b)
           \/ \E k \in Variants : \/ PatchWarm(b, k) \/ PatchWaits(b, k) \/ PatchResumes(b, k)
                              \/ PatchOrphan(b, k) \/ PatchThrows(b, k)

OnSpec == OnInit /\ [][OnNext]_onvars

-----------------------------------------------------------------------------
OnTypeOK ==
    /\ world \subseteq Writes
    /\ cached \in [Variants -> OnEntry]
    /\ shown \in [Variants -> SUBSET Writes]
    /\ binding \in [Bindings -> Binding]
    /\ missed \subseteq Writes
    /\ losses \in 0 .. MaxLosses

(* Nothing is under way between the server and the screen.                 *)
Quiet ==
    /\ \A k \in Variants : cached[k].state # "loading"
    /\ \A b \in Bindings : /\ binding[b].pc = "idle" /\ binding[b].queue = <<>>
                           /\ binding[b].link = "live"

(* With everything at rest the screen shows every write its last answer    *)
(* reflected and every later one, whatever way folds, drops, loads and     *)
(* losses came in, but for the later frames no binding could have had:     *)
(* those sent before it covered anything or while it was opening its       *)
(* source again, those its full buffer let go, and those whose patch met   *)
(* an error response and stopped half way.                                 *)
ScreenKept ==
    Quiet => \A k \in Variants :
        cached[k].state # "error" => world \ shown[k] \subseteq missed \ cached[k].seen

(* The binding's promise: over-invalidating costs a refetch, never         *)
(* correctness. A covered binding that reconnects is in step again.        *)
ReconnectHeals ==
    Quiet /\ (\A b \in Bindings : binding[b].covers) =>
        \A k \in Variants : cached[k].state # "error" => shown[k] = world
=============================================================================
