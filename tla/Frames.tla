------------------------------- MODULE Frames --------------------------------
(***************************************************************************)
(* A streamed rpc answer from the handler's generator to the consumer's    *)
(* loop: streamFromIterator() encodes frames onto the wire, the network    *)
(* cuts the text anywhere, and frameReader() finds the frames again for    *)
(* the Subscribable of fn.stream(). Either side may end it.                *)
(*                                                                         *)
(* Text is a sequence of tokens: 0 is a newline, n > 0 the JSON of the     *)
(* n-th value. How a value is written does not matter, where a delimiter   *)
(* is cut does.                                                            *)
(***************************************************************************)
EXTENDS Naturals, Sequences

CONSTANTS
    MaxFrames,  \* bound: the values the handler yields
    MaxBeats    \* bound: the keepalive comments of an sse stream

ASSUME FramesAssumption == MaxFrames \in Nat /\ MaxBeats \in Nat

Newline == 0
ErrorText == MaxFrames + 1
Comment == MaxFrames + 2

VARIABLES
    format,     \* "sse" or "jsonl"
    handler,    \* the generator: running, ended, threw or returned
    sent,       \* the values it yielded
    beats,      \* the keepalives sent
    pipe,       \* text on its way
    client,     \* the Subscribable's iterator
    got         \* the values the consumer has received

fvars == <<format, handler, sent, beats, pipe, client, got>>

-----------------------------------------------------------------------------
(* `stop`: how the consumer stopped, if it did: before it pulled, between  *)
(* two pulls, or with one pending.                                         *)
Client == [pc : {"fresh", "fetching", "open", "reading", "done", "threw"},
           buffer : Seq(Nat), start : Nat, body : {"none", "open", "cancelled", "drained"},
           stop : {"no", "fresh", "between", "pending"}]

FramesInit ==
    /\ format \in {"sse", "jsonl"}
    /\ handler = "running" /\ sent = 0 /\ beats = 0
    /\ pipe = <<>> /\ got = <<>>
    /\ client = [pc |-> "fresh", buffer |-> <<>>, start |-> 0, body |-> "none", stop |-> "no"]

Delimiter == IF format = "sse" THEN <<Newline, Newline>> ELSE <<Newline>>

-----------------------------------------------------------------------------
(* The server. The request is there once the client fetched.               *)

serving == client.body # "none" /\ handler = "running"

(* pull(): the next value is encoded and enqueued.                         *)
Yield ==
    /\ serving /\ sent < MaxFrames
    /\ sent' = sent + 1
    /\ pipe' = pipe \o <<sent'>> \o Delimiter
    /\ UNCHANGED <<format, handler, beats, client, got>>

EndHandler ==
    /\ serving
    /\ handler' = "ended"
    /\ UNCHANGED <<format, sent, beats, pipe, client, got>>

(* The generator throws: the sentinel frame, then the end.                 *)
ThrowHandler ==
    /\ serving
    /\ handler' = "threw"
    /\ pipe' = pipe \o <<ErrorText>> \o Delimiter
    /\ UNCHANGED <<format, sent, beats, client, got>>

Keepalive ==
    /\ serving /\ format = "sse" /\ beats < MaxBeats
    /\ beats' = beats + 1
    /\ pipe' = pipe \o <<Comment>> \o Delimiter
    /\ UNCHANGED <<format, handler, sent, client, got>>

(* cancel(): a reader that let go of the body ends the generator.          *)
CancelArrives ==
    /\ client.body = "cancelled" /\ handler = "running"
    /\ handler' = "returned"
    /\ UNCHANGED <<format, sent, beats, pipe, client, got>>

-----------------------------------------------------------------------------
(* The client. *)

Unread == SubSeq(client.buffer, client.start + 1, Len(client.buffer))

(* indexOf(delimiter, bufferStart): the frame is what lies before.         *)
Boundaries ==
    {i \in client.start .. Len(client.buffer) - Len(Delimiter) :
         SubSeq(client.buffer, i + 1, i + Len(Delimiter)) = Delimiter}

(* The first pull fetches; the others read on.                             *)
Pull ==
    /\ client.stop = "no"
    /\ \/ client.pc = "fresh" /\ client' = [client EXCEPT !.pc = "fetching"]
       \/ client.pc = "open" /\ client' = [client EXCEPT !.pc = "reading"]
    /\ UNCHANGED <<format, handler, sent, beats, pipe, got>>

(* The response is there. After a return() the reader is not even begun:   *)
(* inner.return() ends a generator whose finally was never entered.        *)
Fetched ==
    /\ client.pc = "fetching"
    /\ client' = [client EXCEPT !.body = "open",
                                !.pc = IF client.stop = "no" THEN "reading" ELSE "done"]
    /\ UNCHANGED <<format, handler, sent, beats, pipe, got>>

(* Fault: the compacted buffer is read from where the old one was.         *)
CompactsAdrift(chunk) ==
    client' = [client EXCEPT !.buffer = IF client.start * 2 > Len(@) THEN Unread \o chunk
                                        ELSE @ \o chunk]

(* The consumed prefix goes once it is more than half of the buffer.       *)
Compacts(chunk) ==
    client' = IF client.start * 2 > Len(client.buffer)
              THEN [client EXCEPT !.buffer = Unread \o chunk, !.start = 0]
              ELSE [client EXCEPT !.buffer = @ \o chunk]

(* reader.read(): some of the text, cut anywhere.                          *)
Chunk ==
    /\ client.pc = "reading" /\ Boundaries = {}
    /\ \E n \in 1 .. Len(pipe) :
           /\ Compacts(SubSeq(pipe, 1, n))
           /\ pipe' = SubSeq(pipe, n + 1, Len(pipe))
    /\ UNCHANGED <<format, handler, sent, beats, got>>

(* A parser's frame: a value is yielded, the sentinel throws, and what is  *)
(* neither (a comment, an empty line) is skipped.                          *)
Text(raw) == {raw[i] : i \in DOMAIN raw} \ {Newline, Comment}

(* A yield hands the value to the pull. A return() that came while it was  *)
(* pending is next in the generator's queue, and its finally cancels.      *)
parsed(raw, then) ==
    LET t == Text(raw)
        c == [client EXCEPT !.start = then]
    IN  CASE t = {} -> client' = c /\ got' = got
          [] ErrorText \in t ->
                 client' = [c EXCEPT !.pc = "threw", !.body = "cancelled"] /\ got' = got
          [] OTHER ->
                 /\ got' = Append(got, CHOOSE v \in t : TRUE)
                 /\ client' = IF client.stop = "no" THEN [c EXCEPT !.pc = "open"]
                              ELSE [c EXCEPT !.pc = "done", !.body = "cancelled"]

Frame ==
    /\ client.pc = "reading"
    /\ \E i \in Boundaries :
           /\ \A j \in Boundaries : i <= j
           /\ parsed(SubSeq(client.buffer, client.start + 1, i), i + Len(Delimiter))
    /\ UNCHANGED <<format, handler, sent, beats, pipe>>

(* The body is at its end: a trailing frame without a delimiter is still   *)
(* one, and then the reader is done.                                       *)
Eof ==
    /\ client.pc = "reading" /\ Boundaries = {} /\ pipe = <<>>
    /\ handler \in {"ended", "threw"}
    /\ IF Unread # <<>> THEN parsed(Unread, Len(client.buffer))
       ELSE client' = [client EXCEPT !.pc = "done", !.body = "drained"] /\ got' = got
    /\ UNCHANGED <<format, handler, sent, beats, pipe>>

(* Fault: return() only marks the iterator cancelled.                      *)
ReturnMarks ==
    /\ client.stop = "no" /\ client.pc \in {"fresh", "fetching", "open", "reading"}
    /\ client' = CASE client.pc = "fresh" -> [client EXCEPT !.stop = "fresh", !.pc = "done"]
                   [] client.pc = "open" -> [client EXCEPT !.stop = "between", !.pc = "done"]
                   [] OTHER -> [client EXCEPT !.stop = "pending"]
    /\ UNCHANGED <<format, handler, sent, beats, pipe, got>>

(* return(): between pulls the generator's finally cancels the body; with  *)
(* a pull pending the generator is not there to take it.                   *)
Return ==
    /\ client.stop = "no" /\ client.pc \in {"fresh", "fetching", "open", "reading"}
    /\ client' = CASE client.pc = "fresh" -> [client EXCEPT !.stop = "fresh", !.pc = "done"]
                   [] client.pc = "open" ->
                          [client EXCEPT !.stop = "between", !.pc = "done", !.body = "cancelled"]
                   [] OTHER -> [client EXCEPT !.stop = "pending"]
    /\ UNCHANGED <<format, handler, sent, beats, pipe, got>>

-----------------------------------------------------------------------------
FramesNext ==
    \/ Yield \/ EndHandler \/ ThrowHandler \/ Keepalive \/ CancelArrives
    \/ Pull \/ Fetched \/ Chunk \/ Frame \/ Eof \/ Return

(* The network delivers and the reader's loop runs. A handler may be       *)
(* silent for ever, and a consumer need not pull.                          *)
FramesFairness ==
    /\ WF_fvars(CancelArrives)
    /\ WF_fvars(Fetched) /\ WF_fvars(Chunk) /\ WF_fvars(Frame) /\ WF_fvars(Eof)

FramesSpec == FramesInit /\ [][FramesNext]_fvars /\ FramesFairness

-----------------------------------------------------------------------------
FramesType ==
    /\ handler \in {"running", "ended", "threw", "returned"}
    /\ sent \in 0 .. MaxFrames /\ beats \in 0 .. MaxBeats
    /\ pipe \in Seq(0 .. Comment) /\ got \in Seq(0 .. Comment)
    /\ client \in Client

(* The consumer gets the handler's values, each once and in order, however *)
(* the text was cut; a clean end means it got them all, and it throws only *)
(* after the last value of a handler that threw.                           *)
FramesExact ==
    /\ got = [i \in 1 .. Len(got) |-> i]
    /\ client.pc = "done" /\ client.stop = "no" => handler = "ended" /\ Len(got) = sent
    /\ client.pc = "threw" => handler = "threw" /\ Len(got) = sent

(* A consumer that stops between two pulls ends the handler's generator.   *)
StopReachesHandler == (client.stop = "between") ~> (handler # "running")

(* And so does one that stops with a pull pending, as a component does     *)
(* that is torn down while it waits for the next frame.                    *)
ReturnFrees == (client.stop # "no" /\ client.body # "none") ~> (handler # "running")
=============================================================================
