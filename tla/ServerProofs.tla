--------------------------- MODULE ServerProofs ----------------------------
(***************************************************************************)
(* Proofs about what MCServer puts side by side: the requests, for any     *)
(* number of them and of loads, and the two polls.                         *)
(***************************************************************************)
EXTENDS MCServer, TLAPS

-----------------------------------------------------------------------------
(* What is true of one request, whatever the others do. A body that is     *)
(* being pulled is a logged answer's; the stream is settled exactly when   *)
(* its record is written; nothing is answered before it is closed or       *)
(* streams; and the deadline of a call under way is composed onto the      *)
(* Request its store holds.                                                *)
Recorded(r) ==
    /\ stream[r].settled <=> records[r] = 1
    /\ records[r] = IF call[r].pc = "closed" /\ call[r].logged /\ call[r].answer # "reset"
                    THEN 1 ELSE 0

Streamed(r) ==
    /\ call[r].pc = "streaming" => call[r].logged /\ call[r].answer = "ok"
    /\ stream[r].pulling => call[r].pc \in {"streaming", "closed"}
                            /\ call[r].logged /\ call[r].answer = "ok"

Composed(r) ==
    /\ call[r].answer # "none" => call[r].pc \in {"streaming", "closed"}
    /\ call[r].pc = "calling" /\ call[r].timed => store[r].controller = store[r].req
    /\ call[r].answer = "deadline" => Aborted(r)

One(r) == Recorded(r) /\ Streamed(r) /\ Composed(r)

RequestsInv == RequestsType /\ LoadsAccounted /\ \A r \in Requests : One(r)

LEMMA RequestsInitially == RequestsInit => RequestsInv
BY RequestsAssumption DEF RequestsInit, RequestsInv, RequestsType, LoadsAccounted, One, Recorded, Streamed,
   Composed, Idle, Call, Store, Pcs, Answers

-----------------------------------------------------------------------------
(* Nothing that One speaks of changes for q.                               *)
Same(q) ==
    /\ call'[q] = call[q] /\ store'[q] = store[q]
    /\ stream'[q] = stream[q] /\ records'[q] = records[q]

CallTypes ==
    /\ call \in [Requests -> Call]
    /\ stream \in [Requests -> [pulling : BOOLEAN, client : BOOLEAN, settled : BOOLEAN]]
    /\ records \in [Requests -> 0 .. 3]

LEMMA SameKeeps ==
    ASSUME NEW q \in Requests, One(q), Same(q)
    PROVE  One(q)'
BY DEF One, Recorded, Streamed, Composed, Aborted, Same

(* emitClose writes the one record there is to write.                      *)
LEMMA EmitCloses ==
    ASSUME NEW r \in Requests, CallTypes, stream[r].settled <=> records[r] = 1,
           records[r] \in 0 .. 1, emitClose(r)
    PROVE  /\ stream' \in [Requests -> [pulling : BOOLEAN, client : BOOLEAN, settled : BOOLEAN]]
           /\ records' \in [Requests -> 0 .. 3]
           /\ records'[r] = 1 /\ stream'[r].settled /\ ~ stream'[r].pulling
           /\ \A q \in Requests \ {r} : stream'[q] = stream[q] /\ records'[q] = records[q]
<1>1. stream[r] \in [pulling : BOOLEAN, client : BOOLEAN, settled : BOOLEAN]
  BY DEF CallTypes
<1>2. stream' = [stream EXCEPT ![r] = [@ EXCEPT !.settled = TRUE, !.pulling = FALSE]]
  BY DEF emitClose
<1>3. /\ stream' \in [Requests -> [pulling : BOOLEAN, client : BOOLEAN, settled : BOOLEAN]]
      /\ stream'[r].settled /\ ~ stream'[r].pulling
      /\ \A q \in Requests \ {r} : stream'[q] = stream[q]
  BY <1>1, <1>2 DEF CallTypes
<1>4. records' = [records EXCEPT ![r] = 1]
  <2>1. CASE stream[r].settled
    <3>1. records[r] = 1
      BY <2>1
    <3>2. records' = [records EXCEPT ![r] = records[r]]
      BY <2>1, Zenon DEF emitClose
    <3> QED BY <3>1, <3>2
  <2>2. CASE ~ stream[r].settled
    <3>1. records[r] = 0
      BY <2>2
    <3>2. records' = [records EXCEPT ![r] = records[r] + 1]
      BY <2>2, Zenon DEF emitClose
    <3> QED BY <3>1, <3>2
  <2> QED BY <2>1, <2>2
<1> QED BY <1>3, <1>4 DEF CallTypes

(* An answer closes the request with its record, or starts its stream.     *)
LEMMA AnswersOnce ==
    ASSUME NEW r \in Requests, CallTypes, One(r), NEW a \in Answers \ {"none", "reset"},
           call[r].pc \notin {"streaming", "closed"}, answers(r, a)
    PROVE  /\ CallTypes'
           /\ Recorded(r)' /\ Streamed(r)'
           /\ call'[r].pc \in {"streaming", "closed"} /\ call'[r].answer = a
           /\ \A q \in Requests \ {r} :
                call'[q] = call[q] /\ stream'[q] = stream[q] /\ records'[q] = records[q]
<1>1. call[r] \in Call /\ a # "none" /\ a # "reset" /\ a \in Answers
  BY DEF CallTypes
<1>2. ~ stream[r].settled /\ records[r] = 0 /\ ~ stream[r].pulling
  BY DEF One, Recorded, Streamed
<1>3. CASE /\ call' = [call EXCEPT ![r].pc = "closed", ![r].answer = a]
           /\ IF call[r].logged THEN emitClose(r) ELSE UNCHANGED <<records, stream>>
  <2>1. /\ call' \in [Requests -> Call]
        /\ call'[r].pc = "closed" /\ call'[r].answer = a
        /\ call'[r].logged = call[r].logged
        /\ \A q \in Requests \ {r} : call'[q] = call[q]
    BY <1>1, <1>3 DEF CallTypes, Call, Pcs
  <2>2. CASE call[r].logged
    <3>1. emitClose(r)
      BY <1>3, <2>2
    <3>2. /\ stream' \in [Requests -> [pulling : BOOLEAN, client : BOOLEAN, settled : BOOLEAN]]
          /\ records' \in [Requests -> 0 .. 3]
          /\ records'[r] = 1 /\ stream'[r].settled /\ ~ stream'[r].pulling
          /\ \A q \in Requests \ {r} : stream'[q] = stream[q] /\ records'[q] = records[q]
      BY <1>2, <3>1, EmitCloses
    <3> QED BY <1>1, <2>1, <2>2, <3>2 DEF CallTypes, Recorded, Streamed
  <2>3. CASE ~ call[r].logged
    <3>1. UNCHANGED <<records, stream>>
      BY <1>3, <2>3
    <3> QED BY <1>1, <1>2, <2>1, <2>3, <3>1 DEF CallTypes, Recorded, Streamed
  <2> QED BY <2>2, <2>3
<1>4. CASE /\ a = "ok" /\ call[r].logged /\ call[r].route = "rpc"
           /\ call' = [call EXCEPT ![r].pc = "streaming", ![r].answer = a]
           /\ UNCHANGED <<records, stream>>
  <2>1. /\ call' \in [Requests -> Call]
        /\ call'[r].pc = "streaming" /\ call'[r].answer = "ok"
        /\ call'[r].logged
        /\ \A q \in Requests \ {r} : call'[q] = call[q]
    BY <1>1, <1>4 DEF CallTypes, Call, Pcs
  <2> QED BY <1>1, <1>2, <1>4, <2>1 DEF CallTypes, Recorded, Streamed
<1> QED BY <1>3, <1>4, Zenon DEF answers

-----------------------------------------------------------------------------
(* What a step of r must show of what the invariant says of calls.         *)
Keeps(r) == CallTypes' /\ One(r)' /\ \A q \in Requests \ {r} : Same(q)

Open(r) == call[r].pc \notin {"streaming", "closed"}

LEMMA AnswerKeeps ==
    ASSUME RequestsInv, NEW r \in Requests, Open(r),
           NEW a \in Answers \ {"none", "reset", "deadline"}, answers(r, a),
           UNCHANGED store
    PROVE  Keeps(r)
<1>1. CallTypes /\ One(r) /\ call[r].pc \notin {"streaming", "closed"}
  BY DEF RequestsInv, RequestsType, CallTypes, Open
<1>2. /\ CallTypes'
      /\ Recorded(r)' /\ Streamed(r)'
      /\ call'[r].pc \in {"streaming", "closed"} /\ call'[r].answer = a
      /\ \A q \in Requests \ {r} :
           call'[q] = call[q] /\ stream'[q] = stream[q] /\ records'[q] = records[q]
  BY <1>1, AnswersOnce
<1>3. Composed(r)'
  BY <1>2 DEF Composed
<1> QED BY <1>2, <1>3 DEF Keeps, One, Same

LEMMA MoveKeeps ==
    ASSUME RequestsInv, NEW r \in Requests, Open(r),
           NEW pc \in Pcs \ {"streaming", "closed", "calling"}, moves(r, pc),
           UNCHANGED <<store, stream, records>>
    PROVE  Keeps(r)
<1>1. CallTypes /\ One(r) /\ call[r] \in Call /\ call[r].pc \notin {"streaming", "closed"}
  BY DEF RequestsInv, RequestsType, CallTypes, Open
<1>2. /\ call' \in [Requests -> Call]
      /\ call'[r].pc = pc /\ call'[r].answer = call[r].answer /\ call'[r].logged = call[r].logged
      /\ \A q \in Requests \ {r} : call'[q] = call[q]
  BY <1>1 DEF moves, CallTypes, Call, Pcs
<1>3. call[r].answer = "none"
  BY <1>1 DEF One, Composed
<1>4. One(r)'
  BY <1>1, <1>2, <1>3 DEF One, Recorded, Streamed, Composed
<1> QED BY <1>1, <1>2, <1>4 DEF Keeps, Same, CallTypes

LEMMA StillKeeps ==
    ASSUME RequestsInv, NEW r \in Requests, UNCHANGED <<call, store, stream, records>>
    PROVE  Keeps(r)
BY SameKeeps DEF RequestsInv, RequestsType, CallTypes, Keeps, Same

-----------------------------------------------------------------------------
(* The rest of the state, and the loads.                                   *)
OtherTypes ==
    /\ store \in [Requests -> Store]
    /\ work \in [Requests -> {"none", "validating", "running", "settled"}]
    /\ sub \in [Requests -> {"none", "running", "settled"}]
    /\ registry \in [memo : {"none", "pending", "rejected", "done"},
                    started : 0 .. MaxLoads, failed : 0 .. MaxLoads]
    /\ rpcModule \in {"none", "pending", "rejected", "done"}
    /\ server \in [pc : {"booting", "serving", "closing", "gone"}, cleanup : BOOLEAN,
                  handled : SUBSET {"INT", "TERM"}]
    /\ expired \subseteq Requests
    /\ LoadsAccounted

LEMMA Parts == RequestsInv <=> CallTypes /\ OtherTypes /\ \A r \in Requests : One(r)
BY DEF RequestsInv, RequestsType, CallTypes, OtherTypes

LEMMA KeepsInvariant ==
    ASSUME RequestsInv, NEW r \in Requests, Keeps(r), OtherTypes'
    PROVE  RequestsInv'
<1>1. \A q \in Requests : One(q)'
  BY SameKeeps DEF Keeps, RequestsInv
<1> QED BY <1>1 DEF Keeps, RequestsInv, RequestsType, CallTypes, OtherTypes

(* The deadline fires the controller of the Request the store holds.       *)
LEMMA AbortProperties ==
    ASSUME store \in [Requests -> Store], NEW r \in Requests, abortRpcTimeout(r)
    PROVE  /\ store' \in [Requests -> Store]
           /\ store'[r].req = store[r].req /\ store'[r].controller = store[r].controller
           /\ store[r].controller = store[r].req \/ store[r].fired => store'[r].fired
           /\ \A q \in Requests \ {r} : store'[q] = store[q]
<1> DEFINE fires == store[r].fired \/ store[r].controller = store[r].req
<1>1. store[r] \in Store /\ fires \in BOOLEAN
  BY DEF Store
<1>2. store' = [store EXCEPT ![r] = [@ EXCEPT !.fired = fires]]
  BY DEF abortRpcTimeout
<1>3. [store[r] EXCEPT !.fired = fires] \in Store
  BY <1>1 DEF Store
<1>4. /\ [store[r] EXCEPT !.fired = fires].fired = fires
      /\ [store[r] EXCEPT !.fired = fires].req = store[r].req
      /\ [store[r] EXCEPT !.fired = fires].controller = store[r].controller
  BY <1>1 DEF Store
<1> QED BY <1>2, <1>3, <1>4

LEMMA OtherStep ==
    ASSUME RequestsInv, NEW r \in Requests, RequestSteps(r)
    PROVE  OtherTypes'
<1> USE DEF OtherTypes, LoadsAccounted
<1>0. OtherTypes
  BY Parts
<1>1. CASE Direct(r)
  BY <1>0, <1>1 DEF Direct
<1>2. CASE Arrives(r)
  BY <1>0, <1>2 DEF Arrives
<1>3. CASE Dispatched(r)
  BY <1>0, <1>3 DEF Dispatched
<1>4. CASE Intercepted(r)
  BY <1>0, <1>4 DEF Intercepted
<1>5. CASE Throws(r)
  BY <1>0, <1>5 DEF Throws
<1>6. CASE Routed(r)
  BY <1>0, <1>6 DEF Routed
<1>7. CASE Refused(r)
  BY <1>0, <1>7 DEF Refused
<1>8. CASE Gated(r)
  BY <1>0, <1>8 DEF Gated
<1>9. CASE Rendered(r)
  BY <1>0, <1>9 DEF Rendered
<1>10. CASE TooLarge(r)
  BY <1>0, <1>10 DEF TooLarge
<1>11. CASE Parsed(r)
  <2>1. composed(r) \in Store
    BY <1>0 DEF composed, Store
  <2>2. store' \in [Requests -> Store]
    BY <1>0, <1>11, <2>1 DEF Parsed
  <2> QED BY <1>0, <1>11, <2>2 DEF Parsed
<1>12. CASE Validated(r)
  BY <1>0, <1>12 DEF Validated
<1>13. CASE Settles(r)
  BY <1>0, <1>13 DEF Settles
<1>14. CASE Deadline(r)
  <2>1. store' \in [Requests -> Store]
    BY <1>0, <1>14, AbortProperties DEF Deadline
  <2> QED BY <1>0, <1>14, <2>1 DEF Deadline
<1>15. CASE CallsRpc(r)
  BY <1>0, <1>15 DEF CallsRpc
<1>16. CASE SubSettles(r)
  BY <1>0, <1>16 DEF SubSettles
<1>17. CASE SubDeadline(r)
  <2>1. store' \in [Requests -> Store]
    BY <1>0, <1>17, AbortProperties DEF SubDeadline
  <2> QED BY <1>0, <1>17, <2>1 DEF SubDeadline
<1>18. CASE Handled(r)
  BY <1>0, <1>18 DEF Handled
<1>19. CASE Pull(r)
  BY <1>0, <1>19 DEF Pull
<1>20. CASE Chunk(r)
  BY <1>0, <1>20 DEF Chunk
<1>21. CASE PullEnds(r)
  BY <1>0, <1>21 DEF PullEnds
<1>22. CASE Cancel(r)
  BY <1>0, <1>22 DEF Cancel
<1>23. CASE Enumerates(r)
  <2>1. CASE registry.memo = "none"
    <3>1. registry' = [registry EXCEPT !.memo = "pending", !.started = @ + 1]
      BY <1>23, <2>1 DEF Enumerates
    <3>2. registry.started + 1 \in 0 .. MaxLoads
      BY <1>0, <1>23, <2>1, RequestsAssumption DEF Enumerates
    <3>3. /\ registry' \in [memo : {"none", "pending", "rejected", "done"},
                           started : 0 .. MaxLoads, failed : 0 .. MaxLoads]
          /\ registry'.memo = "pending" /\ registry'.started = registry.started + 1
          /\ registry'.failed = registry.failed
      BY <1>0, <3>1, <3>2
    <3>4. LoadsAccounted'
      BY <1>0, <2>1, <3>3
    <3> QED BY <1>0, <1>23, <3>3, <3>4 DEF Enumerates
  <2>2. CASE registry.memo # "none"
    BY <1>0, <1>23, <2>2 DEF Enumerates
  <2> QED BY <2>1, <2>2
<1>24. CASE Enumerated(r)
  BY <1>0, <1>24 DEF Enumerated
<1> QED
  BY <1>1, <1>2, <1>3, <1>4, <1>5, <1>6, <1>7, <1>8, <1>9, <1>10, <1>11, <1>12, <1>13,
     <1>14, <1>15, <1>16, <1>17, <1>18, <1>19, <1>20, <1>21, <1>22, <1>23, <1>24, Zenon
     DEF RequestSteps

LEMMA CallStep ==
    ASSUME RequestsInv, NEW r \in Requests, RequestSteps(r)
    PROVE  Keeps(r)
<1>0. /\ CallTypes /\ OtherTypes /\ One(r) /\ call[r] \in Call
      /\ \A q \in Requests \ {r} : Same(q) => One(q)'
  BY Parts, SameKeeps DEF CallTypes
<1>1. CASE Direct(r)
  <2>1. PICK logged \in BOOLEAN :
           /\ call' = [call EXCEPT ![r].pc = "closed", ![r].logged = logged, ![r].answer = "ok"]
           /\ IF logged THEN emitClose(r) ELSE UNCHANGED <<records, stream>>
    BY <1>1 DEF Direct
  <2>2. /\ call' \in [Requests -> Call]
        /\ call'[r].pc = "closed" /\ call'[r].answer = "ok" /\ call'[r].logged = logged
        /\ \A q \in Requests \ {r} : call'[q] = call[q]
    BY <1>0, <2>1 DEF CallTypes, Call, Pcs, Answers
  <2>3. call[r].pc = "none" /\ UNCHANGED store
    BY <1>1 DEF Direct, At
  <2>4. ~ stream[r].settled /\ records[r] = 0 /\ ~ stream[r].pulling
    BY <1>0, <2>3 DEF One, Recorded, Streamed
  <2>5. CASE logged
    <3>1. emitClose(r)
      BY <2>1, <2>5
    <3>2. /\ stream' \in [Requests -> [pulling : BOOLEAN, client : BOOLEAN, settled : BOOLEAN]]
          /\ records' \in [Requests -> 0 .. 3]
          /\ records'[r] = 1 /\ stream'[r].settled /\ ~ stream'[r].pulling
          /\ \A q \in Requests \ {r} : stream'[q] = stream[q] /\ records'[q] = records[q]
      BY <1>0, <2>4, <3>1, EmitCloses
    <3> QED
      BY <2>2, <2>3, <2>5, <3>2
      DEF Keeps, CallTypes, One, Recorded, Streamed, Composed, Same
  <2>6. CASE ~ logged
    <3>1. UNCHANGED <<records, stream>>
      BY <2>1, <2>6
    <3> QED
      BY <1>0, <2>2, <2>3, <2>4, <2>6, <3>1
      DEF Keeps, CallTypes, One, Recorded, Streamed, Composed, Same
  <2> QED BY <2>5, <2>6
<1>2. ASSUME NEW c \in Call, call' = [call EXCEPT ![r] = c], call[r].pc = "none",
             c.pc \in {"handle", "parse"}, c.answer = "none",
             UNCHANGED <<store, stream, records>>
      PROVE  Keeps(r)
  <2>1. ~ stream[r].settled /\ records[r] = 0 /\ ~ stream[r].pulling
    BY <1>0, <1>2 DEF One, Recorded, Streamed
  <2>2. call' \in [Requests -> Call] /\ call'[r] = c
        /\ \A q \in Requests \ {r} : call'[q] = call[q]
    BY <1>0, <1>2 DEF CallTypes
  <2> QED
    BY <1>0, <1>2, <2>1, <2>2 DEF Keeps, CallTypes, One, Recorded, Streamed, Composed, Same
<1>3. CASE Arrives(r)
  <2>1. PICK route \in {"rpc", "page", "openapi"}, timed \in BOOLEAN, bounded \in BOOLEAN :
           call' = [call EXCEPT ![r] = [Idle EXCEPT !.pc = "handle", !.route = route,
                                                    !.timed = timed, !.bounded = bounded]]
    BY <1>3 DEF Arrives
  <2> QED BY <1>2, <1>3, <2>1 DEF Arrives, At, Idle, Call, Pcs, Answers
<1>4. CASE Dispatched(r)
  <2>1. PICK timed \in BOOLEAN, bounded \in BOOLEAN :
           call' = [call EXCEPT ![r] = [Idle EXCEPT !.pc = "parse", !.logged = FALSE,
                                                    !.timed = timed, !.bounded = bounded]]
    BY <1>4 DEF Dispatched
  <2> QED BY <1>2, <1>4, <2>1 DEF Dispatched, At, Idle, Call, Pcs, Answers
<1>5. CASE Intercepted(r) \/ Refused(r) \/ TooLarge(r)
  BY <1>5, AnswerKeeps DEF Intercepted, Refused, TooLarge, At, Open, Answers
<1>6. CASE Rendered(r) \/ Enumerated(r)
  BY <1>6, AnswerKeeps DEF Rendered, Enumerated, At, Open, Answers
<1>7. CASE Throws(r) \/ Gated(r) \/ Enumerates(r) \/ Routed(r)
  BY <1>7, MoveKeeps DEF Throws, Gated, Enumerates, Routed, At, Open, Pcs
<1>8. CASE Validated(r) \/ CallsRpc(r) \/ SubSettles(r)
  BY <1>8, StillKeeps DEF Validated, CallsRpc, SubSettles
<1>9. CASE Parsed(r)
  <2>1. /\ call' = [call EXCEPT ![r].pc = "calling"] /\ call[r].pc = "parse"
        /\ store' = [store EXCEPT ![r] = composed(r)] /\ UNCHANGED <<stream, records>>
    BY <1>9 DEF Parsed, moves, At
  <2>2. /\ call' \in [Requests -> Call]
        /\ call'[r].pc = "calling" /\ call'[r].answer = call[r].answer
        /\ call'[r].timed = call[r].timed
        /\ \A q \in Requests \ {r} : call'[q] = call[q] /\ store'[q] = store[q]
    BY <1>0, <2>1 DEF CallTypes, OtherTypes, Call, Pcs
  <2>3. call[r].timed => store'[r].controller = store'[r].req
    BY <1>0, <2>1 DEF OtherTypes, composed
  <2>4. call[r].answer = "none" /\ ~ stream[r].settled /\ records[r] = 0 /\ ~ stream[r].pulling
    BY <1>0, <2>1 DEF One, Recorded, Streamed, Composed
  <2>5. One(r)'
    BY <2>1, <2>2, <2>3, <2>4 DEF One, Recorded, Streamed, Composed
  <2> QED BY <1>0, <2>1, <2>2, <2>5 DEF Keeps, CallTypes, Same
<1>10. CASE Settles(r)
  <2>1. UNCHANGED store
    BY <1>10 DEF Settles
  <2>2. CASE call[r].pc = "calling" /\ answers(r, IF work[r] = "validating" THEN "refused" ELSE "ok")
    BY <2>1, <2>2, AnswerKeeps DEF Open, Answers
  <2>3. CASE call[r].pc = "calling" /\ moves(r, "failing") /\ UNCHANGED <<stream, records>>
    BY <2>1, <2>3, MoveKeeps DEF Open, Pcs
  <2>4. CASE UNCHANGED <<call, stream, records>>
    BY <2>1, <2>4, StillKeeps
  <2> QED BY <1>10, <2>2, <2>3, <2>4, Zenon DEF Settles
<1>11. CASE Deadline(r)
  <2>1. /\ call[r].pc = "calling" /\ call[r].timed
        /\ abortRpcTimeout(r) /\ answers(r, "deadline")
    BY <1>11 DEF Deadline, At
  <2>2. /\ store'[r].controller = store'[r].req /\ store'[r].fired
        /\ \A q \in Requests \ {r} : store'[q] = store[q]
    BY <1>0, <2>1, AbortProperties DEF OtherTypes, One, Composed
  <2>3. /\ CallTypes'
        /\ Recorded(r)' /\ Streamed(r)'
        /\ call'[r].pc \in {"streaming", "closed"}
        /\ \A q \in Requests \ {r} :
             call'[q] = call[q] /\ stream'[q] = stream[q] /\ records'[q] = records[q]
    BY <1>0, <2>1, AnswersOnce DEF Answers
  <2> QED BY <2>2, <2>3 DEF Keeps, One, Composed, Aborted, Same
<1>12. CASE SubDeadline(r)
  <2>1. abortRpcTimeout(r) /\ UNCHANGED <<call, stream, records>>
    BY <1>12 DEF SubDeadline
  <2>2. /\ store'[r].req = store[r].req /\ store'[r].controller = store[r].controller
        /\ store[r].fired => store'[r].fired
        /\ \A q \in Requests \ {r} : store'[q] = store[q]
    BY <1>0, <2>1, AbortProperties DEF OtherTypes
  <2> QED
    BY <1>0, <2>1, <2>2
    DEF Keeps, CallTypes, One, Recorded, Streamed, Composed, Aborted, Same
<1>13. CASE Handled(r)
  <2>1. call[r].pc = "failing" /\ UNCHANGED store
    BY <1>13 DEF Handled, At
  <2>2. CASE answers(r, "error")
    BY <2>1, <2>2, AnswerKeeps DEF Open, Answers
  <2>3. CASE call' = [call EXCEPT ![r].pc = "closed", ![r].answer = "reset"]
             /\ UNCHANGED <<records, stream>>
    <3>1. /\ call' \in [Requests -> Call]
          /\ call'[r].pc = "closed" /\ call'[r].answer = "reset"
          /\ \A q \in Requests \ {r} : call'[q] = call[q]
      BY <1>0, <2>3 DEF CallTypes, Call, Pcs, Answers
    <3>2. ~ stream[r].settled /\ records[r] = 0 /\ ~ stream[r].pulling
      BY <1>0, <2>1 DEF One, Recorded, Streamed
    <3> QED
      BY <1>0, <2>1, <2>3, <3>1, <3>2
      DEF Keeps, CallTypes, One, Recorded, Streamed, Composed, Same
  <2> QED BY <1>13, <2>2, <2>3 DEF Handled
<1>14. CASE Pull(r) \/ Chunk(r)
  <2>1. /\ call[r].pc = "streaming"
        /\ \E b \in BOOLEAN : stream' = [stream EXCEPT ![r] = [@ EXCEPT !.pulling = b]]
        /\ UNCHANGED <<call, store, records>>
    BY <1>14 DEF Pull, Chunk, At
  <2>2. /\ stream' \in [Requests -> [pulling : BOOLEAN, client : BOOLEAN, settled : BOOLEAN]]
        /\ stream'[r].settled = stream[r].settled
        /\ \A q \in Requests \ {r} : stream'[q] = stream[q]
    BY <1>0, <2>1 DEF CallTypes
  <2> QED
    BY <1>0, <2>1, <2>2 DEF Keeps, CallTypes, One, Recorded, Streamed, Composed, Same
<1>15. CASE PullEnds(r)
  <2>1. /\ call[r].pc \in {"streaming", "closed"} /\ stream[r].pulling
        /\ emitClose(r) /\ call' = [call EXCEPT ![r].pc = "closed"] /\ UNCHANGED store
    BY <1>15 DEF PullEnds, moves
  <2>2. /\ call' \in [Requests -> Call]
        /\ call'[r].pc = "closed" /\ call'[r].answer = call[r].answer
        /\ call'[r].logged = call[r].logged
        /\ \A q \in Requests \ {r} : call'[q] = call[q]
    BY <1>0, <2>1 DEF CallTypes, Call, Pcs
  <2>3. call[r].logged /\ call[r].answer = "ok"
    BY <1>0, <2>1 DEF One, Streamed
  <2>4. /\ stream' \in [Requests -> [pulling : BOOLEAN, client : BOOLEAN, settled : BOOLEAN]]
        /\ records' \in [Requests -> 0 .. 3]
        /\ records'[r] = 1 /\ stream'[r].settled /\ ~ stream'[r].pulling
        /\ \A q \in Requests \ {r} : stream'[q] = stream[q] /\ records'[q] = records[q]
    <3>1. (stream[r].settled <=> records[r] = 1) /\ records[r] \in 0 .. 1
      BY <1>0 DEF One, Recorded
    <3> QED BY <1>0, <2>1, <3>1, EmitCloses
  <2>5. One(r)'
    BY <2>2, <2>3, <2>4 DEF One, Recorded, Streamed, Composed
  <2> QED BY <2>1, <2>2, <2>4, <2>5 DEF Keeps, CallTypes, Same
<1>16. CASE Cancel(r)
  <2>1. /\ call[r].pc = "streaming" /\ call' = [call EXCEPT ![r].pc = "closed"]
        /\ records' = [records EXCEPT ![r] = IF stream[r].settled THEN @ ELSE @ + 1]
        /\ stream' = [stream EXCEPT ![r] = [@ EXCEPT !.client = FALSE, !.settled = TRUE]]
        /\ UNCHANGED store
    BY <1>16 DEF Cancel, moves, At
  <2>2. /\ call' \in [Requests -> Call]
        /\ call'[r].pc = "closed" /\ call'[r].answer = call[r].answer
        /\ call'[r].logged = call[r].logged
        /\ \A q \in Requests \ {r} : call'[q] = call[q]
    BY <1>0, <2>1 DEF CallTypes, Call, Pcs
  <2>3. call[r].logged /\ call[r].answer = "ok" /\ ~ stream[r].settled /\ records[r] = 0
    BY <1>0, <2>1 DEF One, Recorded, Streamed
  <2>4. records' = [records EXCEPT ![r] = 1]
    BY <2>1, <2>3
  <2>5. /\ stream' \in [Requests -> [pulling : BOOLEAN, client : BOOLEAN, settled : BOOLEAN]]
        /\ stream'[r].settled
        /\ \A q \in Requests \ {r} : stream'[q] = stream[q]
    BY <1>0, <2>1 DEF CallTypes
  <2>6. /\ records' \in [Requests -> 0 .. 3] /\ records'[r] = 1
        /\ \A q \in Requests \ {r} : records'[q] = records[q]
    BY <1>0, <2>4 DEF CallTypes
  <2>7. One(r)'
    BY <2>2, <2>3, <2>5, <2>6 DEF One, Recorded, Streamed, Composed
  <2> QED BY <2>1, <2>2, <2>5, <2>6, <2>7 DEF Keeps, CallTypes, Same
<1> QED
  BY <1>1, <1>3, <1>4, <1>5, <1>6, <1>7, <1>8, <1>9, <1>10, <1>11, <1>12, <1>13, <1>14, <1>15,
     <1>16, Zenon DEF RequestSteps

-----------------------------------------------------------------------------
LEMMA RequestsStep == RequestsInv /\ [RequestsNext]_qvars => RequestsInv'
<1> SUFFICES ASSUME RequestsInv, [RequestsNext]_qvars PROVE RequestsInv'
  OBVIOUS
<1>0. CallTypes /\ OtherTypes /\ \A r \in Requests : One(r)
  BY Parts
<1>1. ASSUME NEW r \in Requests, RequestSteps(r) PROVE RequestsInv'
  BY <1>1, OtherStep, CallStep, KeepsInvariant
<1>2. ASSUME UNCHANGED <<call, store, stream, records>>, OtherTypes' PROVE RequestsInv'
  BY <1>2, <1>0, SameKeeps DEF RequestsInv, RequestsType, CallTypes, OtherTypes, Same
<1>3. CASE ModuleLoads \/ RegistryLoads
  BY <1>0, <1>2, <1>3 DEF ModuleLoads, RegistryLoads, OtherTypes, LoadsAccounted
<1>4. CASE RegistryFails
  <2>1. OtherTypes'
    <3> USE DEF OtherTypes, LoadsAccounted
    <3>1. registry' = [registry EXCEPT !.memo = "none", !.failed = @ + 1] /\ registry.memo = "pending"
      BY <1>4 DEF RegistryFails
    <3>2. registry.started = registry.failed + 1
      BY <1>0, <3>1
    <3>3. registry.failed + 1 \in 0 .. MaxLoads
      BY <1>0, <3>2, RequestsAssumption
    <3>4. /\ registry' \in [memo : {"none", "pending", "rejected", "done"},
                           started : 0 .. MaxLoads, failed : 0 .. MaxLoads]
          /\ registry'.memo = "none" /\ registry'.started = registry.started
          /\ registry'.failed = registry.failed + 1
      BY <1>0, <3>1, <3>3
    <3>5. LoadsAccounted'
      BY <1>0, <3>2, <3>4
    <3> QED BY <1>0, <1>4, <3>4, <3>5 DEF RegistryFails
  <2>2. ASSUME NEW r \in Requests
        PROVE  /\ call'[r] \in Call
               /\ One(r)'
    <3>1. call[r] \in Call /\ One(r) /\ UNCHANGED <<store, stream, records>>
      BY <1>0, <1>4 DEF CallTypes, RegistryFails
    <3>2. CASE call[r].pc = "enumerating"
      <4>1. call'[r] = [call[r] EXCEPT !.pc = "failing"]
        BY <1>4, <3>2 DEF RegistryFails
      <4>2. /\ call'[r] \in Call /\ call'[r].pc = "failing" /\ call'[r].answer = call[r].answer
            /\ call'[r].logged = call[r].logged
        BY <3>1, <4>1 DEF Call, Pcs
      <4> QED BY <3>1, <3>2, <4>2 DEF One, Recorded, Streamed, Composed
    <3>3. CASE call[r].pc # "enumerating"
      <4>1. call'[r] = call[r]
        BY <1>4, <3>3 DEF RegistryFails
      <4> QED BY <3>1, <4>1, SameKeeps DEF Same
    <3> QED BY <3>2, <3>3
  <2>3. CallTypes'
    BY <1>0, <1>4, <2>2 DEF RegistryFails, CallTypes
  <2> QED BY <2>1, <2>2, <2>3 DEF RequestsInv, RequestsType, CallTypes, OtherTypes
<1>5. CASE Booted \/ CleanedUp \/ Watchdog \/ \E s \in {"INT", "TERM"} : Signal(s)
  <2>1. /\ UNCHANGED <<call, store, work, sub, stream, records, registry, rpcModule, expired>>
        /\ server' \in [pc : {"booting", "serving", "closing", "gone"}, cleanup : BOOLEAN,
                       handled : SUBSET {"INT", "TERM"}]
    <3>1. CASE Booted
      BY <1>0, <3>1 DEF Booted, OtherTypes
    <3>2. CASE CleanedUp \/ Watchdog
      BY <1>0, <3>2 DEF CleanedUp, Watchdog, OtherTypes
    <3>3. ASSUME NEW s \in {"INT", "TERM"}, Signal(s)
          PROVE  server' \in [pc : {"booting", "serving", "closing", "gone"}, cleanup : BOOLEAN,
                              handled : SUBSET {"INT", "TERM"}]
      <4>1. CASE server' = [server EXCEPT !.pc = "gone"]
        BY <1>0, <4>1 DEF OtherTypes
      <4>2. CASE server' = [server EXCEPT !.pc = "closing", !.handled = @ \cup {s}]
        <5>1. server.handled \cup {s} \in SUBSET {"INT", "TERM"}
          BY <1>0, <3>3 DEF OtherTypes
        <5> QED BY <1>0, <4>2, <5>1 DEF OtherTypes
      <4> QED BY <3>3, <4>1, <4>2 DEF Signal
    <3> QED BY <1>5, <3>1, <3>2, <3>3 DEF CleanedUp, Watchdog, Booted, Signal
  <2>2. OtherTypes'
    BY <1>0, <2>1 DEF OtherTypes, LoadsAccounted
  <2> QED BY <1>2, <2>1, <2>2
<1>6. CASE UNCHANGED qvars
  BY <1>0, <1>2, <1>6 DEF qvars, OtherTypes, LoadsAccounted
<1> QED BY <1>1, <1>3, <1>4, <1>5, <1>6 DEF RequestsNext

-----------------------------------------------------------------------------
(* The strengthening holds of every behaviour of the server, whatever its  *)
(* requests, loads and deadlines do (createFetchHandler, defineRpc).       *)
THEOREM RequestsInvariance == RequestsSpec => []RequestsInv
<1>1. RequestsSpec => RequestsInit /\ [][RequestsNext]_qvars
  BY DEF RequestsSpec
<1> QED BY <1>1, RequestsInitially, RequestsStep, PTL

(* Each request that ends, streamed, cancelled or failing, has exactly one *)
(* closing record, for any number of requests at once.                     *)
THEOREM RecordsAreExact == RequestsSpec => []RecordedOnce
<1>1. RequestsInv => RecordedOnce
  BY DEF RequestsInv, One, Recorded, RecordedOnce
<1> QED BY <1>1, RequestsInvariance, PTL

(* Whoever got a 504 had its handler's request().signal aborted, whatever  *)
(* the parse had put into the scope.                                       *)
THEOREM DeadlineReachesTheHandler == RequestsSpec => []TimeoutCancels
<1>1. RequestsInv => TimeoutCancels
  BY DEF RequestsInv, One, Composed, TimeoutCancels
<1> QED BY <1>1, RequestsInvariance, PTL

(* The registry is loaded once for all who wait, and again only after it   *)
(* failed, for any number of loads.                                        *)
THEOREM RegistryLoadsOnce == RequestsSpec => []LoadsAccounted
<1>1. RequestsInv => LoadsAccounted
  BY DEF RequestsInv
<1> QED BY <1>1, RequestsInvariance, PTL

-----------------------------------------------------------------------------
(* The two polls. Whatever TimerFires and the actions of the watch do, the *)
(* verdict health() returns is set together with the watch's.              *)
LEMMA HealthInitially == HealthInit => VerdictAgrees
  BY DEF HealthInit, WatchInit, VerdictAgrees

LEMMA HealthStep == VerdictAgrees /\ [HealthNext]_hvars => VerdictAgrees'
<1> SUFFICES ASSUME VerdictAgrees, [HealthNext]_hvars
             PROVE  VerdictAgrees'
  OBVIOUS
<1> USE DEF VerdictAgrees
<1>1. ASSUME UNCHANGED <<alive, fresh, backendAlive, watchedUrl>>
      PROVE  VerdictAgrees'
  BY <1>1
<1>2. ASSUME NEW now, restart(now)
      PROVE  VerdictAgrees'
  BY <1>2 DEF restart
<1>3. ASSUME pause
      PROVE  VerdictAgrees'
  BY <1>3 DEF pause, stop
<1>4. ASSUME NEW value, NEW first, reports(value, first), first <=> first /\ fresh, UNCHANGED watchedUrl
      PROVE  VerdictAgrees'
  BY <1>4 DEF reports
<1>5. CASE Subscribe
  BY <1>2, <1>5 DEF Subscribe
<1>6. CASE Unsubscribe
  BY <1>3, <1>6 DEF Unsubscribe
<1>7. CASE Hide
  BY <1>1, <1>3, <1>7 DEF Hide, watch
<1>8. CASE Show
  BY <1>1, <1>2, <1>8 DEF Show, watch
<1>9. CASE Online
  BY <1>1, <1>9 DEF Online
<1>10. CASE PollFires
  BY <1>1, <1>10 DEF PollFires, TimerFires
<1>11. CASE Ignored
  BY <1>1, <1>11 DEF Ignored, Discarded
<1>12. CASE Succeeds
  BY <1>12, <1>4 DEF Succeeds, Hit
<1>13. CASE Fails
  BY <1>13, <1>1, <1>4 DEF Fails
<1>14. CASE Flip
  BY <1>1, <1>14 DEF Flip, watch
<1>15. CASE UNCHANGED hvars
  BY <1>1, <1>15 DEF hvars, watch
<1> QED BY <1>5, <1>6, <1>7, <1>8, <1>9, <1>10, <1>11, <1>12, <1>13, <1>14, <1>15
        DEF HealthNext, Answer

(* The registry of reachable(), with types.                                *)
ReachInv == ReachType /\ PollIsRegistered /\ WarmIsPolled

LEMMA ColdType == Cold \in Entry <=> host \in BOOLEAN
  BY ReachableAssumption DEF Cold, Entry

LEMMA EntryProperties ==
  ASSUME NEW x \in Entry
  PROVE  /\ [x EXCEPT !.idle = TRUE] \in Entry /\ [x EXCEPT !.idle = TRUE].poll = x.poll
         /\ [x EXCEPT !.idle = FALSE] \in Entry /\ [x EXCEPT !.idle = FALSE].poll = x.poll
         /\ [x EXCEPT !.poll = "off"] \in Entry /\ [x EXCEPT !.poll = "off"].poll = "off"
         /\ [x EXCEPT !.during = {}] \in Entry /\ [x EXCEPT !.during = {}].poll = x.poll
         /\ [x EXCEPT !.during = BOOLEAN] \in Entry /\ [x EXCEPT !.during = BOOLEAN].poll = x.poll
  BY DEF Entry

LEMMA ReachInitially == ReachInit => ReachInv
<1> SUFFICES ASSUME ReachInit
             PROVE  ReachInv
  OBVIOUS
<1>1. [Cold EXCEPT !.poll = "off", !.during = {}] \in Entry
  <2>1. Cold \in Entry
    BY ColdType DEF ReachInit
  <2>2. [Cold EXCEPT !.poll = "off"] \in Entry
    BY <2>1, EntryProperties
  <2>3. [[Cold EXCEPT !.poll = "off"] EXCEPT !.during = {}] \in Entry
    BY <2>2, EntryProperties
  <2> QED BY <2>3
<1>2. [Cold EXCEPT !.poll = "off", !.during = {}].poll = "off"
  BY DEF Cold
<1> HIDE DEF Cold
<1> QED BY <1>1, <1>2 DEF ReachInit, ReachInv, ReachType, PollIsRegistered, WarmIsPolled

LEMMA ReadsKeep ==
  ASSUME ReachInv, NEW byScope \in BOOLEAN, reads(byScope), UNCHANGED host
  PROVE  ReachInv'
<1> USE ReachableAssumption DEF ReachInv, ReachType
<1>1. CASE registered # NoEntry
  <2>1. /\ entry' = [entry EXCEPT ![registered].idle = FALSE]
        /\ scope' = IF ~byScope THEN scope
                    ELSE IF Warm(registered) THEN Word(entry[registered].alive) ELSE registered
        /\ registered' = registered /\ cut' = cut
    BY <1>1 DEF reads
  <2>2. entry' \in [Entries -> Entry] /\ \A e \in Entries : entry'[e].poll = entry[e].poll
    <3> DEFINE x == [entry[registered] EXCEPT !.idle = FALSE]
    <3>1. x \in Entry /\ x.poll = entry[registered].poll
      BY <1>1, EntryProperties
    <3>2. entry' = [entry EXCEPT ![registered] = x]
      BY <2>1
    <3> HIDE DEF x
    <3> QED BY <1>1, <3>1, <3>2
  <2>3. scope' \in {"stale", "up", "down"} \cup Entries
    BY <1>1, <2>1 DEF Word
  <2> QED BY <1>1, <2>1, <2>2, <2>3 DEF PollIsRegistered, WarmIsPolled
<1>2. CASE registered = NoEntry
  <2>1. PICK e \in Free :
            /\ registered' = e
            /\ entry' = [entry EXCEPT ![e] = Cold]
            /\ cut' = cut \ {e}
            /\ scope' = IF byScope THEN e ELSE scope
    BY <1>2 DEF reads
  <2>2. Cold \in Entry /\ Cold.poll = "first"
    BY ColdType DEF Cold
  <2>3. /\ entry' \in [Entries -> Entry] /\ entry'[e].poll = "first"
        /\ \A d \in Entries \ {e} : entry'[d].poll = entry[d].poll
    BY <2>1, <2>2 DEF Free
  <2> QED BY <1>2, <2>1, <2>3 DEF PollIsRegistered, WarmIsPolled, Free
<1> QED BY <1>1, <1>2

LEMMA AnswersKeep ==
  ASSUME ReachInv, NEW e \in Entries, FirstAnswer(e) \/ Answered(e)
  PROVE  ReachInv'
<1> USE ReachableAssumption DEF ReachInv, ReachType
<1>1. /\ entry' \in [Entries -> Entry]
      /\ \A d \in Entries : entry'[d].poll # "off" <=> entry[d].poll # "off"
      /\ UNCHANGED <<host, registered, cut>>
      /\ scope' \in {"stale", "up", "down"} \cup Entries
  <2>1. CASE FirstAnswer(e)
    <3>1. PICK b \in entry[e].during :
              /\ entry[e].poll = "first"
              /\ entry' = [entry EXCEPT ![e].alive = b, ![e].poll = "armed", ![e].during = {}]
              /\ scope' = IF scope = e THEN Word(b) ELSE scope
              /\ UNCHANGED <<host, registered, cut>>
      BY <2>1 DEF FirstAnswer
    <3>2. b \in BOOLEAN
      BY DEF Entry
    <3> DEFINE x == [entry[e] EXCEPT !.alive = b, !.poll = "armed", !.during = {}]
    <3>3. x \in Entry /\ x.poll = "armed"
      BY <3>2 DEF Entry
    <3>4. entry' = [entry EXCEPT ![e] = x]
      BY <3>1
    <3> HIDE DEF x
    <3>5. entry' \in [Entries -> Entry]
      BY <3>3, <3>4
    <3>6. \A d \in Entries : entry'[d].poll # "off" <=> entry[d].poll # "off"
      BY <3>1, <3>3, <3>4
    <3>7. scope' \in {"stale", "up", "down"} \cup Entries
      BY <3>1, <3>2 DEF Word
    <3> QED BY <3>1, <3>5, <3>6, <3>7
  <2>2. CASE Answered(e)
    <3> DEFINE misses(b) == IF b THEN 0
                            ELSE IF entry[e].failures < Misses THEN entry[e].failures + 1 ELSE Misses
               counted(b) == [entry[e] EXCEPT !.poll = "armed", !.during = {}, !.failures = misses(b)]
               told(b) == [counted(b) EXCEPT !.verdict = b, !.alive = b, !.fresh = FALSE]
    <3>1. PICK b \in IF entry[e].during = {} THEN {FALSE} ELSE entry[e].during :
              /\ entry[e].poll = "asks"
              /\ \/ entry' = [entry EXCEPT ![e] = told(b)] /\ scope' = "stale"
                 \/ entry' = [entry EXCEPT ![e] = counted(b)] /\ UNCHANGED scope
              /\ UNCHANGED <<host, registered, cut>>
      BY <2>2 DEF Answered
    <3>2. b \in BOOLEAN
      BY DEF Entry
    <3>3. misses(b) \in 0 .. Misses
      BY <3>2 DEF Entry
    <3> HIDE DEF misses
    <3>4. counted(b) \in Entry /\ counted(b).poll = "armed"
      BY <3>3 DEF Entry
    <3> HIDE DEF counted
    <3>5. told(b) \in Entry /\ told(b).poll = "armed"
      BY <3>2, <3>4 DEF Entry
    <3> HIDE DEF told
    <3> QED BY <3>1, <3>4, <3>5
  <2> QED BY <2>1, <2>2
<1> QED BY <1>1 DEF PollIsRegistered, WarmIsPolled

LEMMA ReapsKeep ==
  ASSUME ReachInv, NEW e \in Entries, Reaps(e)
  PROVE  ReachInv'
<1> USE ReachableAssumption DEF ReachInv, ReachType
<1> DEFINE asking == [entry EXCEPT ![e].poll = "asks", ![e].during = {}]
<1>1. /\ registered \in Entries /\ registered' = NoEntry
      /\ cut' = IF entry[registered].poll = "first" THEN cut \cup {registered} ELSE cut
      /\ UNCHANGED <<host, scope>>
      /\ entry[e].poll = "armed"
  BY DEF Reaps, leaves
<1>2. entry' = [asking EXCEPT ![registered].poll = IF asking[registered].poll = "first" THEN "first" ELSE "off"]
  <2>1. entry' = [asking EXCEPT ![registered].poll = IF @ = "first" THEN "first" ELSE "off"]
    BY <1>1 DEF Reaps
  <2> HIDE DEF asking
  <2> QED BY <2>1
<1>3. /\ asking \in [Entries -> Entry]
      /\ \A d \in Entries : asking[d].poll = IF d = e THEN "asks" ELSE entry[d].poll
  <2> DEFINE x == [entry[e] EXCEPT !.poll = "asks", !.during = {}]
  <2>1. x \in Entry /\ x.poll = "asks"
    BY DEF Entry
  <2>2. asking = [entry EXCEPT ![e] = x]
    OBVIOUS
  <2> HIDE DEF x
  <2> QED BY <2>1, <2>2
<1> HIDE DEF asking
<1>4. /\ entry' \in [Entries -> Entry]
      /\ \A d \in Entries : entry'[d].poll = IF d # registered THEN asking[d].poll
                            ELSE IF asking[d].poll = "first" THEN "first" ELSE "off"
  BY <1>1, <1>2, <1>3 DEF Entry
<1> QED BY <1>1, <1>3, <1>4 DEF PollIsRegistered, WarmIsPolled

LEMMA StopAllKeeps ==
  ASSUME ReachInv, StopAll
  PROVE  ReachInv'
<1> USE ReachableAssumption DEF ReachInv, ReachType
<1>1. /\ registered \in Entries /\ registered' = NoEntry
      /\ cut' = IF entry[registered].poll = "first" THEN cut \cup {registered} ELSE cut
      /\ UNCHANGED <<host, scope>>
      /\ entry' = [entry EXCEPT ![registered].poll =
                       IF entry[registered].poll = "first" THEN "first" ELSE "off"]
  BY DEF StopAll, leaves
<1>2. /\ entry' \in [Entries -> Entry]
      /\ \A d \in Entries : entry'[d].poll = IF d # registered THEN entry[d].poll
                            ELSE IF entry[d].poll = "first" THEN "first" ELSE "off"
  BY <1>1 DEF Entry
<1> QED BY <1>1, <1>2 DEF PollIsRegistered, WarmIsPolled

LEMMA ReachStep == ReachInv /\ [ReachNext \/ StopAll]_rvars => ReachInv'
<1> SUFFICES ASSUME ReachInv, [ReachNext \/ StopAll]_rvars
             PROVE  ReachInv'
  OBVIOUS
<1>1. ASSUME /\ entry' \in [Entries -> Entry]
             /\ \A d \in Entries : entry'[d].poll # "off" <=> entry[d].poll # "off"
             /\ UNCHANGED <<registered, cut, scope>> /\ host' \in BOOLEAN
      PROVE  ReachInv'
  BY <1>1, ReachableAssumption DEF ReachInv, ReachType, PollIsRegistered, WarmIsPolled
<1>2. CASE ScopeRuns \/ CallerReads
  BY <1>2, ReadsKeep DEF ScopeRuns, CallerReads
<1>3. CASE GrowsIdle
  <2> DEFINE x == [entry[registered] EXCEPT !.idle = TRUE]
  <2>1. registered \in Entries
    BY <1>3 DEF GrowsIdle, ReachInv, ReachType
  <2>2. x \in Entry /\ x.poll = entry[registered].poll
    BY <2>1 DEF ReachInv, ReachType, Entry
  <2>3. entry' = [entry EXCEPT ![registered] = x] /\ UNCHANGED <<host, registered, cut, scope>>
    BY <1>3 DEF GrowsIdle
  <2> HIDE DEF x
  <2> QED BY <1>1, <2>1, <2>2, <2>3 DEF ReachInv, ReachType
<1>4. CASE HostFlips
  <2>1. \A e \in Entries : /\ [entry[e] EXCEPT !.during = BOOLEAN] \in Entry
                            /\ [entry[e] EXCEPT !.during = BOOLEAN].poll = entry[e].poll
    BY EntryProperties DEF ReachInv, ReachType
  <2>2. \A e \in Entries : entry'[e] = IF host \in entry[e].during
                                       THEN [entry[e] EXCEPT !.during = BOOLEAN] ELSE entry[e]
    BY <1>4 DEF HostFlips
  <2>3. \A e \in Entries : entry'[e] \in Entry /\ entry'[e].poll = entry[e].poll
    BY <2>1, <2>2 DEF ReachInv, ReachType
  <2>4. entry' \in [Entries -> Entry]
    <3>1. entry' = [e \in Entries |-> entry'[e]]
      BY <1>4 DEF HostFlips
    <3> QED BY <2>3, <3>1
  <2>5. host' \in BOOLEAN /\ UNCHANGED <<registered, cut, scope>>
    BY <1>4 DEF HostFlips
  <2> QED BY <1>1, <2>3, <2>4, <2>5
<1>5. ASSUME NEW e \in Entries, Asks(e)
      PROVE  ReachInv'
  <2> DEFINE x == [entry[e] EXCEPT !.poll = "asks", !.during = {host}]
  <2>1. x \in Entry /\ x.poll = "asks"
    BY DEF ReachInv, ReachType, Entry
  <2>2. /\ entry' = [entry EXCEPT ![e] = x] /\ entry[e].poll = "armed"
        /\ UNCHANGED <<host, registered, cut, scope>>
    BY <1>5 DEF Asks
  <2> HIDE DEF x
  <2> QED BY <1>1, <2>1, <2>2 DEF ReachInv, ReachType
<1>6. CASE UNCHANGED rvars
  BY <1>1, <1>6 DEF rvars, ReachInv, ReachType
<1>7. CASE StopAll
  BY <1>7, StopAllKeeps
<1> QED BY <1>2, <1>3, <1>4, <1>5, <1>6, <1>7, AnswersKeep, ReapsKeep DEF ReachNext, polls

(* Both polls keep what they say and what they run in step: once its watch *)
(* has reported, health() returns its verdict, through every hide, show,   *)
(* restart and stray timer; and only the entry that reachable()'s readers  *)
(* get is polled, but for one stopped before its first answer, and it      *)
(* always is (health.ts, createReachable.ts), for any number of entries.   *)
THEOREM ThePollsAreSound == Spec => []PollsSound
<1>1. Init => VerdictAgrees /\ ReachInv
  BY HealthInitially, ReachInitially DEF Init
<1>2. [Next]_serverVars => [HealthNext]_hvars /\ [ReachNext \/ StopAll]_rvars
  BY DEF Next, serverVars
<1>3. VerdictAgrees /\ ReachInv /\ [Next]_serverVars => (VerdictAgrees /\ ReachInv)'
  BY <1>2, HealthStep, ReachStep
<1>4. VerdictAgrees /\ ReachInv => PollsSound
  BY DEF ReachInv, PollsSound
<1> QED BY <1>1, <1>3, <1>4, PTL DEF Spec

=============================================================================
